--------------------------- MODULE SessionsProofs ---------------------------
(***************************************************************************)
(* Theorems about Sessions, for any number of tabs, tokens, events and     *)
(* failures.                                                               *)
(***************************************************************************)
EXTENDS Sessions, SequenceTheorems, TLAPS

TokenRow ==
  [family : Nat, client : Client, revoked : BOOLEAN, expired : BOOLEAN, purged : BOOLEAN, late : BOOLEAN]

-----------------------------------------------------------------------------
(* The rows of tokens: appended and marked, never taken away *)

(* The tokens issued before stay, each of the family and client it was issued for, and none that died
   comes to life. *)
Kept ==
  /\ token' \in Seq(TokenRow) /\ Issued \subseteq Issued'
  /\ \A t \in Issued : /\ token'[t].family = token[t].family /\ token'[t].client = token[t].client
                       /\ token'[t].late = token[t].late
                       /\ Live(t)' => Live(t)

LEMMA IssuedIs ==
  ASSUME token \in Seq(TokenRow)
  PROVE  Issued = 1..Len(token) /\ Len(token) \in Nat /\ \A t \in Issued : token[t] \in TokenRow
BY LenProperties DEF Issued

LEMMA SameRange ==
  ASSUME NEW m \in Nat, NEW n \in Nat, 1..m = 1..n
  PROVE  m = n
<1>1. \A k \in Int : (1 <= k /\ k <= m) <=> (1 <= k /\ k <= n)
  <2>1. \A k \in Int : (k \in 1..m) <=> (1 <= k /\ k <= m)
    OBVIOUS
  <2>2. \A k \in Int : (k \in 1..n) <=> (1 <= k /\ k <= n)
    OBVIOUS
  <2> QED BY <2>1, <2>2
<1>2. (1 <= m => m <= n) /\ (1 <= n => n <= m)
  BY <1>1
<1> QED BY <1>2

LEMMA SameLength ==
  ASSUME NEW s \in Seq(TokenRow), NEW t \in Seq(TokenRow), DOMAIN s = DOMAIN t
  PROVE  Len(s) = Len(t)
<1>1. Len(s) \in Nat /\ Len(t) \in Nat /\ DOMAIN s = 1..Len(s) /\ DOMAIN t = 1..Len(t)
  BY LenProperties
<1>2. 1..Len(s) = 1..Len(t)
  BY <1>1
<1> QED BY <1>1, <1>2, SameRange

LEMMA TokensUnchanged ==
  ASSUME token \in Seq(TokenRow), UNCHANGED token
  PROVE  Kept /\ Issued' = Issued /\ Len(token') = Len(token) /\ \A t \in Issued : Live(t)' <=> Live(t)
BY DEF Kept, Issued, Live

LEMMA RevokeFacts ==
  ASSUME token \in Seq(TokenRow), NEW S, token' = Revoke(S)
  PROVE  /\ Kept /\ Issued' = Issued /\ Len(token') = Len(token)
         /\ \A t \in Issued : Live(t)' <=> (Live(t) /\ t \notin S)
<1>1. ASSUME NEW t \in Issued
      PROVE  /\ token'[t] \in TokenRow
             /\ token'[t].family = token[t].family /\ token'[t].client = token[t].client
             /\ token'[t].late = token[t].late /\ token'[t].expired = token[t].expired
             /\ token'[t].purged = token[t].purged
             /\ IF t \in S THEN token'[t].revoked = TRUE ELSE token'[t].revoked = token[t].revoked
  <2>1. token[t] \in TokenRow
    BY IssuedIs
  <2>2. CASE t \in S
    <3>1. token'[t] = [token[t] EXCEPT !.revoked = TRUE]
      BY <2>2 DEF Revoke
    <3> QED BY <2>1, <2>2, <3>1 DEF TokenRow
  <2>3. CASE t \notin S
    <3>1. token'[t] = token[t]
      BY <2>3 DEF Revoke
    <3> QED BY <2>1, <2>3, <3>1
  <2> QED BY <2>2, <2>3
<1>2. Issued' = Issued
  BY DEF Revoke, Issued
<1>3. token' \in Seq(TokenRow)
  <2>1. token' \in [1..Len(token) -> TokenRow]
    BY <1>1, IssuedIs DEF Revoke
  <2> QED BY <2>1, IssuedIs, SeqDef
<1>4. ASSUME NEW t \in Issued PROVE Live(t)' <=> (Live(t) /\ t \notin S)
  <2>1. CASE t \in S
    <3>1. token'[t].revoked = TRUE
      BY <1>1, <2>1
    <3> QED BY <2>1, <3>1 DEF Live
  <2>2. CASE t \notin S
    <3>1. token'[t].revoked = token[t].revoked /\ token'[t].expired = token[t].expired
          /\ token'[t].purged = token[t].purged
      BY <1>1, <2>2
    <3> QED BY <2>2, <3>1 DEF Live
  <2> QED BY <2>1, <2>2
<1> QED BY <1>1, <1>2, <1>3, <1>4, SameLength DEF Kept, Issued

LEMMA AppendFacts ==
  ASSUME token \in Seq(TokenRow), NEW family \in Nat, NEW client \in Client, NEW late \in BOOLEAN,
         token' = Append(token, Row(family, client, late))
  PROVE  /\ Kept /\ Issued' = Issued \cup {Len(token) + 1} /\ Len(token) + 1 \notin Issued
         /\ \A t \in Issued : Live(t)' <=> Live(t)
         /\ \A n : n = Len(token) + 1 => Live(n)'
         /\ token'[Len(token) + 1].family = family /\ token'[Len(token) + 1].client = client
         /\ token'[Len(token) + 1].late = late
<1>1. Row(family, client, late) \in TokenRow
  BY DEF Row, TokenRow
<1>2. /\ token' \in Seq(TokenRow) /\ Len(token') = Len(token) + 1
      /\ \A t \in 1..Len(token) : token'[t] = token[t]
      /\ token'[Len(token) + 1] = Row(family, client, late)
  BY <1>1, AppendProperties
<1>3. Issued = 1..Len(token) /\ Issued' = 1..(Len(token) + 1) /\ Len(token) \in Nat
  BY <1>2, IssuedIs, LenProperties DEF Issued
<1>4. \A t \in Issued : token'[t] = token[t]
  BY <1>2, <1>3
<1>5. \A t \in Issued : Live(t)' <=> Live(t)
  BY <1>4 DEF Live
<1>6. \A n : n = Len(token) + 1 => Live(n)'
  BY <1>2 DEF Live, Row
<1>7. Kept
  BY <1>2, <1>3, <1>4, <1>5 DEF Kept
<1> QED BY <1>2, <1>3, <1>5, <1>6, <1>7 DEF Row

LEMMA MarkFacts ==
  ASSUME token \in Seq(TokenRow), NEW t \in Issued,
         token' = [token EXCEPT ![t].expired = TRUE] \/ token' = [token EXCEPT ![t].purged = TRUE]
  PROVE  Kept /\ Issued' = Issued /\ Len(token') = Len(token)
<1>1. token[t] \in TokenRow /\ t \in 1..Len(token)
  BY IssuedIs
<1> DEFINE row == IF token' = [token EXCEPT ![t].expired = TRUE] THEN [token[t] EXCEPT !.expired = TRUE]
                  ELSE [token[t] EXCEPT !.purged = TRUE]
<1>2. row \in TokenRow /\ row.family = token[t].family /\ row.client = token[t].client /\ row.late = token[t].late
      /\ row.revoked = token[t].revoked /\ (row.expired = token[t].expired \/ row.expired = TRUE)
      /\ (row.purged = token[t].purged \/ row.purged = TRUE)
  BY <1>1 DEF TokenRow
<1>3. token' = [token EXCEPT ![t] = row]
  OBVIOUS
<1> HIDE DEF row
<1>4. /\ token' \in Seq(TokenRow) /\ Len(token') = Len(token)
      /\ \A u \in 1..Len(token) : token'[u] = IF u = t THEN row ELSE token[u]
  BY <1>1, <1>2, <1>3, ExceptSeq
<1>5. Issued' = Issued
  BY <1>4, IssuedIs, LenProperties DEF Issued
<1>6. ASSUME NEW u \in Issued
      PROVE  /\ token'[u].family = token[u].family /\ token'[u].client = token[u].client
             /\ token'[u].late = token[u].late /\ token'[u].revoked = token[u].revoked
             /\ token'[u].expired = token[u].expired \/ token'[u].expired = TRUE
             /\ token'[u].purged = token[u].purged \/ token'[u].purged = TRUE
  BY <1>2, <1>4, IssuedIs
<1>7. \A u \in Issued : Live(u)' => Live(u)
  BY <1>6 DEF Live
<1> QED BY <1>4, <1>5, <1>6, <1>7 DEF Kept

-----------------------------------------------------------------------------
(* Requests *)

OrNone == Nat \cup {None}

Stage == {"sent", "checked", "replayed", "rotating", "issued", "rejected"}

RefreshRequest ==
  [by : Refresher, token : Nat, waiting : BOOLEAN, at : Stage, new : OrNone, late : BOOLEAN,
   outlived : BOOLEAN]

SignIn == [client : Client, late : BOOLEAN]

(* The request r takes the place of q, of the same client, token and history. *)
Replaces(q, r) ==
  /\ request' = (request \ {q}) \cup {r}
  /\ r.by = q.by /\ r.token = q.token /\ r.outlived = q.outlived

LEMMA MoveFacts ==
  ASSUME request \subseteq RefreshRequest, NEW q \in request, NEW at \in Stage, Move(q, at)
  PROVE  \E r \in RefreshRequest :
           /\ Replaces(q, r) /\ r.at = at /\ r.new = q.new /\ r.waiting = q.waiting /\ r.late = q.late
<1> DEFINE r == [q EXCEPT !.at = at]
<1>1. q \in RefreshRequest /\ request' = (request \ {q}) \cup {r}
  BY DEF Move
<1>2. r \in RefreshRequest /\ r.by = q.by /\ r.token = q.token /\ r.at = at /\ r.new = q.new
      /\ r.waiting = q.waiting /\ r.late = q.late /\ r.outlived = q.outlived
  BY <1>1 DEF RefreshRequest
<1> HIDE DEF r
<1> QED BY <1>1, <1>2 DEF Replaces

(* What each step of the server does to the request and to the tokens. *)
Typed ==
  /\ token \in Seq(TokenRow)
  /\ request \subseteq RefreshRequest
  /\ signIn \subseteq SignIn
  /\ stored \in [Client -> OrNone]
  /\ tab \in [Tab -> [held : OrNone, stash : OrNone, impersonating : BOOLEAN]]
  /\ user \in {"active", "deactivating", "inactive", "unfinished"}
  /\ used \in [of : Scenario, events : Nat, failures : Nat]
  /\ \A q \in request : q.token \in Issued

LEMMA LookupSteps ==
  ASSUME Typed, NEW q \in request, Lookup(q)
  PROVE  /\ q.at = "sent" /\ UNCHANGED <<signIn, stored, tab, user, used>>
         /\ \E r \in RefreshRequest :
              /\ Replaces(q, r) /\ r.new = q.new /\ r.waiting = q.waiting /\ r.late = q.late
              /\ \/ r.at \in {"rejected", "replayed"} /\ ~Live(q.token) /\ UNCHANGED token
                 \/ r.at = "rejected" /\ user # "active" /\ token' = Revoke({q.token})
                 \/ r.at = "checked" /\ user = "active" /\ Live(q.token) /\ UNCHANGED token
<1> DEFINE row == token[q.token]
<1>1. row \in TokenRow
  BY IssuedIs DEF Typed
<1>2. q.at = "sent" /\ UNCHANGED <<signIn, stored, tab, user, used>>
  BY DEF Lookup
<1>3. /\ row.purged \/ (~row.purged /\ row.revoked) \/ (~row.purged /\ ~row.revoked /\ row.expired)
         \/ (Live(q.token) /\ user # "active") \/ (Live(q.token) /\ user = "active")
      /\ Live(q.token) <=> ~row.revoked /\ ~row.expired /\ ~row.purged
  BY <1>1 DEF Live
<1>4. \/ Move(q, "rejected") /\ UNCHANGED token /\ ~Live(q.token)
      \/ Move(q, "replayed") /\ UNCHANGED token /\ ~Live(q.token)
      \/ Move(q, "rejected") /\ token' = Revoke({q.token}) /\ user # "active"
      \/ Move(q, "checked") /\ UNCHANGED token /\ Live(q.token) /\ user = "active"
  BY <1>3 DEF Lookup
<1> HIDE DEF row
<1>5. request \subseteq RefreshRequest /\ {"rejected", "replayed", "checked"} \subseteq Stage
  BY DEF Typed, Stage
<1>6. CASE Move(q, "rejected")
  BY <1>2, <1>4, <1>5, <1>6, MoveFacts DEF Stage
<1>7. CASE Move(q, "replayed") /\ UNCHANGED token /\ ~Live(q.token)
  BY <1>2, <1>5, <1>7, MoveFacts
<1>8. CASE Move(q, "checked") /\ UNCHANGED token /\ Live(q.token) /\ user = "active"
  BY <1>2, <1>5, <1>8, MoveFacts
<1> QED BY <1>4, <1>6, <1>7, <1>8

LEMMA IssueSteps ==
  ASSUME Typed, NEW q \in request, Issue(q)
  PROVE  \E r \in RefreshRequest :
           Replaces(q, r) /\ r.waiting = q.waiting /\ r.late = q.late /\ r.at = "issued" /\ r.new = Len(token) + 1
<1> DEFINE r == [q EXCEPT !.at = "issued", !.new = Len(token) + 1]
<1>1. q \in RefreshRequest /\ request' = (request \ {q}) \cup {r} /\ Len(token) + 1 \in OrNone
  BY IssuedIs DEF Issue, OrNone, Typed
<1>2. r \in RefreshRequest /\ r.by = q.by /\ r.token = q.token /\ r.at = "issued" /\ r.new = Len(token) + 1
      /\ r.waiting = q.waiting /\ r.late = q.late /\ r.outlived = q.outlived
  BY <1>1 DEF RefreshRequest, Stage
<1> HIDE DEF r
<1> QED BY <1>1, <1>2 DEF Replaces

LEMMA ServeSteps ==
  ASSUME Typed, NEW q \in request, RevokeFamily(q) \/ RevokeOld(q) \/ Issue(q) \/ FailStatement(q)
  PROVE  /\ UNCHANGED <<signIn, stored, tab, user>>
         /\ \E r \in RefreshRequest :
              /\ Replaces(q, r) /\ r.waiting = q.waiting /\ r.late = q.late
              /\ \/ /\ q.at = "replayed" /\ r.at = "rejected" /\ r.new = q.new /\ used' = used
                    /\ token' = Revoke({t \in Issued : token[t].family = token[q.token].family})
                 \/ /\ q.at = "checked" /\ r.at = "rotating" /\ r.new = q.new /\ used' = used
                    /\ token' = Revoke({q.token})
                 \/ /\ q.at = "rotating" /\ r.at = "issued" /\ r.new = Len(token) + 1 /\ used' = used
                    /\ token' = Append(token, Row(token[q.token].family, ClientOf(q.by), q.late))
                 \/ r.at = "rejected" /\ r.new = q.new /\ Failure /\ UNCHANGED token
<1>0. request \subseteq RefreshRequest /\ {"rejected", "rotating", "issued"} \subseteq Stage
  BY DEF Typed, Stage
<1>1. CASE RevokeFamily(q)
  BY <1>0, <1>1, MoveFacts DEF RevokeFamily
<1>2. CASE RevokeOld(q)
  BY <1>0, <1>2, MoveFacts DEF RevokeOld
<1>3. CASE Issue(q)
  BY <1>3, IssueSteps DEF Issue
<1>4. CASE FailStatement(q)
  BY <1>0, <1>4, MoveFacts DEF FailStatement
<1> QED BY <1>1, <1>2, <1>3, <1>4

Fresh(r) ==
  [by |-> r, token |-> stored[ClientOf(r)], waiting |-> TRUE, at |-> "sent", new |-> None, late |-> FALSE,
   outlived |-> FALSE]

LEMMA RefreshSteps ==
  ASSUME Typed, \A c \in Client : stored[c] # None => stored[c] \in Issued, NEW r \in Refresher, Refresh(r)
  PROVE  /\ request' = request \cup {Fresh(r)} /\ Fresh(r) \in RefreshRequest
         /\ stored[ClientOf(r)] \in Issued /\ ~Waiting(r) /\ UNCHANGED <<token, signIn, stored, tab, user, used>>
<1>1. ClientOf(r) \in Client /\ stored[ClientOf(r)] # None /\ r \in Refresher
  BY DEF Refresh, ClientOf, Client
<1>2. stored[ClientOf(r)] \in Issued /\ Issued \subseteq Nat
  BY <1>1, IssuedIs DEF Typed
<1>3. Fresh(r) \in RefreshRequest
  BY <1>1, <1>2 DEF Fresh, RefreshRequest, OrNone, Stage
<1> QED BY <1>2, <1>3 DEF Refresh, Fresh

LEMMA LoseAnswerSteps ==
  ASSUME Typed, NEW q \in request, LoseAnswer(q)
  PROVE  /\ Failure /\ UNCHANGED <<token, signIn, user>>
         /\ stored' \in {stored, [stored EXCEPT !["browser"] = None]} /\ tab' = Cleared(q.by)
         /\ \E r \in RefreshRequest :
              Replaces(q, r) /\ r.at = q.at /\ r.new = q.new /\ r.late = q.late /\ r.waiting = FALSE
<1> DEFINE r == [q EXCEPT !.waiting = FALSE]
<1>1. q \in RefreshRequest /\ request' = (request \ {q}) \cup {r}
  BY DEF LoseAnswer, Typed
<1>2. r \in RefreshRequest /\ r.by = q.by /\ r.token = q.token /\ r.at = q.at /\ r.new = q.new
      /\ r.late = q.late /\ r.waiting = FALSE /\ r.outlived = q.outlived
  BY <1>1 DEF RefreshRequest
<1> HIDE DEF r
<1>3. Replaces(q, r)
  BY <1>1, <1>2 DEF Replaces
<1> QED BY <1>2, <1>3 DEF LoseAnswer

(* The refresh under way of a client that logs out goes on. *)
LEMMA LogoutSteps ==
  ASSUME Typed, NEW r, logout(r)
  PROVE  /\ UNCHANGED <<signIn, user, used>>
         /\ \A p \in request' :
              /\ p \in RefreshRequest
              /\ \E q \in request :
                   /\ p.by = q.by /\ p.token = q.token /\ p.at = q.at /\ p.new = q.new
                   /\ p.waiting = q.waiting /\ p.late = q.late
                   /\ IF q.by = r THEN p.outlived = TRUE ELSE p = q
         /\ \A q \in request : q.by # r => q \in request'
<1>1. request' = {IF q.by = r THEN [q EXCEPT !.outlived = TRUE] ELSE q : q \in request}
      /\ UNCHANGED <<signIn, user, used>>
  BY DEF logout
<1>2. ASSUME NEW q \in request
      PROVE  /\ [q EXCEPT !.outlived = TRUE] \in RefreshRequest
             /\ [q EXCEPT !.outlived = TRUE].by = q.by /\ [q EXCEPT !.outlived = TRUE].token = q.token
             /\ [q EXCEPT !.outlived = TRUE].at = q.at /\ [q EXCEPT !.outlived = TRUE].new = q.new
             /\ [q EXCEPT !.outlived = TRUE].waiting = q.waiting /\ [q EXCEPT !.outlived = TRUE].late = q.late
             /\ [q EXCEPT !.outlived = TRUE].outlived = TRUE
  BY DEF Typed, RefreshRequest
<1>3. ASSUME NEW p \in request'
      PROVE  /\ p \in RefreshRequest
             /\ \E q \in request :
                  /\ p.by = q.by /\ p.token = q.token /\ p.at = q.at /\ p.new = q.new
                  /\ p.waiting = q.waiting /\ p.late = q.late
                  /\ IF q.by = r THEN p.outlived = TRUE ELSE p = q
  <2>1. PICK q \in request : p = IF q.by = r THEN [q EXCEPT !.outlived = TRUE] ELSE q
    BY <1>1
  <2>2. CASE q.by = r
    BY <1>2, <2>1, <2>2
  <2>3. CASE q.by # r
    BY <2>1, <2>3 DEF Typed
  <2> QED BY <2>2, <2>3
<1>4. \A q \in request : q.by # r => q \in request'
  BY <1>1
<1> QED BY <1>1, <1>3, <1>4

(* Requests past their checks are marked. *)
LEMMA RevokeSessionsSteps ==
  ASSUME Typed, NEW clients, RevokeSessions(clients)
  PROVE  /\ token' = Revoke({t \in Issued : token[t].client \in clients})
         /\ \A r \in request' :
              /\ r \in RefreshRequest
              /\ \E q \in request :
                   /\ r.by = q.by /\ r.token = q.token /\ r.at = q.at /\ r.new = q.new /\ r.waiting = q.waiting
                   /\ q.late = TRUE => r.late = TRUE
                   /\ q.at \in {"checked", "rotating"} /\ token[q.token].client \in clients => r.late = TRUE
         /\ \A l \in signIn' :
              /\ l \in SignIn
              /\ \E k \in signIn : /\ l.client = k.client /\ (k.late = TRUE => l.late = TRUE)
                                   /\ k.client \in clients => l.late = TRUE
<1> DEFINE these == {t \in Issued : token[t].client \in clients}
           Marked(q) == [q EXCEPT !.late = @ \/ (q.at \in {"checked", "rotating"} /\ q.token \in these)]
<1>1. token' = Revoke(these) /\ request' = {Marked(q) : q \in request}
  BY DEF RevokeSessions
<1>2. ASSUME NEW q \in request
      PROVE  /\ Marked(q) \in RefreshRequest
             /\ Marked(q).by = q.by /\ Marked(q).token = q.token /\ Marked(q).at = q.at
             /\ Marked(q).new = q.new /\ Marked(q).waiting = q.waiting
             /\ q.late = TRUE => Marked(q).late = TRUE
             /\ q.at \in {"checked", "rotating"} /\ token[q.token].client \in clients => Marked(q).late = TRUE
  <2>1. q \in RefreshRequest /\ q.token \in Issued
    BY DEF Typed
  <2> DEFINE late == q.late \/ (q.at \in {"checked", "rotating"} /\ q.token \in these)
  <2>2. late \in BOOLEAN /\ (q.late = TRUE => late = TRUE)
        /\ (q.at \in {"checked", "rotating"} /\ token[q.token].client \in clients => late = TRUE)
    BY <2>1 DEF RefreshRequest
  <2>3. Marked(q) = [q EXCEPT !.late = late]
    OBVIOUS
  <2> HIDE DEF late
  <2>4. [q EXCEPT !.late = late] \in RefreshRequest
    BY <2>1, <2>2 DEF RefreshRequest
  <2>5. [q EXCEPT !.late = late].late = late
    BY <2>1 DEF RefreshRequest
  <2>6. /\ [q EXCEPT !.late = late].by = q.by /\ [q EXCEPT !.late = late].token = q.token
        /\ [q EXCEPT !.late = late].at = q.at /\ [q EXCEPT !.late = late].new = q.new
        /\ [q EXCEPT !.late = late].waiting = q.waiting
    BY <2>1 DEF RefreshRequest
  <2> HIDE DEF Marked
  <2> QED BY <2>2, <2>3, <2>4, <2>5, <2>6
<1>3. \A r \in request' : \E q \in request : r = Marked(q)
  BY <1>1
<1> HIDE DEF Marked
<1>4. ASSUME NEW r \in request'
      PROVE  /\ r \in RefreshRequest
             /\ \E q \in request :
                  /\ r.by = q.by /\ r.token = q.token /\ r.at = q.at /\ r.new = q.new /\ r.waiting = q.waiting
                  /\ q.late = TRUE => r.late = TRUE
                  /\ q.at \in {"checked", "rotating"} /\ token[q.token].client \in clients => r.late = TRUE
  <2>1. PICK q \in request : r = Marked(q)
    BY <1>3
  <2> QED BY <1>2, <2>1
<1>5. ASSUME NEW l \in signIn'
      PROVE  /\ l \in SignIn
             /\ \E k \in signIn : /\ l.client = k.client /\ (k.late = TRUE => l.late = TRUE)
                                  /\ k.client \in clients => l.late = TRUE
  <2>1. PICK k \in signIn : l = [k EXCEPT !.late = @ \/ k.client \in clients]
    BY <1>5 DEF RevokeSessions
  <2> DEFINE late == k.late \/ k.client \in clients
  <2>2. k \in SignIn
    BY DEF Typed
  <2>3. late \in BOOLEAN /\ (k.late = TRUE => late = TRUE) /\ (k.client \in clients => late = TRUE)
    BY <2>2 DEF SignIn
  <2>4. l = [k EXCEPT !.late = late]
    BY <2>1
  <2> HIDE DEF late
  <2>5. l \in SignIn /\ l.client = k.client /\ l.late = late
    BY <2>2, <2>3, <2>4 DEF SignIn
  <2> QED BY <2>3, <2>5
<1> QED BY <1>1, <1>4, <1>5

-----------------------------------------------------------------------------
(* Whose token is whose *)

(* A family begins with the token of that number, and is of one client. *)
Families ==
  /\ \A t \in Issued : token[t].family \in 1..t
  /\ \A t, u \in Issued : token[t].family = token[u].family => token[t].client = token[u].client

(* By these rows t is a token of the client c, or none. *)
Held(rows, t, c) == t # None => t \in DOMAIN rows /\ rows[t].client = c

Stores ==
  /\ \A c \in Client : Held(token, stored[c], c)
  /\ \A r \in Tab : Held(token, tab[r].held, "browser") /\ Held(token, tab[r].stash, "browser")

Requests ==
  \A q \in request : /\ Held(token, q.token, ClientOf(q.by))
                     /\ q.at = "issued" => q.new # None /\ Held(token, q.new, ClientOf(q.by))

OwnTokens == Typed /\ Families /\ Stores /\ Requests

LEMMA HeldKept ==
  ASSUME Kept, NEW t, NEW c, Held(token, t, c)
  PROVE  Held(token', t, c)
BY DEF Held, Kept, Issued

LEMMA NotNone == token \in Seq(TokenRow) => \A t \in Issued : t # None /\ t \in OrNone
BY IssuedIs, TabAssumption DEF OrNone

LEMMA Names ==
  /\ Client = {"phone", "browser"} /\ ClientOf("phone") = "phone"
  /\ \A r \in Tab : r # "phone" /\ r \in Refresher /\ ClientOf(r) = "browser"
  /\ \A r \in Refresher : r = "phone" \/ r \in Tab
  /\ \A r \in Refresher : ClientOf(r) \in Client
BY TabAssumption DEF Client, ClientOf, Refresher

(* Those who take part are the phone and tabs. *)
LEMMA Taking ==
  ASSUME Typed
  PROVE  used.of.who \subseteq Refresher /\ used.of \in Scenario
BY ScenarioAssumption DEF Typed, Refresher

LEMMA FamiliesKept ==
  ASSUME Families, Kept, Issued' = Issued
  PROVE  Families'
BY DEF Families, Kept

(* A token appended: of a family of its client, or of a new one. *)
LEMMA FamiliesGrow ==
  ASSUME token \in Seq(TokenRow), Families, NEW family \in Nat, NEW client \in Client, NEW late \in BOOLEAN,
         token' = Append(token, Row(family, client, late)),
         family = Len(token) + 1 \/ \E u \in Issued : token[u].family = family /\ token[u].client = client
  PROVE  Families'
<1> DEFINE n == Len(token) + 1
<1>1. /\ Kept /\ Issued' = Issued \cup {n} /\ n \notin Issued /\ n \in Nat \ {0}
      /\ token'[n].family = family /\ token'[n].client = client
  BY AppendFacts, IssuedIs
<1>2. Issued = 1..Len(token) /\ Len(token) \in Nat
  BY IssuedIs
<1> HIDE DEF n
<1>3. \A t \in Issued : token[t].family \in 1..Len(token) /\ token[t].family # Len(token) + 1
  BY <1>2 DEF Families
<1>4. \A t \in Issued : token[t].family \in 1..n /\ token[t].family # n
  BY <1>2, <1>3 DEF n
<1>5. family \in 1..n /\ \A t \in Issued : token[t].family = family => token[t].client = client
  <2>1. CASE family = n
    BY <1>1, <1>4, <2>1
  <2>2. CASE \E u \in Issued : token[u].family = family /\ token[u].client = client
    BY <1>4, <2>2 DEF Families
  <2> QED BY <2>1, <2>2 DEF n
<1>6. \A t \in Issued' : token'[t].family \in 1..t
  BY <1>1, <1>5 DEF Families, Kept
<1>7. ASSUME NEW t \in Issued', NEW u \in Issued', token'[t].family = token'[u].family
      PROVE  token'[t].client = token'[u].client
  <2>1. t \in Issued \/ t = n
    BY <1>1
  <2>2. u \in Issued \/ u = n
    BY <1>1
  <2>3. \A v \in Issued : token'[v].family = token[v].family /\ token'[v].client = token[v].client
    BY <1>1 DEF Kept
  <2>4. CASE t \in Issued /\ u \in Issued
    <3>1. token[t].family = token[u].family
      BY <1>7, <2>3, <2>4
    <3> QED BY <2>3, <2>4, <3>1 DEF Families
  <2>5. CASE t = n
    BY <1>1, <1>5, <1>7, <2>2, <2>3, <2>5
  <2>6. CASE u = n
    BY <1>1, <1>5, <1>7, <2>1, <2>3, <2>6
  <2> QED BY <2>1, <2>2, <2>4, <2>5, <2>6
<1> QED BY <1>6, <1>7 DEF Families

LEMMA InitOwn == Init => OwnTokens
<1> SUFFICES ASSUME Init PROVE OwnTokens
  OBVIOUS
<1>1. token = <<>> /\ token \in Seq(TokenRow) /\ Issued = {}
  <2>1. token \in Seq(TokenRow) /\ Len(token) = 0
    BY EmptySeq DEF Init
  <2> QED BY <2>1, IssuedIs DEF Init
<1>2. used \in [of : Scenario, events : Nat, failures : Nat]
  BY DEF Init
<1>3. Typed
  BY <1>1, <1>2 DEF Init, Typed, SignedOut, OrNone
<1> QED BY <1>1, <1>3 DEF Init, OwnTokens, Families, Stores, Requests, Held, SignedOut

(* Every step keeps the tokens issued. *)
LEMMA StepTokens ==
  ASSUME OwnTokens, [Next]_vars
  PROVE  Kept /\ Families'
<1>0. token \in Seq(TokenRow)
  BY DEF OwnTokens, Typed
<1>1. CASE UNCHANGED token
  BY <1>0, <1>1, TokensUnchanged, FamiliesKept DEF OwnTokens
<1>2. ASSUME NEW S, token' = Revoke(S) PROVE Kept /\ Families'
  BY <1>0, <1>2, RevokeFacts, FamiliesKept DEF OwnTokens
<1>3. ASSUME NEW l \in signIn, login(l) PROVE Kept /\ Families'
  <2>1. Len(token) + 1 \in Nat /\ token' = Append(token, Row(Len(token) + 1, l.client, l.late))
    BY <1>0, <1>3, IssuedIs DEF login
  <2>2. l.client \in Client /\ l.late \in BOOLEAN
    BY DEF OwnTokens, Typed, SignIn
  <2> QED BY <1>0, <2>1, <2>2, AppendFacts, FamiliesGrow DEF OwnTokens
<1>4. ASSUME NEW q \in request, Serve(q) \/ FailStatement(q) PROVE Kept /\ Families'
  <2>1. CASE Lookup(q)
    BY <1>1, <1>2, <2>1, LookupSteps DEF OwnTokens
  <2>2. CASE token' = Append(token, Row(token[q.token].family, ClientOf(q.by), q.late))
    <3>1. q \in RefreshRequest /\ q.token \in Issued /\ token[q.token] \in TokenRow
      BY <1>0, IssuedIs DEF OwnTokens, Typed
    <3>2. token[q.token].family \in Nat /\ q.late \in BOOLEAN /\ ClientOf(q.by) \in Client
      BY <3>1, Names DEF TokenRow, RefreshRequest
    <3>3. token[q.token].client = ClientOf(q.by)
      BY <1>0, <3>1, NotNone DEF OwnTokens, Requests, Held, Issued
    <3> QED BY <1>0, <2>2, <3>1, <3>2, <3>3, AppendFacts, FamiliesGrow DEF OwnTokens
  <2> QED BY <1>1, <1>2, <1>4, <2>1, <2>2, ServeSteps DEF Serve, OwnTokens
<1>5. ASSUME NEW t \in Issued, Expire(t) \/ sweep(t) PROVE Kept /\ Families'
  BY <1>0, <1>5, MarkFacts, FamiliesKept DEF Expire, sweep, OwnTokens
<1>6. ASSUME NEW clients, revokeSessions(clients) PROVE Kept /\ Families'
  BY <1>2, <1>6 DEF revokeSessions, RevokeSessions
<1>7. CASE FinishDeactivation
  BY <1>2, <1>7 DEF FinishDeactivation, RevokeSessions
<1>8. ASSUME NEW r, logout(r) PROVE Kept /\ Families'
  BY <1>1, <1>2, <1>8 DEF logout
<1> QED BY <1>1, <1>3, <1>4, <1>5, <1>6, <1>7, <1>8
        DEF Next, vars, checkLogin, CutDeactivation, Refresh, SignOutTab, startImpersonation, stopImpersonation, Settle, Receive, Rejected, Drop,
            LoseAnswer, deactivate, reactivate

Store == [held : OrNone, stash : OrNone, impersonating : BOOLEAN]

(* What s, the auth store of a tab, holds are tokens of the browser. *)
Holds(rows, s) == s \in Store /\ Held(rows, s.held, "browser") /\ Held(rows, s.stash, "browser")

(* What clients keep, they keep of their own. *)
LEMMA StepStores ==
  ASSUME OwnTokens, [Next]_vars
  PROVE  /\ stored' \in [Client -> OrNone] /\ Stores'
         /\ tab' \in [Tab -> Store]
<1>0. /\ token \in Seq(TokenRow) /\ stored \in [Client -> OrNone] /\ tab \in [Tab -> Store] /\ None \in OrNone
      /\ Holds(token', SignedOut)
  BY DEF OwnTokens, Typed, SignedOut, OrNone, Holds, Store, Held
<1>1. Kept
  BY StepTokens
<1>2. /\ \A c \in Client : Held(token', stored[c], c)
      /\ \A r \in Tab : Holds(token', tab[r])
      /\ Held(token', None, "browser") /\ Held(token', None, "phone")
  <2>1. \A c \in Client : Held(token', stored[c], c)
    BY <1>1, HeldKept DEF OwnTokens, Stores
  <2>2. \A r \in Tab : Held(token', tab[r].held, "browser") /\ Held(token', tab[r].stash, "browser")
    BY <1>1, HeldKept DEF OwnTokens, Stores
  <2>3. \A r \in Tab : tab[r] \in Store
    BY <1>0
  <2> QED BY <2>1, <2>2, <2>3 DEF Holds, Held
<1>3. ASSUME stored' \in [Client -> OrNone], \A c \in Client : Held(token', stored'[c], c),
             tab' \in [Tab -> Store], \A r \in Tab : Holds(token', tab'[r])
      PROVE  stored' \in [Client -> OrNone] /\ Stores' /\ tab' \in [Tab -> Store]
  BY <1>3 DEF Stores, Holds
<1>4. CASE UNCHANGED <<stored, tab>>
  BY <1>0, <1>2, <1>3, <1>4
<1>5. ASSUME NEW t \in OrNone, NEW c \in Client, stored' = [stored EXCEPT ![c] = t], Held(token', t, c)
      PROVE  stored' \in [Client -> OrNone] /\ \A d \in Client : Held(token', stored'[d], d)
  BY <1>0, <1>2, <1>5
<1>6. ASSUME NEW r \in Tab, NEW s, tab' = [tab EXCEPT ![r] = s], Holds(token', s)
      PROVE  tab' \in [Tab -> Store] /\ \A v \in Tab : Holds(token', tab'[v])
  BY <1>0, <1>2, <1>6 DEF Holds
<1>7. ASSUME NEW r \in Refresher, tab' = Cleared(r)
      PROVE  tab' \in [Tab -> Store] /\ \A v \in Tab : Holds(token', tab'[v])
  <2>1. CASE r = "phone"
    BY <1>0, <1>2, <1>7, <2>1 DEF Cleared
  <2>2. CASE r \in Tab
    BY <1>0, <1>6, <1>7, <2>2, Names DEF Cleared
  <2> QED BY <2>1, <2>2, Names
<1>8. tab' = tab => tab' \in [Tab -> Store] /\ \A v \in Tab : Holds(token', tab'[v])
  BY <1>0, <1>2
<1>9. ASSUME NEW l \in signIn, login(l) PROVE stored' \in [Client -> OrNone] /\ Stores' /\ tab' \in [Tab -> Store]
  <2> DEFINE n == Len(token) + 1
             c == l.client
  <2>1. n \in Nat /\ token' = Append(token, Row(n, c, l.late)) /\ c \in Client /\ l.late \in BOOLEAN
    BY <1>0, <1>9, IssuedIs DEF login, OwnTokens, Typed, SignIn
  <2>2. n \in OrNone /\ Held(token', n, c)
    BY <1>0, <2>1, AppendFacts DEF Held, OrNone, Issued
  <2>3. stored' = [stored EXCEPT ![c] = n]
    BY <1>9 DEF login
  <2>4. tab' \in [Tab -> Store] /\ \A r \in Tab : Holds(token', tab'[r])
    <3>1. CASE c = "phone"
      BY <1>8, <1>9, <3>1 DEF login
    <3>2. CASE c = "browser"
      <4> DEFINE s == [SignedOut EXCEPT !.held = n]
      <4>1. Holds(token', s)
        BY <1>0, <2>2, <3>2 DEF SignedOut, Holds, Store, Held
      <4>2. \A r \in Tab : tab'[r] = tab[r] \/ tab'[r] = s
        BY <1>9, <3>2 DEF login
      <4>3. DOMAIN tab' = Tab /\ tab' = [r \in Tab |-> tab'[r]]
        BY <1>9, <3>2 DEF login
      <4> HIDE DEF s
      <4>4. \A r \in Tab : Holds(token', tab'[r])
        BY <1>2, <4>1, <4>2
      <4> QED BY <4>3, <4>4 DEF Holds
    <3> QED BY <2>1, <3>1, <3>2, Names
  <2> HIDE DEF n, c
  <2>5. stored' \in [Client -> OrNone] /\ \A d \in Client : Held(token', stored'[d], d)
    BY <1>5, <2>1, <2>2, <2>3
  <2> QED BY <1>3, <2>4, <2>5
<1>10. ASSUME NEW r \in Refresher, logout(r) PROVE stored' \in [Client -> OrNone] /\ Stores' /\ tab' \in [Tab -> Store]
  <2>1. stored' = [stored EXCEPT ![ClientOf(r)] = None] /\ tab' = Cleared(r)
    BY <1>10 DEF logout
  <2>2. stored' \in [Client -> OrNone] /\ \A d \in Client : Held(token', stored'[d], d)
    BY <1>0, <1>5, <2>1, Names DEF Held
  <2> QED BY <1>3, <1>7, <2>1, <2>2
<1>11. ASSUME NEW q \in request, Receive(q) \/ Rejected(q) \/ LoseAnswer(q)
       PROVE  stored' \in [Client -> OrNone] /\ Stores' /\ tab' \in [Tab -> Store]
  <2>1. q.by \in Refresher /\ q.new \in OrNone /\ (q.at = "issued" => Held(token', q.new, ClientOf(q.by)))
    BY <1>1, HeldKept DEF OwnTokens, Typed, Requests, RefreshRequest
  <2>2. tab' = tab \/ tab' = Cleared(q.by)
    BY <1>11 DEF Receive, Rejected, LoseAnswer
  <2>3. \/ stored' = [stored EXCEPT ![ClientOf(q.by)] = q.new] /\ q.at = "issued"
        \/ stored' = [stored EXCEPT ![ClientOf(q.by)] = None]
        \/ stored' = stored
        \/ stored' = [stored EXCEPT !["browser"] = None]
    BY <1>11 DEF Receive, Rejected, LoseAnswer
  <2>4. stored' \in [Client -> OrNone] /\ \A d \in Client : Held(token', stored'[d], d)
    BY <1>0, <1>2, <1>5, <2>1, <2>3, Names DEF Held
  <2>5. tab' \in [Tab -> Store] /\ \A v \in Tab : Holds(token', tab'[v])
    BY <1>7, <1>8, <2>1, <2>2
  <2> QED BY <1>3, <2>4, <2>5
<1>12. ASSUME NEW r \in Tab, SignOutTab(r) PROVE stored' \in [Client -> OrNone] /\ Stores' /\ tab' \in [Tab -> Store]
  BY <1>0, <1>2, <1>3, <1>6, <1>12 DEF SignOutTab
<1>13. ASSUME NEW r \in Tab, startImpersonation(r)
       PROVE  stored' \in [Client -> OrNone] /\ Stores' /\ tab' \in [Tab -> Store]
  <2> DEFINE s == [held |-> None, stash |-> tab[r].held, impersonating |-> TRUE]
  <2>1. tab' = [tab EXCEPT ![r] = s] /\ stored' = [stored EXCEPT !["browser"] = None]
    BY <1>0, <1>13 DEF startImpersonation
  <2>2. Holds(token', s)
    BY <1>0, <1>2 DEF Holds, Store
  <2> HIDE DEF s
  <2>3. stored' \in [Client -> OrNone] /\ \A d \in Client : Held(token', stored'[d], d)
    BY <1>0, <1>2, <1>5, <2>1, Names
  <2> QED BY <1>3, <1>6, <2>1, <2>2, <2>3
<1>14. ASSUME NEW r \in Tab, stopImpersonation(r)
       PROVE  stored' \in [Client -> OrNone] /\ Stores' /\ tab' \in [Tab -> Store]
  <2> DEFINE s == [SignedOut EXCEPT !.held = tab[r].stash]
  <2>1. tab' = [tab EXCEPT ![r] = s] /\ stored' = [stored EXCEPT !["browser"] = tab[r].stash]
    BY <1>14 DEF stopImpersonation
  <2>2. Holds(token', s) /\ tab[r].stash \in OrNone /\ Held(token', tab[r].stash, "browser")
    BY <1>0, <1>2 DEF Holds, Store, SignedOut, Held
  <2> HIDE DEF s
  <2>3. stored' \in [Client -> OrNone] /\ \A d \in Client : Held(token', stored'[d], d)
    BY <1>5, <2>1, <2>2, Names
  <2> QED BY <1>3, <1>6, <2>1, <2>2, <2>3
<1>15. ASSUME NEW q \in request, Serve(q) \/ FailStatement(q) \/ Drop(q)
       PROVE  stored' \in [Client -> OrNone] /\ Stores' /\ tab' \in [Tab -> Store]
  BY <1>4, <1>15 DEF Serve, Lookup, RevokeFamily, RevokeOld, Issue, FailStatement, Drop
<1>16. ASSUME NEW clients, revokeSessions(clients)
       PROVE  stored' \in [Client -> OrNone] /\ Stores' /\ tab' \in [Tab -> Store]
  BY <1>4, <1>16 DEF revokeSessions
<1>17. ASSUME NEW t \in Issued, Expire(t) \/ sweep(t)
       PROVE  stored' \in [Client -> OrNone] /\ Stores' /\ tab' \in [Tab -> Store]
  BY <1>4, <1>17 DEF Expire, sweep
<1>18. CASE (\E c \in Client : checkLogin(c)) \/ deactivate \/ CutDeactivation \/ FinishDeactivation \/ reactivate \/ UNCHANGED vars
  BY <1>4, <1>18 DEF checkLogin, deactivate, CutDeactivation, FinishDeactivation, reactivate, vars
<1>19. ASSUME NEW r \in Refresher, Refresh(r)
       PROVE  stored' \in [Client -> OrNone] /\ Stores' /\ tab' \in [Tab -> Store]
  BY <1>4, <1>19 DEF Refresh
<1>20. used.of.who \subseteq Refresher
  BY Taking DEF OwnTokens
<1> QED BY <1>9, <1>10, <1>11, <1>12, <1>13, <1>14, <1>15, <1>16, <1>17, <1>18, <1>19, <1>20 DEF Next, Settle

(* A request presents, and brings, a token of its client. *)
LEMMA StepRequests ==
  ASSUME OwnTokens, [Next]_vars
  PROVE  request' \subseteq RefreshRequest /\ Requests' /\ \A q \in request' : q.token \in Issued'
<1> DEFINE Good(r) == /\ r \in RefreshRequest /\ r.token \in Issued' /\ Held(token', r.token, ClientOf(r.by))
                      /\ r.at = "issued" => r.new # None /\ Held(token', r.new, ClientOf(r.by))
           Goal == request' \subseteq RefreshRequest /\ Requests' /\ \A q \in request' : q.token \in Issued'
<1>0. Typed /\ token \in Seq(TokenRow) /\ Kept
  BY StepTokens DEF OwnTokens, Typed
<1>1. ASSUME NEW q \in request
      PROVE  /\ Good(q) /\ q.by \in Refresher /\ q.token \in Issued /\ token[q.token].client = ClientOf(q.by)
  BY <1>0, HeldKept, NotNone DEF OwnTokens, Typed, Requests, RefreshRequest, Kept, Held
<1>2. (\A r \in request' : Good(r)) => Goal
  BY DEF Requests
<1> HIDE DEF Goal
<1>3. ASSUME request' \subseteq request PROVE Goal
  <2> HIDE DEF Good
  <2> QED BY <1>1, <1>2, <1>3
<1>4. ASSUME NEW q \in request, NEW r, Replaces(q, r), Good(r) PROVE Goal
  BY <1>1, <1>2, <1>4 DEF Replaces
<1>5. ASSUME NEW q \in request, NEW r \in RefreshRequest, Replaces(q, r), r.at # "issued" PROVE Good(r)
  BY <1>1, <1>5 DEF Replaces
<1>6. ASSUME NEW q \in request, Lookup(q) PROVE Goal
  <2>1. PICK r \in RefreshRequest : Replaces(q, r) /\ r.at # "issued"
    BY <1>0, <1>6, LookupSteps
  <2> HIDE DEF Good
  <2> QED BY <1>4, <1>5, <2>1
<1>7. ASSUME NEW q \in request, RevokeFamily(q) \/ RevokeOld(q) \/ Issue(q) \/ FailStatement(q) PROVE Goal
  <2>1. PICK r \in RefreshRequest :
          /\ Replaces(q, r)
          /\ \/ r.at # "issued"
             \/ /\ r.new = Len(token) + 1
                /\ token' = Append(token, Row(token[q.token].family, ClientOf(q.by), q.late))
    BY <1>0, <1>7, ServeSteps
  <2>2. CASE r.at # "issued"
    <3> HIDE DEF Good
    <3> QED BY <1>4, <1>5, <2>1, <2>2
  <2>3. CASE r.new = Len(token) + 1 /\ token' = Append(token, Row(token[q.token].family, ClientOf(q.by), q.late))
    <3>1. q \in RefreshRequest /\ q.token \in Issued /\ token[q.token] \in TokenRow /\ Len(token) \in Nat
      BY <1>0, IssuedIs DEF Typed
    <3>2. token[q.token].family \in Nat /\ q.late \in BOOLEAN /\ ClientOf(q.by) \in Client
      BY <3>1, Names DEF TokenRow, RefreshRequest
    <3>3. Held(token', r.new, ClientOf(q.by)) /\ r.new # None
      BY <1>0, <2>3, <3>1, <3>2, AppendFacts, TabAssumption DEF Held, Issued
    <3>4. Good(r)
      BY <1>1, <2>1, <3>3 DEF Replaces
    <3> HIDE DEF Good
    <3> QED BY <1>4, <2>1, <3>4
  <2> QED BY <2>1, <2>2, <2>3
<1>8. ASSUME NEW q \in request, LoseAnswer(q) PROVE Goal
  <2>1. PICK r \in RefreshRequest : Replaces(q, r) /\ r.at = q.at /\ r.new = q.new
    BY <1>0, <1>8, LoseAnswerSteps
  <2>2. Good(r)
    BY <1>1, <2>1 DEF Replaces
  <2> HIDE DEF Good
  <2> QED BY <1>4, <2>1, <2>2
<1>9. ASSUME NEW r \in Refresher, Refresh(r) PROVE Goal
  <2>1. \A c \in Client : stored[c] # None => stored[c] \in Issued /\ token[stored[c]].client = c
    BY DEF OwnTokens, Stores, Held, Issued
  <2>2. ClientOf(r) \in Client
    BY Names
  <2>3. /\ request' = request \cup {Fresh(r)} /\ Fresh(r) \in RefreshRequest
        /\ stored[ClientOf(r)] \in Issued /\ token' = token
    BY <1>0, <1>9, <2>1, RefreshSteps
  <2>4. Fresh(r).token = stored[ClientOf(r)] /\ Fresh(r).by = r /\ Fresh(r).at = "sent"
    BY DEF Fresh
  <2>5. Held(token', Fresh(r).token, ClientOf(r)) /\ Fresh(r).token \in Issued'
    BY <1>0, <2>1, <2>2, <2>3, <2>4, NotNone DEF Held, Issued
  <2>6. Good(Fresh(r))
    BY <2>3, <2>4, <2>5
  <2> HIDE DEF Good
  <2> QED BY <1>1, <1>2, <2>3, <2>6
<1>10. ASSUME NEW clients, RevokeSessions(clients) PROVE Goal
  <2>0. \A r \in request' :
          /\ r \in RefreshRequest
          /\ \E q \in request :
               /\ r.by = q.by /\ r.token = q.token /\ r.at = q.at /\ r.new = q.new /\ r.waiting = q.waiting
               /\ q.late = TRUE => r.late = TRUE
               /\ q.at \in {"checked", "rotating"} /\ token[q.token].client \in clients => r.late = TRUE
    BY <1>0, <1>10, RevokeSessionsSteps
  <2>1. ASSUME NEW r \in request' PROVE Good(r)
    <3>1. PICK q \in request : r \in RefreshRequest /\ r.by = q.by /\ r.token = q.token /\ r.at = q.at /\ r.new = q.new
      BY <2>0
    <3> QED BY <1>1, <3>1
  <2> QED BY <1>2, <2>1
<1>11. ASSUME NEW q \in request, Settle(q) PROVE Goal
  BY <1>3, <1>11 DEF Settle, Receive, Rejected, Drop
<1>12. used.of.who \subseteq Refresher
  BY <1>0, Taking
<1>13. UNCHANGED request => Goal
  BY <1>3
<1>14. ASSUME NEW r, logout(r) PROVE Goal
  <2>1. \A p \in request' :
          p \in RefreshRequest /\ \E q \in request : p.by = q.by /\ p.token = q.token /\ p.at = q.at /\ p.new = q.new
    BY <1>0, <1>14, LogoutSteps
  <2>2. ASSUME NEW p \in request' PROVE Good(p)
    <3>1. PICK q \in request : p \in RefreshRequest /\ p.by = q.by /\ p.token = q.token /\ p.at = q.at /\ p.new = q.new
      BY <2>1
    <3> QED BY <1>1, <3>1
  <2> QED BY <1>2, <2>2
<1> HIDE DEF Good
<1> QED BY <1>6, <1>7, <1>8, <1>9, <1>10, <1>11, <1>12, <1>13, <1>14
        DEF Next, vars, checkLogin, login, SignOutTab, startImpersonation, stopImpersonation, Serve, revokeSessions,
            deactivate, CutDeactivation, FinishDeactivation, reactivate, Expire, sweep, Goal

LEMMA StepSignIns ==
  ASSUME OwnTokens, [Next]_vars
  PROVE  signIn' \subseteq SignIn
<1>0. Typed /\ signIn \subseteq SignIn
  BY DEF OwnTokens, Typed
<1>1. ASSUME NEW c \in Client, checkLogin(c) PROVE signIn' \subseteq SignIn
  <2>1. [client |-> c, late |-> FALSE] \in SignIn
    BY DEF SignIn
  <2> QED BY <1>0, <1>1, <2>1 DEF checkLogin
<1>2. ASSUME NEW l \in signIn, login(l) PROVE signIn' \subseteq SignIn
  BY <1>0, <1>2 DEF login
<1>3. ASSUME NEW clients, RevokeSessions(clients) PROVE signIn' \subseteq SignIn
  BY <1>0, <1>3, RevokeSessionsSteps
<1> QED BY <1>0, <1>1, <1>2, <1>3
        DEF Next, vars, logout, Refresh, SignOutTab, startImpersonation, stopImpersonation, Serve, Lookup, RevokeFamily,
            RevokeOld, Issue, Settle, Receive, Rejected, Drop, LoseAnswer, FailStatement, revokeSessions, deactivate,
            CutDeactivation, FinishDeactivation, reactivate, Expire, sweep

LEMMA StepOwn == OwnTokens /\ [Next]_vars => OwnTokens'
<1> SUFFICES ASSUME OwnTokens, [Next]_vars PROVE OwnTokens'
  OBVIOUS
<1>1. user' \in {"active", "deactivating", "inactive", "unfinished"}
  BY DEF OwnTokens, Typed, Next, vars, checkLogin, CutDeactivation, login, logout, Refresh, SignOutTab, startImpersonation, stopImpersonation, Serve,
         Lookup, RevokeFamily, RevokeOld, Issue, Settle, Receive, Rejected, Drop, LoseAnswer, FailStatement,
         revokeSessions, deactivate, FinishDeactivation, reactivate, Expire, sweep
<1>2. used' \in [of : Scenario, events : Nat, failures : Nat]
  <2>1. used' = used \/ Event \/ Failure
    BY DEF Next, vars, checkLogin, CutDeactivation, login, logout, Refresh, SignOutTab, startImpersonation, stopImpersonation, Serve,
           Lookup, RevokeFamily, RevokeOld, Issue, Settle, Receive, Rejected, Drop, LoseAnswer, FailStatement,
           revokeSessions, deactivate, FinishDeactivation, reactivate, Expire, sweep
  <2> QED BY <2>1 DEF Event, Failure, OwnTokens, Typed
<1>3. token' \in Seq(TokenRow)
  BY StepTokens DEF Kept
<1> QED BY <1>1, <1>2, <1>3, StepTokens, StepStores, StepRequests, StepSignIns DEF OwnTokens, Typed, Store

-----------------------------------------------------------------------------
(* A deactivated account keeps no session *)

(* Beside the tokens, the requests past their checks when sessions were revoked, logins too: what they
   issue is late. *)
LateInv ==
  user = "inactive" =>
    /\ \A t \in Issued : Live(t) => token[t].late = TRUE
    /\ \A q \in request : q.at \in {"checked", "rotating"} => q.late = TRUE
    /\ \A l \in signIn : l.late = TRUE

LEMMA InitLate == Init => LateInv
BY DEF Init, LateInv

LEMMA StepLate == OwnTokens /\ LateInv /\ [Next]_vars => LateInv'
<1> SUFFICES ASSUME OwnTokens, LateInv, [Next]_vars, user' = "inactive" PROVE LateInv'
  BY DEF LateInv
<1>0. Typed /\ token \in Seq(TokenRow) /\ Kept
  BY StepTokens DEF OwnTokens, Typed
<1>1. CASE FinishDeactivation
  <2>1. RevokeSessions(Client)
    BY <1>1 DEF FinishDeactivation
  <2>2. \A t \in Issued : token[t].client \in Client
    BY <1>0, IssuedIs DEF TokenRow
  <2>3. Issued' = Issued /\ \A t \in Issued : ~Live(t)'
    <3> DEFINE these == {t \in Issued : token[t].client \in Client}
    <3>1. token' = Revoke(these)
      BY <1>0, <2>1, RevokeSessionsSteps
    <3>2. \A t \in Issued : t \in these
      BY <2>2
    <3> HIDE DEF these
    <3> QED BY <1>0, <3>1, <3>2, RevokeFacts
  <2>4. \A q \in request : q.token \in Issued
    BY <1>0 DEF Typed
  <2>5. \A r \in request' : \E q \in request :
          r.at = q.at /\ (q.at \in {"checked", "rotating"} /\ token[q.token].client \in Client => r.late = TRUE)
    BY <1>0, <2>1, RevokeSessionsSteps
  <2>6. \A k \in signIn : k.client \in Client
    BY <1>0 DEF Typed, SignIn
  <2>7. \A l \in signIn' : \E k \in signIn : k.client \in Client => l.late = TRUE
    BY <1>0, <2>1, RevokeSessionsSteps
  <2>8. \A l \in signIn' : l.late = TRUE
    BY <2>6, <2>7
  <2> QED BY <2>2, <2>3, <2>4, <2>5, <2>8 DEF LateInv
<1>2. user = "inactive" \/ FinishDeactivation
  BY DEF Next, vars, checkLogin, CutDeactivation, login, logout, Refresh, SignOutTab, startImpersonation, stopImpersonation, Serve,
         Lookup, RevokeFamily, RevokeOld, Issue, Settle, Receive, Rejected, Drop, LoseAnswer, FailStatement,
         revokeSessions, deactivate, reactivate, Expire, sweep
<1> SUFFICES ASSUME user = "inactive" PROVE LateInv'
  BY <1>1, <1>2
<1>3. /\ \A t \in Issued : Live(t)' => token'[t].late = TRUE
      /\ \A q \in request : q.at \in {"checked", "rotating"} => q.late = TRUE
      /\ \A l \in signIn : l.late = TRUE
  BY <1>0 DEF LateInv, Kept
<1>4. ASSUME Issued' = Issued, UNCHANGED signIn,
             \A r \in request' \ request : r.at \in {"checked", "rotating"} => r.late = TRUE
      PROVE  LateInv'
  BY <1>3, <1>4 DEF LateInv
<1>5. ASSUME UNCHANGED <<token, signIn>>, request' \subseteq request PROVE LateInv'
  BY <1>0, <1>4, <1>5, TokensUnchanged
<1>6. ASSUME NEW q \in request, Lookup(q) PROVE LateInv'
  <2>1. Issued' = Issued
    BY <1>0, <1>6, LookupSteps, RevokeFacts, TokensUnchanged
  <2>2. PICK r \in RefreshRequest : Replaces(q, r) /\ r.at \in {"rejected", "replayed"}
    BY <1>0, <1>6, LookupSteps
  <2>3. UNCHANGED signIn
    BY <1>6 DEF Lookup
  <2> QED BY <1>4, <2>1, <2>2, <2>3 DEF Replaces
<1>7. ASSUME NEW q \in request, RevokeFamily(q) \/ RevokeOld(q) \/ Issue(q) \/ FailStatement(q) PROVE LateInv'
  <2>1. PICK r \in RefreshRequest :
          /\ Replaces(q, r) /\ r.late = q.late
          /\ \/ r.at = "rejected" /\ (UNCHANGED token \/ \E S : token' = Revoke(S))
             \/ q.at = "checked" /\ r.at = "rotating" /\ \E S : token' = Revoke(S)
             \/ /\ q.at = "rotating" /\ r.at = "issued"
                /\ token' = Append(token, Row(token[q.token].family, ClientOf(q.by), q.late))
    BY <1>0, <1>7, ServeSteps
  <2>0. UNCHANGED signIn
    BY <1>0, <1>7, ServeSteps
  <2>2. CASE /\ UNCHANGED token \/ \E S : token' = Revoke(S)
             /\ r.at = "rejected" \/ (q.at = "checked" /\ r.at = "rotating")
    <3>1. Issued' = Issued
      BY <1>0, <2>2, RevokeFacts, TokensUnchanged
    <3> QED BY <1>3, <1>4, <2>0, <2>1, <2>2, <3>1 DEF Replaces
  <2>3. CASE /\ q.at = "rotating" /\ r.at = "issued"
             /\ token' = Append(token, Row(token[q.token].family, ClientOf(q.by), q.late))
    <3>1. q \in RefreshRequest /\ q.token \in Issued /\ token[q.token] \in TokenRow
      BY <1>0, IssuedIs DEF Typed
    <3>2. token[q.token].family \in Nat /\ q.late \in BOOLEAN /\ ClientOf(q.by) \in Client
      BY <3>1, Names DEF TokenRow, RefreshRequest
    <3>3. Issued' = Issued \cup {Len(token) + 1} /\ token'[Len(token) + 1].late = q.late
      BY <1>0, <2>3, <3>2, AppendFacts
    <3>4. q.late = TRUE
      BY <1>3, <2>3
    <3>5. \A t \in Issued' : Live(t)' => token'[t].late = TRUE
      BY <1>3, <3>3, <3>4
    <3>6. \A p \in request' : p.at \in {"checked", "rotating"} => p.late = TRUE
      BY <1>3, <2>1, <2>3 DEF Replaces
    <3> QED BY <1>3, <2>0, <3>5, <3>6 DEF LateInv
  <2> QED BY <2>1, <2>2, <2>3
<1>8. ASSUME NEW q \in request, LoseAnswer(q) PROVE LateInv'
  <2>1. Issued' = Issued
    BY <1>0, <1>8, LoseAnswerSteps, TokensUnchanged
  <2>2. PICK r \in RefreshRequest : Replaces(q, r) /\ r.at = q.at /\ r.late = q.late
    BY <1>0, <1>8, LoseAnswerSteps
  <2>3. UNCHANGED signIn
    BY <1>8 DEF LoseAnswer
  <2> QED BY <1>3, <1>4, <2>1, <2>2, <2>3 DEF Replaces
<1>9. ASSUME NEW clients, RevokeSessions(clients) PROVE LateInv'
  <2>1. Issued' = Issued
    BY <1>0, <1>9, RevokeSessionsSteps, RevokeFacts
  <2>2. \A r \in request' : \E q \in request : r.at = q.at /\ (q.late = TRUE => r.late = TRUE)
    BY <1>0, <1>9, RevokeSessionsSteps
  <2>3. \A l \in signIn' : \E k \in signIn : k.late = TRUE => l.late = TRUE
    BY <1>0, <1>9, RevokeSessionsSteps
  <2> QED BY <1>3, <2>1, <2>2, <2>3 DEF LateInv
<1>10. ASSUME NEW r, Refresh(r) PROVE LateInv'
  <2>1. Issued' = Issued
    BY <1>0, <1>10, TokensUnchanged DEF Refresh
  <2>2. (\A q \in request' \ request : q.at = "sent") /\ UNCHANGED signIn
    BY <1>10 DEF Refresh
  <2> QED BY <1>4, <2>1, <2>2
<1>11. ASSUME NEW t \in Issued, Expire(t) \/ sweep(t) PROVE LateInv'
  <2>1. Issued' = Issued
    BY <1>0, <1>11, MarkFacts DEF Expire, sweep
  <2> QED BY <1>4, <1>11, <2>1 DEF Expire, sweep
<1>12. ASSUME NEW r, logout(r) PROVE LateInv'
  <2>1. Issued' = Issued
    BY <1>0, <1>12, TokensUnchanged, RevokeFacts DEF logout
  <2>2. UNCHANGED signIn /\ \A p \in request' : \E q \in request : p.at = q.at /\ p.late = q.late
    BY <1>0, <1>12, LogoutSteps
  <2> QED BY <1>3, <2>1, <2>2 DEF LateInv
<1>13. ASSUME NEW q \in request, Settle(q) PROVE LateInv'
  BY <1>5, <1>13 DEF Settle, Receive, Rejected, Drop
<1>14. ASSUME NEW l \in signIn, login(l) PROVE LateInv'
  <2>1. Len(token) + 1 \in Nat /\ token' = Append(token, Row(Len(token) + 1, l.client, l.late)) /\ l.late = TRUE
        /\ signIn' \subseteq signIn /\ UNCHANGED request
    BY <1>0, <1>3, <1>14, IssuedIs DEF login
  <2>2. l.client \in Client /\ l.late \in BOOLEAN
    BY <1>0 DEF Typed, SignIn
  <2>3. Issued' = Issued \cup {Len(token) + 1} /\ token'[Len(token) + 1].late = TRUE
    BY <1>0, <2>1, <2>2, AppendFacts
  <2> QED BY <1>3, <2>1, <2>3 DEF LateInv
<1>15. \A c : ~checkLogin(c)
  BY DEF checkLogin
<1> QED BY <1>1, <1>5, <1>6, <1>7, <1>8, <1>9, <1>10, <1>11, <1>12, <1>13, <1>14, <1>15
        DEF Next, vars, CutDeactivation, SignOutTab, startImpersonation, stopImpersonation, Serve, revokeSessions, deactivate, reactivate

(* When the deactivation of an account is over no token of it stays alive, on the phone or in the
   browser, but one issued by a login or a refresh that had passed its checks before: whatever was
   under way, and however often a deactivation was cut off before. *)
THEOREM DeactivationEnds == Spec => []DeactivationEndsSessions
<1>1. LateInv => DeactivationEndsSessions
  BY DEF LateInv, DeactivationEndsSessions
<1> QED BY <1>1, InitOwn, StepOwn, InitLate, StepLate, PTL DEF Spec


-----------------------------------------------------------------------------
(* The phone's session, when neither an administrator nor a failure disturbs it *)

(* The phone that waits for no refresh has a token it can use, or none. *)
PhoneTokenIsLive == ~Waiting("phone") /\ stored["phone"] # None => Live(stored["phone"])

(* Unless its client logged out meanwhile, a refresh of the phone presents a live token, and is not
   refused. *)
WellReceived(q) ==
  q.outlived = FALSE => q.at \notin {"rejected", "replayed"} /\ (q.at = "sent" => Live(q.token))

(* Every request is waited for, so the phone has one at most; the token it brings is live, and is
   not the one that a logout revokes. *)
PhoneInv ==
  Undisturbed =>
    /\ user = "active" /\ \A q \in request : q.waiting = TRUE
    /\ \A q, r \in request : q.by = "phone" /\ r.by = "phone" => q = r
    /\ \A q \in request : q.by = "phone" /\ q.at = "issued" => Live(q.new) /\ q.new # stored["phone"]
    /\ \A q \in request : q.by = "phone" => WellReceived(q)
    /\ PhoneTokenIsLive

(* Past its checks, a request of the phone has the only live token of its family; once it revoked
   it, there is none. *)
Alone(q) ==
  /\ q.at = "checked" => \A t \in Issued : token[t].family = token[q.token].family /\ Live(t) => t = q.token
  /\ q.at = "rotating" => \A t \in Issued : token[t].family = token[q.token].family => ~Live(t)

RotationInv ==
  Undisturbed => OneLiveToken /\ \A q \in request : q.by = "phone" => Alone(q)

SignedIn == OwnTokens /\ PhoneInv /\ RotationInv

(* A step of the browser. *)
PhoneUntouched ==
  /\ stored'["phone"] = stored["phone"]
  /\ \A q \in request' : q.waiting = TRUE
  /\ \A q : q.by = "phone" => (q \in request' <=> q \in request)
  /\ \A t \in Issued : token[t].client = "phone" => (Live(t)' <=> Live(t))
  /\ \A t \in Issued' \ Issued : token'[t].client = "browser"

LEMMA UndisturbedSteps ==
  ASSUME SignedIn, [Next]_vars, Undisturbed'
  PROVE  /\ Undisturbed /\ user = "active" /\ user' = "active"
         /\ \/ \E c \in Client : checkLogin(c)
            \/ \E l \in signIn : login(l)
            \/ \E r \in Refresher : logout(r) \/ Refresh(r)
            \/ \E r \in Tab : SignOutTab(r) \/ startImpersonation(r) \/ stopImpersonation(r)
            \/ \E q \in request : Serve(q) \/ Settle(q)
            \/ UNCHANGED vars
<1>1. used \in [of : Scenario, events : Nat, failures : Nat] /\ used.of.who \subseteq Refresher
  BY Taking DEF SignedIn, OwnTokens, Typed
<1>2. ~Event /\ ~Failure
  BY <1>1 DEF Event, Failure, Undisturbed
<1>3. \A q \in request : ~LoseAnswer(q) /\ ~FailStatement(q)
  BY <1>2 DEF LoseAnswer, FailStatement
<1>4. ~deactivate /\ ~CutDeactivation /\ (\A clients : ~revokeSessions(clients)) /\ \A t : ~Expire(t) /\ ~sweep(t)
  BY <1>2 DEF deactivate, CutDeactivation, revokeSessions, Expire, sweep
<1>5. \/ \E c \in Client : checkLogin(c)
      \/ \E l \in signIn : login(l)
      \/ \E r \in Refresher : logout(r) \/ Refresh(r)
      \/ \E r \in Tab : SignOutTab(r) \/ startImpersonation(r) \/ stopImpersonation(r)
      \/ \E q \in request : Serve(q) \/ Settle(q)
      \/ FinishDeactivation \/ reactivate
      \/ UNCHANGED vars
  BY <1>1, <1>3, <1>4 DEF Next
<1>6. used' = used
  BY <1>5 DEF vars, checkLogin, login, logout, Refresh, SignOutTab, startImpersonation, stopImpersonation, Serve,
         Lookup, RevokeFamily, RevokeOld, Issue, Settle, Receive, Rejected, Drop, FinishDeactivation, reactivate
<1>7. Undisturbed /\ user = "active"
  BY <1>6 DEF Undisturbed, SignedIn, PhoneInv
<1>8. ~FinishDeactivation /\ ~reactivate
  BY <1>7 DEF FinishDeactivation, reactivate
<1>9. user' = "active"
  BY <1>5, <1>7, <1>8 DEF vars, checkLogin, login, logout, Refresh, SignOutTab, startImpersonation, stopImpersonation, Serve,
         Lookup, RevokeFamily, RevokeOld, Issue, Settle, Receive, Rejected, Drop
<1> QED BY <1>5, <1>7, <1>8, <1>9

(* A phone's token, and the family of a phone's request, by the rows of tokens. *)
LEMMA OfThePhone ==
  ASSUME OwnTokens
  PROVE  /\ \A q \in request : /\ q.by \in Refresher /\ q.token \in Issued /\ q.token # None
                               /\ q.by = "phone" => token[q.token].client = "phone"
                               /\ q.by \in Tab => token[q.token].client = "browser"
                               /\ q.by = "phone" /\ q.at = "issued" =>
                                    q.new # None /\ q.new \in Issued /\ token[q.new].client = "phone"
         /\ stored["phone"] # None => stored["phone"] \in Issued /\ token[stored["phone"]].client = "phone"
         /\ \A t, u \in Issued : token[t].family = token[u].family => token[t].client = token[u].client
<1>1. Typed /\ token \in Seq(TokenRow)
  BY DEF OwnTokens, Typed
<1>2. ASSUME NEW q \in request
      PROVE  /\ q.by \in Refresher /\ q.token \in Issued /\ q.token # None
             /\ Held(token, q.token, ClientOf(q.by))
             /\ q.at = "issued" => q.new # None /\ Held(token, q.new, ClientOf(q.by))
  BY <1>1, NotNone DEF OwnTokens, Requests, Typed, RefreshRequest
<1>3. Held(token, stored["phone"], "phone")
  BY Names DEF OwnTokens, Stores
<1> QED BY <1>2, <1>3, Names DEF OwnTokens, Families, Held, Issued

LEMMA BrowserStep ==
  ASSUME SignedIn, Kept, Families', Undisturbed, user' = "active", PhoneUntouched
  PROVE  PhoneInv' /\ RotationInv'
<1>0. /\ \A t \in Issued : token'[t].family = token[t].family /\ token'[t].client = token[t].client
      /\ Issued \subseteq Issued' /\ token \in Seq(TokenRow)
  BY DEF Kept, SignedIn, OwnTokens, Typed
<1>1. \A q : q.by = "phone" => (q \in request' <=> q \in request)
  BY DEF PhoneUntouched
<1>2. \A q, r \in request' : q.by = "phone" /\ r.by = "phone" => q = r
  BY <1>1 DEF SignedIn, PhoneInv
<1>3. ASSUME NEW q \in request', q.by = "phone", q.at = "issued"
      PROVE  Live(q.new)' /\ q.new # stored'["phone"]
  <2>1. q \in request /\ Live(q.new) /\ q.new # stored["phone"]
    BY <1>1, <1>3 DEF SignedIn, PhoneInv
  <2>2. q.new \in Issued /\ token[q.new].client = "phone"
    BY <1>3, <2>1, OfThePhone DEF SignedIn
  <2>3. \A n : n \in Issued /\ token[n].client = "phone" /\ Live(n) => Live(n)'
    BY DEF PhoneUntouched
  <2>4. Live(q.new)'
    BY <2>1, <2>2, <2>3
  <2> QED BY <2>1, <2>4 DEF PhoneUntouched
<1>10. ASSUME NEW q \in request', q.by = "phone" PROVE WellReceived(q)'
  <2>1. q \in request /\ WellReceived(q)
    BY <1>1, <1>10 DEF SignedIn, PhoneInv
  <2>2. q.token \in Issued /\ token[q.token].client = "phone"
    BY <1>10, <2>1, OfThePhone DEF SignedIn
  <2>3. Live(q.token) => Live(q.token)'
    BY <2>2 DEF PhoneUntouched
  <2> QED BY <2>1, <2>3 DEF WellReceived
<1>4. PhoneTokenIsLive'
  <2>1. SUFFICES ASSUME ~Waiting("phone")', stored'["phone"] # None PROVE Live(stored["phone"])'
    BY DEF PhoneTokenIsLive
  <2>2. stored["phone"] # None /\ stored'["phone"] = stored["phone"] /\ ~Waiting("phone")
    BY <1>1, <2>1 DEF PhoneUntouched, Waiting, SignedIn, PhoneInv
  <2>3. Live(stored["phone"]) /\ stored["phone"] \in Issued /\ token[stored["phone"]].client = "phone"
    BY <2>2, OfThePhone DEF SignedIn, PhoneInv, PhoneTokenIsLive
  <2>4. \A n : n \in Issued /\ token[n].client = "phone" /\ Live(n) => Live(n)'
    BY DEF PhoneUntouched
  <2>5. \A n : n = stored["phone"] => Live(n)'
    BY <2>3, <2>4
  <2> QED BY <2>2, <2>5
<1>5. PhoneInv'
  BY <1>2, <1>3, <1>4, <1>10 DEF PhoneInv, PhoneUntouched
<1>6. \A t \in Issued' : token'[t].client = "phone" =>
        t \in Issued /\ token[t].client = "phone" /\ (Live(t)' <=> Live(t))
  BY <1>0 DEF PhoneUntouched
<1>7. OneLiveToken'
  <2>1. ASSUME NEW t \in Issued', NEW u \in Issued',
               Live(t)', Live(u)', token'[t].client = "phone", token'[t].family = token'[u].family
        PROVE  t = u
    <3>1. t \in Issued /\ token[t].client = "phone" /\ Live(t)
      BY <1>6, <2>1
    <3>2. token'[u].client = "phone"
      BY <2>1 DEF Families
    <3>3. u \in Issued /\ Live(u)
      BY <1>6, <2>1, <3>2
    <3>4. token[t].family = token[u].family
      BY <1>0, <2>1, <3>1, <3>3
    <3> QED BY <3>1, <3>3, <3>4 DEF SignedIn, RotationInv, OneLiveToken
  <2> QED BY <2>1 DEF OneLiveToken
<1>8. ASSUME NEW q \in request', q.by = "phone", NEW t \in Issued', token'[t].family = token'[q.token].family
      PROVE  /\ q \in request /\ t \in Issued /\ token[t].family = token[q.token].family
             /\ Live(t)' <=> Live(t)
  <2>1. q \in request /\ q.token \in Issued /\ token[q.token].client = "phone"
    BY <1>1, <1>8, OfThePhone DEF SignedIn
  <2>2. q.token \in Issued' /\ token'[q.token].client = "phone"
    BY <1>0, <2>1
  <2>3. token'[t].client = "phone"
    BY <1>8, <2>2 DEF Families
  <2>4. t \in Issued /\ (Live(t)' <=> Live(t))
    BY <1>6, <2>3
  <2> QED BY <1>0, <1>8, <2>1, <2>4
<1>9. ASSUME NEW q \in request', q.by = "phone"
      PROVE  Alone(q)'
  BY <1>8, <1>9 DEF SignedIn, RotationInv, Alone
<1> QED BY <1>5, <1>7, <1>9 DEF RotationInv


(* The steps that leave the phone's session as it is. *)
LEMMA LeavesThePhone ==
  ASSUME SignedIn, Undisturbed, user = "active", Typed,
         \/ \E c \in Client : checkLogin(c)
         \/ \E l \in signIn : l.client = "browser" /\ login(l)
         \/ \E r \in Tab : logout(r) \/ Refresh(r) \/ SignOutTab(r) \/ startImpersonation(r) \/ stopImpersonation(r)
         \/ \E q \in request : q.by \in Tab /\ (Serve(q) \/ Settle(q))
         \/ UNCHANGED vars
  PROVE  PhoneUntouched
<1>0. /\ token \in Seq(TokenRow) /\ stored \in [Client -> OrNone] /\ "browser" \in Client
      /\ \A q \in request : q.waiting = TRUE
  BY Names DEF Typed, SignedIn, PhoneInv
<1>1. ASSUME request' = request \/ \E q \in request : q.by \in Tab /\ request' = request \ {q}
      PROVE  (\A q \in request' : q.waiting = TRUE) /\ \A q : q.by = "phone" => (q \in request' <=> q \in request)
  BY <1>0, <1>1, Names
<1>2. ASSUME UNCHANGED token
      PROVE  /\ \A t \in Issued : token[t].client = "phone" => (Live(t)' <=> Live(t))
             /\ \A t \in Issued' \ Issued : token'[t].client = "browser"
  BY <1>0, <1>2, TokensUnchanged
<1>3. ASSUME NEW S, token' = Revoke(S), \A t \in S : t \in Issued => token[t].client = "browser"
      PROVE  /\ \A t \in Issued : token[t].client = "phone" => (Live(t)' <=> Live(t))
             /\ \A t \in Issued' \ Issued : token'[t].client = "browser"
  BY <1>0, <1>3, RevokeFacts
<1>4. ASSUME NEW family \in Nat, NEW late \in BOOLEAN, token' = Append(token, Row(family, "browser", late))
      PROVE  /\ \A t \in Issued : token[t].client = "phone" => (Live(t)' <=> Live(t))
             /\ \A t \in Issued' \ Issued : token'[t].client = "browser"
  BY <1>0, <1>4, AppendFacts
<1>5. ASSUME NEW t, stored' = stored \/ stored' = [stored EXCEPT !["browser"] = t]
      PROVE  stored'["phone"] = stored["phone"]
  BY <1>0, <1>5, Names
<1>6. ASSUME NEW q \in request, q.by \in Tab, NEW r, Replaces(q, r), r.waiting = TRUE
      PROVE  (\A p \in request' : p.waiting = TRUE) /\ \A p : p.by = "phone" => (p \in request' <=> p \in request)
  BY <1>0, <1>6, Names DEF Replaces
<1>7. ASSUME NEW l \in signIn, l.client = "browser", login(l) PROVE PhoneUntouched
  <2>1. Len(token) + 1 \in Nat /\ l.late \in BOOLEAN
    BY <1>0, IssuedIs DEF Typed, SignIn
  <2> QED BY <1>1, <1>4, <1>5, <1>7, <2>1 DEF login, PhoneUntouched
<1>8. ASSUME NEW r \in Tab, logout(r) PROVE PhoneUntouched
  <2>1. UNCHANGED token /\ stored' = [stored EXCEPT !["browser"] = None]
    BY <1>8, Names DEF logout
  <2>2. /\ \A p \in request' :
             /\ p \in RefreshRequest
             /\ \E q \in request :
                  /\ p.by = q.by /\ p.token = q.token /\ p.at = q.at /\ p.new = q.new
                  /\ p.waiting = q.waiting /\ p.late = q.late
                  /\ IF q.by = r THEN p.outlived = TRUE ELSE p = q
        /\ \A q \in request : q.by # r => q \in request'
    BY <1>8, LogoutSteps
  <2>3. (\A p \in request' : p.waiting = TRUE) /\ \A p : p.by = "phone" => (p \in request' <=> p \in request)
    BY <1>0, <2>2, Names
  <2> QED BY <1>2, <1>5, <2>1, <2>3 DEF PhoneUntouched
<1>9. ASSUME NEW r \in Tab, Refresh(r) PROVE PhoneUntouched
  <2>1. request' = request \cup {Fresh(r)} /\ UNCHANGED <<token, stored>>
    BY <1>9 DEF Refresh, Fresh
  <2>2. Fresh(r).by = r /\ r # "phone" /\ Fresh(r).waiting = TRUE
    BY Names DEF Fresh
  <2> QED BY <1>0, <1>2, <2>1, <2>2 DEF PhoneUntouched
<1>10. ASSUME NEW r \in Tab, SignOutTab(r) \/ startImpersonation(r) \/ stopImpersonation(r) PROVE PhoneUntouched
  BY <1>1, <1>2, <1>5, <1>10 DEF SignOutTab, startImpersonation, stopImpersonation, PhoneUntouched
<1>11. ASSUME NEW q \in request, q.by \in Tab, Settle(q) PROVE PhoneUntouched
  <2>1. ClientOf(q.by) = "browser" /\ request' = request \ {q} /\ UNCHANGED token
    BY <1>11, Names DEF Settle, Receive, Rejected, Drop
  <2>2. \E t : stored' = stored \/ stored' = [stored EXCEPT !["browser"] = t]
    BY <1>11, <2>1 DEF Settle, Receive, Rejected, Drop
  <2> QED BY <1>1, <1>2, <1>5, <1>11, <2>1, <2>2 DEF PhoneUntouched
<1>12. ASSUME NEW q \in request, q.by \in Tab, Lookup(q) PROVE PhoneUntouched
  <2>1. stored' = stored /\ UNCHANGED token /\ \E r \in RefreshRequest : Replaces(q, r) /\ r.waiting = q.waiting
    BY <1>12, LookupSteps
  <2> QED BY <1>0, <1>2, <1>6, <1>12, <2>1 DEF PhoneUntouched
<1>13. ASSUME NEW q \in request, q.by \in Tab, RevokeFamily(q) \/ RevokeOld(q) \/ Issue(q) PROVE PhoneUntouched
  <2>1. q \in RefreshRequest /\ q.token \in Issued /\ token[q.token] \in TokenRow /\ token[q.token].client = "browser"
    BY <1>0, <1>13, IssuedIs, OfThePhone DEF SignedIn, Typed
  <2>2. token[q.token].family \in Nat /\ q.late \in BOOLEAN /\ ClientOf(q.by) = "browser"
    BY <1>13, <2>1, Names DEF TokenRow, RefreshRequest
  <2>3. stored' = stored /\ \E r \in RefreshRequest : Replaces(q, r) /\ r.waiting = q.waiting
    BY <1>13, ServeSteps
  <2>4. \/ token' = Revoke({t \in Issued : token[t].family = token[q.token].family})
        \/ token' = Revoke({q.token})
        \/ token' = Append(token, Row(token[q.token].family, "browser", q.late))
    BY <1>13, <2>2 DEF RevokeFamily, RevokeOld, Issue
  <2>5. \A t \in {u \in Issued : token[u].family = token[q.token].family} : token[t].client = "browser"
    BY <2>1, OfThePhone DEF SignedIn
  <2>6. /\ \A t \in Issued : token[t].client = "phone" => (Live(t)' <=> Live(t))
        /\ \A t \in Issued' \ Issued : token'[t].client = "browser"
    <3>1. CASE token' = Revoke({t \in Issued : token[t].family = token[q.token].family})
      BY <1>3, <2>5, <3>1
    <3>2. CASE token' = Revoke({q.token})
      BY <1>3, <2>1, <3>2
    <3> QED BY <1>4, <2>2, <2>4, <3>1, <3>2
  <2> QED BY <1>0, <1>6, <1>13, <2>3, <2>6 DEF PhoneUntouched
<1>14. CASE UNCHANGED vars
  BY <1>1, <1>2, <1>5, <1>14 DEF vars, PhoneUntouched
<1>15. ASSUME NEW c \in Client, checkLogin(c) PROVE PhoneUntouched
  BY <1>1, <1>2, <1>5, <1>15 DEF checkLogin, PhoneUntouched
<1> QED BY <1>7, <1>8, <1>9, <1>10, <1>11, <1>12, <1>13, <1>14, <1>15 DEF Serve


(* Steps that issue nothing can but end sessions. *)
LEMMA NothingIssued ==
  ASSUME SignedIn, Kept, Undisturbed, Issued' = Issued,
         \A q \in request' : q.by = "phone" => q \in request \/ Alone(q)'
  PROVE  RotationInv'
<1>1. \A t \in Issued : /\ token'[t].family = token[t].family /\ token'[t].client = token[t].client
                        /\ Live(t)' => Live(t)
  BY DEF Kept
<1>2. OneLiveToken'
  BY <1>1 DEF SignedIn, RotationInv, OneLiveToken
<1>3. ASSUME NEW q \in request', q.by = "phone" PROVE Alone(q)'
  <2>1. CASE q \in request
    <3>1. q.token \in Issued /\ Alone(q)
      BY <1>3, <2>1, OfThePhone DEF SignedIn, RotationInv
    <3> QED BY <1>1, <3>1 DEF Alone
  <2> QED BY <1>3, <2>1
<1> QED BY <1>2, <1>3 DEF RotationInv

LEMMA PhoneLogin ==
  ASSUME SignedIn, Kept, Undisturbed, user' = "active", NEW l \in signIn, l.client = "phone", login(l)
  PROVE  PhoneInv' /\ RotationInv'
<1> DEFINE n == Len(token) + 1
<1>0. /\ token \in Seq(TokenRow) /\ n \in Nat /\ l.late \in BOOLEAN /\ stored \in [Client -> OrNone]
      /\ request' = request /\ token' = Append(token, Row(n, "phone", l.late)) /\ stored'["phone"] = n
  BY IssuedIs, Names DEF login, SignedIn, OwnTokens, Typed, SignIn
<1>1. /\ Issued' = Issued \cup {n} /\ n \notin Issued
      /\ \A t \in Issued : Live(t)' <=> Live(t)
      /\ \A t \in Issued : token'[t].family = token[t].family /\ token'[t].client = token[t].client
      /\ \A t : t = n => Live(t)'
      /\ token'[n].family = n
  BY <1>0, Names, AppendFacts DEF Kept
<1>2. \A t \in Issued : token'[t].family # n
  <2>1. \A t \in Issued : t \in 1..Len(token) /\ token[t].family \in 1..t
    BY <1>0, IssuedIs DEF SignedIn, OwnTokens, Families
  <2>2. \A t \in Issued : token[t].family # Len(token) + 1
    BY <1>0, <2>1, IssuedIs
  <2> QED BY <1>1, <2>2
<1> HIDE DEF n
<1>3. PhoneTokenIsLive'
  BY <1>0, <1>1 DEF PhoneTokenIsLive
<1>8. ASSUME NEW q \in request, q.by = "phone" PROVE WellReceived(q)'
  <2>1. q.token \in Issued /\ WellReceived(q)
    BY <1>8, OfThePhone DEF SignedIn, PhoneInv
  <2>2. Live(q.token) => Live(q.token)'
    BY <1>1, <2>1
  <2> QED BY <2>1, <2>2 DEF WellReceived
<1>4. ASSUME NEW q \in request, q.by = "phone", q.at = "issued"
      PROVE  Live(q.new)' /\ q.new # stored'["phone"]
  <2>1. q.new \in Issued /\ Live(q.new)
    BY <1>4, OfThePhone DEF SignedIn, PhoneInv
  <2>2. \A t : t \in Issued /\ Live(t) => Live(t)'
    BY <1>1
  <2>3. Live(q.new)'
    BY <2>1, <2>2
  <2> QED BY <1>0, <1>1, <2>1, <2>3
<1>5. PhoneInv'
  BY <1>0, <1>3, <1>4, <1>8 DEF PhoneInv, SignedIn
<1>6. OneLiveToken'
  <2>1. ASSUME NEW t \in Issued', NEW u \in Issued',
               Live(t)', Live(u)', token'[t].client = "phone", token'[t].family = token'[u].family
        PROVE  t = u
    <3>1. CASE t \in Issued /\ u \in Issued
      BY <1>1, <2>1, <3>1 DEF SignedIn, RotationInv, OneLiveToken
    <3> QED BY <1>1, <1>2, <2>1, <3>1
  <2> QED BY <2>1 DEF OneLiveToken
<1>7. ASSUME NEW q \in request, q.by = "phone" PROVE Alone(q)'
  <2>1. q.token \in Issued /\ Alone(q)
    BY <1>7, OfThePhone DEF SignedIn, RotationInv
  <2>2. \A t \in Issued' : token'[t].family = token'[q.token].family =>
          t \in Issued /\ token[t].family = token[q.token].family /\ (Live(t)' <=> Live(t))
    BY <1>1, <1>2, <2>1
  <2> QED BY <2>1, <2>2 DEF Alone
<1> QED BY <1>0, <1>5, <1>6, <1>7 DEF RotationInv

LEMMA PhoneLogout ==
  ASSUME SignedIn, Kept, Undisturbed, user' = "active", logout("phone")
  PROVE  PhoneInv' /\ RotationInv'
<1>1. /\ Typed /\ token \in Seq(TokenRow) /\ stored \in [Client -> OrNone] /\ stored'["phone"] = None
      /\ token' = token \/ token' = Revoke({stored["phone"]})
  BY Names DEF logout, SignedIn, OwnTokens, Typed
<1>2. /\ Issued' = Issued /\ \A t \in Issued : Live(t) /\ t # stored["phone"] => Live(t)'
      /\ \A t \in Issued : token'[t].family = token[t].family /\ (Live(t)' => Live(t))
  BY <1>1, RevokeFacts, TokensUnchanged DEF Kept
<1>6. \A p \in request' : \E q \in request :
        /\ p.by = q.by /\ p.token = q.token /\ p.at = q.at /\ p.new = q.new /\ p.waiting = q.waiting
        /\ IF q.by = "phone" THEN p.outlived = TRUE ELSE p = q
  BY <1>1, LogoutSteps
<1>7. \A p \in request' : p.waiting = TRUE
  BY <1>6 DEF SignedIn, PhoneInv
<1>4. ASSUME NEW p \in request', p.by = "phone"
      PROVE  /\ p.at = "issued" => Live(p.new)' /\ p.new # stored'["phone"]
             /\ WellReceived(p)' /\ Alone(p)'
  <2>1. PICK q \in request : /\ q.by = "phone" /\ p.token = q.token /\ p.at = q.at /\ p.new = q.new
                             /\ p.outlived = TRUE
    BY <1>4, <1>6
  <2>2. q.at = "issued" => q.new \in Issued /\ q.new # None /\ Live(q.new) /\ q.new # stored["phone"]
    BY <2>1, OfThePhone DEF SignedIn, PhoneInv
  <2>3. \A t : t \in Issued /\ Live(t) /\ t # stored["phone"] => Live(t)'
    BY <1>2
  <2>4. q.at = "issued" => Live(q.new)'
    BY <2>2, <2>3
  <2>5. p.at = "issued" => Live(p.new)' /\ p.new # stored'["phone"]
    BY <1>1, <2>1, <2>2, <2>4
  <2>6. q.token \in Issued /\ Alone(q)
    BY <2>1, OfThePhone DEF SignedIn, RotationInv
  <2>7. Alone(p)'
    BY <1>2, <2>1, <2>6 DEF Alone
  <2> QED BY <2>1, <2>5, <2>7 DEF WellReceived
<1>3. RotationInv'
  BY <1>2, <1>4, NothingIssued
<1>8. ASSUME NEW p \in request', NEW u \in request', p.by = "phone", u.by = "phone" PROVE p = u
  <2>1. \E q \in request : q.by = "phone" /\ p = [q EXCEPT !.outlived = TRUE]
    BY <1>8 DEF logout
  <2>2. \E q \in request : q.by = "phone" /\ u = [q EXCEPT !.outlived = TRUE]
    BY <1>8 DEF logout
  <2>3. \A q, r \in request : q.by = "phone" /\ r.by = "phone" => q = r
    BY DEF SignedIn, PhoneInv
  <2> QED BY <2>1, <2>2, <2>3
<1>5. PhoneInv'
  BY <1>1, <1>4, <1>7, <1>8 DEF PhoneInv, SignedIn, PhoneTokenIsLive
<1> QED BY <1>3, <1>5

LEMMA PhoneRefresh ==
  ASSUME SignedIn, Kept, Undisturbed, user' = "active", Refresh("phone")
  PROVE  PhoneInv' /\ RotationInv'
<1>0. token \in Seq(TokenRow) /\ \A q \in request : q.waiting = TRUE
  BY DEF SignedIn, OwnTokens, Typed, PhoneInv
<1>1. /\ request' = request \cup {Fresh("phone")} /\ UNCHANGED <<token, stored>>
      /\ \A q \in request : q.by # "phone"
  BY <1>0 DEF Refresh, Fresh, Waiting
<1>2. Fresh("phone").at = "sent" /\ Fresh("phone").by = "phone" /\ Fresh("phone").waiting = TRUE
  BY DEF Fresh
<1>3. PhoneTokenIsLive'
  BY <1>1, <1>2 DEF PhoneTokenIsLive, Waiting
<1>7. ASSUME NEW q \in request', q.by = "phone" PROVE WellReceived(q)'
  <2>1. stored["phone"] # None /\ ~Waiting("phone") /\ Fresh("phone").token = stored["phone"]
    BY Names DEF Refresh, Fresh
  <2>2. Live(stored["phone"])
    BY <2>1 DEF SignedIn, PhoneInv, PhoneTokenIsLive
  <2>3. q.at = "sent" /\ q.token = stored["phone"]
    BY <1>1, <1>2, <1>7, <2>1
  <2>4. Live(q.token)'
    BY <1>1, <2>2, <2>3 DEF Live
  <2> QED BY <2>3, <2>4 DEF WellReceived
<1>4. PhoneInv'
  BY <1>0, <1>1, <1>2, <1>3, <1>7 DEF PhoneInv
<1>5. \A q \in request' : q.by = "phone" => Alone(q)'
  <2>1. \A q \in request' : q.by = "phone" => q.at = "sent"
    BY <1>1, <1>2
  <2> QED BY <2>1 DEF Alone
<1>6. Issued' = Issued
  BY <1>0, <1>1, TokensUnchanged
<1> QED BY <1>4, <1>5, <1>6, NothingIssued


(* What becomes of the one request of the phone. *)
LEMMA PhoneRequest ==
  ASSUME SignedIn, Kept, Undisturbed, user' = "active", UNCHANGED stored,
         NEW q \in request, q.by = "phone", NEW r, Replaces(q, r), r.waiting = TRUE,
         r.at = "issued" => Live(r.new)' /\ r.new # stored["phone"],
         r.outlived = FALSE => r.at \notin {"sent", "rejected", "replayed"}
  PROVE  PhoneInv' /\ \A p \in request' : p.by = "phone" => p = r
<1>1. /\ \A p \in request : p.waiting = TRUE /\ (p.by = "phone" => p = q)
      /\ request' = (request \ {q}) \cup {r} /\ r.by = "phone"
  BY DEF SignedIn, PhoneInv, Replaces
<1>2. \A p \in request' : p.waiting = TRUE /\ (p.by = "phone" => p = r)
  BY <1>1
<1>3. PhoneTokenIsLive'
  BY <1>1, <1>2 DEF PhoneTokenIsLive, Waiting
<1>4. ASSUME NEW p \in request', p.by = "phone", p.at = "issued" PROVE Live(p.new)' /\ p.new # stored'["phone"]
  <2>1. p = r
    BY <1>2, <1>4
  <2> QED BY <1>4, <2>1
<1>5. ASSUME NEW p \in request', p.by = "phone" PROVE WellReceived(p)'
  BY <1>2, <1>5 DEF WellReceived
<1> QED BY <1>2, <1>3, <1>4, <1>5 DEF PhoneInv

LEMMA PhoneLookup ==
  ASSUME SignedIn, Kept, Undisturbed, user = "active", user' = "active", NEW q \in request, q.by = "phone", Lookup(q)
  PROVE  PhoneInv' /\ RotationInv'
<1>0. Typed /\ token \in Seq(TokenRow) /\ q.waiting = TRUE
  BY DEF SignedIn, OwnTokens, Typed, PhoneInv
<1>1. UNCHANGED <<stored, token>>
  BY <1>0, LookupSteps
<1>2. PICK r \in RefreshRequest :
        /\ Replaces(q, r) /\ r.waiting = TRUE
        /\ (r.at \in {"rejected", "replayed"} /\ ~Live(q.token)) \/ (r.at = "checked" /\ Live(q.token))
  BY <1>0, LookupSteps
<1>6. r.outlived = FALSE => Live(q.token)
  BY <1>0, <1>2, LookupSteps DEF Replaces, SignedIn, PhoneInv, WellReceived
<1>3. PhoneInv' /\ \A p \in request' : p.by = "phone" => p = r
  BY <1>1, <1>2, <1>6, PhoneRequest
<1>4. Issued' = Issued
  BY <1>0, <1>1, TokensUnchanged
<1>5. Alone(r)'
  <2>1. CASE r.at = "checked" /\ Live(q.token)
    <3>1. r.token = q.token /\ q.token \in Issued /\ token[q.token].client = "phone"
      BY <1>2, OfThePhone DEF SignedIn, Replaces
    <3>2. \A t \in Issued : token[t].family = token[q.token].family /\ Live(t) => t = q.token
      BY <2>1, <3>1 DEF SignedIn, RotationInv, OneLiveToken
    <3>3. \A t \in Issued' : token'[t].family = token'[r.token].family /\ Live(t)' => t = r.token
      BY <1>1, <1>4, <3>1, <3>2 DEF Live
    <3> QED BY <2>1, <3>3 DEF Alone
  <2> QED BY <1>2, <2>1 DEF Alone
<1> QED BY <1>3, <1>4, <1>5, NothingIssued

LEMMA PhoneRevocation ==
  ASSUME SignedIn, Kept, Undisturbed, user' = "active", NEW q \in request, q.by = "phone", RevokeFamily(q) \/ RevokeOld(q)
  PROVE  PhoneInv' /\ RotationInv'
<1>0. Typed /\ token \in Seq(TokenRow) /\ q.waiting = TRUE /\ UNCHANGED stored
  BY DEF SignedIn, OwnTokens, Typed, PhoneInv, RevokeFamily, RevokeOld
<1>1. PICK r \in RefreshRequest :
        /\ Replaces(q, r) /\ r.waiting = TRUE
        /\ (q.at = "replayed" /\ r.at = "rejected") \/ (q.at = "checked" /\ r.at = "rotating" /\ token' = Revoke({q.token}))
  <2>1. RevokeFamily(q) => /\ q.at = "replayed"
                           /\ \E r \in RefreshRequest : Replaces(q, r) /\ r.waiting = TRUE /\ r.at = "rejected"
    BY <1>0, MoveFacts DEF RevokeFamily, Typed, Stage
  <2>2. RevokeOld(q) => /\ q.at = "checked" /\ token' = Revoke({q.token})
                        /\ \E r \in RefreshRequest : Replaces(q, r) /\ r.waiting = TRUE /\ r.at = "rotating"
    BY <1>0, MoveFacts DEF RevokeOld, Typed, Stage
  <2> QED BY <2>1, <2>2
<1>5. r.outlived = FALSE => q.at # "replayed"
  BY <1>1 DEF Replaces, SignedIn, PhoneInv, WellReceived
<1>2. PhoneInv' /\ \A p \in request' : p.by = "phone" => p = r
  BY <1>0, <1>1, <1>5, PhoneRequest
<1>3. Issued' = Issued
  BY <1>0, RevokeFacts DEF RevokeFamily, RevokeOld
<1>4. Alone(r)'
  <2>1. CASE q.at = "checked" /\ r.at = "rotating" /\ token' = Revoke({q.token})
    <3>1. r.token = q.token /\ q.token \in Issued
      BY <1>1, OfThePhone DEF SignedIn, Replaces
    <3>2. \A t \in Issued : token[t].family = token[q.token].family /\ Live(t) => t = q.token
      BY <2>1 DEF SignedIn, RotationInv, Alone
    <3>3. \A t \in Issued : token'[t].family = token[t].family /\ (Live(t)' <=> (Live(t) /\ t # q.token))
      BY <1>0, <2>1, RevokeFacts DEF Kept
    <3>4. \A t \in Issued' : token'[t].family = token'[r.token].family => ~Live(t)'
      BY <1>3, <3>1, <3>2, <3>3
    <3> QED BY <2>1, <3>4 DEF Alone
  <2> QED BY <1>1, <2>1 DEF Alone
<1> QED BY <1>2, <1>3, <1>4, NothingIssued


LEMMA PhoneIssue ==
  ASSUME SignedIn, Kept, Undisturbed, user' = "active", NEW q \in request, q.by = "phone", Issue(q)
  PROVE  PhoneInv' /\ RotationInv'
<1> DEFINE n == Len(token) + 1
           family == token[q.token].family
<1>0. /\ Typed /\ token \in Seq(TokenRow) /\ q \in RefreshRequest /\ q.waiting = TRUE /\ q.at = "rotating"
      /\ q.token \in Issued /\ token[q.token] \in TokenRow /\ UNCHANGED stored
      /\ token' = Append(token, Row(family, "phone", q.late))
  BY IssuedIs, Names, OfThePhone DEF SignedIn, OwnTokens, Typed, PhoneInv, Issue
<1>1. family \in Nat /\ q.late \in BOOLEAN /\ "phone" \in Client
  BY <1>0, Names DEF TokenRow, RefreshRequest
<1>2. /\ Issued' = Issued \cup {n} /\ n \notin Issued /\ n \in Nat
      /\ \A t \in Issued : /\ Live(t)' <=> Live(t)
                           /\ token'[t].family = token[t].family /\ token'[t].client = token[t].client
      /\ \A t : t = n => Live(t)'
      /\ token'[n].family = family
  BY <1>0, <1>1, IssuedIs, AppendFacts DEF Kept
<1>3. PICK r \in RefreshRequest : Replaces(q, r) /\ r.waiting = TRUE /\ r.at = "issued" /\ r.new = n
  BY <1>0, IssueSteps
<1> HIDE DEF n
<1>4. \A t \in Issued : token[t].family = family => ~Live(t)
  BY <1>0 DEF SignedIn, RotationInv, Alone
<1> HIDE DEF family
<1>5. Live(r.new)' /\ r.new # stored["phone"]
  <2>1. stored["phone"] # n
    BY <1>2, OfThePhone, TabAssumption DEF SignedIn
  <2> QED BY <1>2, <1>3, <2>1
<1>6. PhoneInv' /\ \A p \in request' : p.by = "phone" => p = r
  BY <1>0, <1>3, <1>5, PhoneRequest
<1>7. OneLiveToken'
  <2>1. ASSUME NEW t \in Issued', NEW u \in Issued',
               Live(t)', Live(u)', token'[t].client = "phone", token'[t].family = token'[u].family
        PROVE  t = u
    <3>1. CASE t \in Issued /\ u \in Issued
      BY <1>2, <2>1, <3>1 DEF SignedIn, RotationInv, OneLiveToken
    <3>2. CASE t = n
      BY <1>2, <1>4, <2>1, <3>2
    <3>3. CASE u = n
      BY <1>2, <1>4, <2>1, <3>3
    <3> QED BY <1>2, <2>1, <3>1, <3>2, <3>3
  <2> QED BY <2>1 DEF OneLiveToken
<1>8. \A p \in request' : p.by = "phone" => Alone(p)'
  BY <1>3, <1>6 DEF Alone
<1> QED BY <1>6, <1>7, <1>8 DEF RotationInv

LEMMA PhoneSettle ==
  ASSUME SignedIn, Kept, Undisturbed, user' = "active", NEW q \in request, q.by = "phone", Settle(q)
  PROVE  PhoneInv' /\ RotationInv'
<1>0. /\ Typed /\ token \in Seq(TokenRow) /\ stored \in [Client -> OrNone] /\ "phone" \in Client
      /\ \A p \in request : p.waiting = TRUE /\ (p.by = "phone" => p = q)
  BY Names DEF SignedIn, OwnTokens, Typed, PhoneInv
<1>1. /\ UNCHANGED token /\ request' = request \ {q}
      /\ \/ q.at = "issued" /\ stored' = [stored EXCEPT !["phone"] = q.new]
         \/ stored' = [stored EXCEPT !["phone"] = None]
  BY <1>0, Names DEF Settle, Receive, Rejected, Drop
<1>2. \A p \in request' : p.waiting = TRUE /\ p.by # "phone"
  BY <1>0, <1>1
<1>3. Issued' = Issued /\ \A t \in Issued : Live(t)' <=> Live(t)
  BY <1>0, <1>1, TokensUnchanged
<1>4. PhoneTokenIsLive'
  <2>1. CASE q.at = "issued" /\ stored' = [stored EXCEPT !["phone"] = q.new]
    <3>1. stored'["phone"] = q.new /\ q.new \in Issued /\ Live(q.new)
      BY <1>0, <2>1, OfThePhone DEF SignedIn, PhoneInv
    <3>2. \A t : t \in Issued /\ Live(t) => Live(t)'
      BY <1>3
    <3>3. \A t : t = stored'["phone"] => Live(t)'
      BY <3>1, <3>2
    <3> QED BY <3>3 DEF PhoneTokenIsLive, Live
  <2>2. CASE stored' = [stored EXCEPT !["phone"] = None]
    BY <1>0, <2>2 DEF PhoneTokenIsLive
  <2> QED BY <1>1, <2>1, <2>2
<1>5. PhoneInv'
  BY <1>2, <1>4 DEF PhoneInv
<1> QED BY <1>2, <1>3, <1>5, NothingIssued

LEMMA InitSignedIn == Init => SignedIn
<1>1. Init => PhoneInv /\ RotationInv
  BY DEF Init, PhoneInv, RotationInv, PhoneTokenIsLive, OneLiveToken, Client, Issued
<1> QED BY <1>1, InitOwn DEF SignedIn

LEMMA StepSignedIn == SignedIn /\ [Next]_vars => SignedIn'
<1> SUFFICES ASSUME SignedIn, [Next]_vars PROVE PhoneInv' /\ RotationInv'
  BY StepOwn DEF SignedIn
<1> SUFFICES ASSUME Undisturbed' PROVE PhoneInv' /\ RotationInv'
  BY DEF PhoneInv, RotationInv
<1>1. /\ Undisturbed /\ user = "active" /\ user' = "active"
      /\ \/ \E c \in Client : checkLogin(c)
         \/ \E l \in signIn : login(l)
         \/ \E r \in Refresher : logout(r) \/ Refresh(r)
         \/ \E r \in Tab : SignOutTab(r) \/ startImpersonation(r) \/ stopImpersonation(r)
         \/ \E q \in request : Serve(q) \/ Settle(q)
         \/ UNCHANGED vars
  BY UndisturbedSteps
<1>2. Kept /\ Families' /\ Typed
  BY StepTokens DEF SignedIn, OwnTokens
<1>3. \A q \in request : q.by = "phone" \/ q.by \in Tab
  BY OfThePhone, Names DEF SignedIn
<1>7. \A l \in signIn : l.client \in {"phone", "browser"}
  BY <1>2, Names DEF Typed, SignIn
<1>4. CASE \/ \E c \in Client : checkLogin(c)
           \/ \E l \in signIn : l.client = "browser" /\ login(l)
           \/ \E r \in Tab : logout(r) \/ Refresh(r) \/ SignOutTab(r) \/ startImpersonation(r) \/ stopImpersonation(r)
           \/ \E q \in request : q.by \in Tab /\ (Serve(q) \/ Settle(q))
           \/ UNCHANGED vars
  BY <1>1, <1>2, <1>4, LeavesThePhone, BrowserStep
<1>5. CASE (\E l \in signIn : l.client = "phone" /\ login(l)) \/ logout("phone") \/ Refresh("phone")
  BY <1>1, <1>2, <1>5, PhoneLogin, PhoneLogout, PhoneRefresh
<1>6. ASSUME NEW q \in request, q.by = "phone", Serve(q) \/ Settle(q) PROVE PhoneInv' /\ RotationInv'
  BY <1>1, <1>2, <1>6, PhoneLookup, PhoneRevocation, PhoneIssue, PhoneSettle DEF Serve
<1> QED BY <1>1, <1>3, <1>4, <1>5, <1>6, <1>7, Names

(* What a step of PhoneStaysSignedIn may be. *)
SignOut ==
  Undisturbed /\ stored["phone"] # None /\ stored'["phone"] = None =>
    logout("phone") \/ \E q \in request : q.by = "phone" /\ q.outlived /\ Rejected(q)

LEMMA SignOutSteps == SignedIn /\ [Next]_vars => SignOut
<1> SUFFICES ASSUME SignedIn, [Next]_vars, Undisturbed, stored["phone"] # None, stored'["phone"] = None
             PROVE  logout("phone") \/ \E q \in request : q.by = "phone" /\ q.outlived /\ Rejected(q)
  BY DEF SignOut
<1>0. /\ Typed /\ token \in Seq(TokenRow) /\ stored \in [Client -> OrNone] /\ "browser" \in Client /\ "phone" \in Client
      /\ used.of.who \subseteq Refresher /\ stored' # stored
  BY Names, Taking DEF SignedIn, OwnTokens, Typed
<1>1. ASSUME NEW t, stored' = [stored EXCEPT !["browser"] = t] PROVE FALSE
  BY <1>0, <1>1
<1>2. ASSUME NEW l \in signIn, login(l) PROVE FALSE
  <2>1. Len(token) + 1 # None /\ stored' = [stored EXCEPT ![l.client] = Len(token) + 1]
    BY <1>0, <1>2, IssuedIs, TabAssumption DEF login
  <2> QED BY <1>0, <2>1
<1>3. ASSUME NEW r \in Refresher, logout(r), r # "phone" PROVE FALSE
  BY <1>1, <1>3, Names DEF logout
<1>4. ASSUME NEW q \in request, Receive(q) PROVE FALSE
  <2>1. q.at = "issued" /\ stored' = [stored EXCEPT ![ClientOf(q.by)] = q.new] /\ q.by \in Refresher
    BY <1>4, OfThePhone DEF Receive, SignedIn
  <2>2. q.by = "phone" => q.new # None
    BY <2>1, OfThePhone DEF SignedIn
  <2> QED BY <1>0, <1>1, <2>1, <2>2, Names
<1>5. ASSUME NEW q \in request, Rejected(q) PROVE q.by = "phone" /\ q.outlived
  <2>1. q.at = "rejected" /\ stored' = [stored EXCEPT ![ClientOf(q.by)] = None] /\ q.by \in Refresher
    BY <1>5, OfThePhone DEF Rejected, SignedIn
  <2>2. q.by = "phone"
    BY <1>1, <2>1, Names
  <2>3. q.outlived # FALSE
    BY <2>1, <2>2 DEF SignedIn, PhoneInv, WellReceived
  <2>4. q.outlived \in BOOLEAN
    BY <1>0 DEF Typed, RefreshRequest
  <2> QED BY <2>2, <2>3, <2>4
<1>6. ASSUME NEW q \in request, LoseAnswer(q) PROVE FALSE
  BY <1>0, <1>1, <1>6 DEF LoseAnswer
<1>7. ASSUME NEW r \in Tab, startImpersonation(r) \/ stopImpersonation(r) PROVE FALSE
  BY <1>1, <1>7 DEF startImpersonation, stopImpersonation
<1>8. stored' = stored \/ (\E l \in signIn : login(l)) \/ (\E r \in Refresher : logout(r))
      \/ (\E q \in request : Receive(q) \/ Rejected(q) \/ LoseAnswer(q))
      \/ (\E r \in Tab : startImpersonation(r) \/ stopImpersonation(r))
  BY <1>0 DEF Next, vars, checkLogin, Refresh, SignOutTab, Serve, Lookup, RevokeFamily, RevokeOld, Issue, Settle, Drop,
              FailStatement, revokeSessions, deactivate, CutDeactivation, FinishDeactivation, reactivate, Expire, sweep
<1> QED BY <1>0, <1>2, <1>3, <1>4, <1>5, <1>6, <1>7, <1>8

(* Until an administrator, an expiration or a failure disturbs it, the phone is signed out by its own
   logout, or by the rejection of a refresh it logged out during: its calls that get a 401 together,
   the tabs' refreshes and a login in the middle of one never make the server refuse its token. *)
THEOREM PhoneKeepsItsSession == Spec => PhoneStaysSignedIn
<1>1. SignedIn /\ [Next]_vars => [SignOut]_vars
  BY SignOutSteps
<1>2. Spec => [][SignOut]_vars
  BY <1>1, InitSignedIn, StepSignedIn, PTL DEF Spec
<1> QED BY <1>2 DEF PhoneStaysSignedIn, SignOut

(* And undisturbed, a session of the phone never has two tokens that can both be refreshed: each
   rotation revokes the token it was asked with before it issues the next one. *)
THEOREM OneTokenAtATime == Spec => []OneLiveToken
<1>1. SignedIn => OneLiveToken
  BY DEF SignedIn, RotationInv, OneLiveToken
<1> QED BY <1>1, InitSignedIn, StepSignedIn, PTL DEF Spec
=============================================================================
