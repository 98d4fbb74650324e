------------------------------ MODULE Sessions ------------------------------
(***************************************************************************)
(* Sessions of one user: the rotation of refresh tokens by AuthService,    *)
(* the phone's client and the browser's, which refresh on a 401, and what  *)
(* revokes sessions: logout, deactivation, « log out everywhere ».         *)
(*                                                                         *)
(* The tabs of the browser share its local storage; each keeps in memory   *)
(* the state of its own auth store.  A tab is opened after the login.      *)
(***************************************************************************)
EXTENDS Integers, FiniteSets, Sequences

CONSTANTS
  Tab,
  None,
  Scenario      \* bounds of a behaviour: who, the phone and tabs used together; tokens, the refresh
                \* tokens ever issued; events, administrative actions and expirations; failures,
                \* lost answers, failed statements, restarts of the phone

ASSUME TabAssumption == Tab \cap {"phone", None} = {} /\ None \notin Nat
ASSUME ScenarioAssumption ==
  Scenario \subseteq [who : SUBSET ({"phone"} \cup Tab), tokens : Nat, events : Nat, failures : Nat]

VARIABLES
  token,        \* token[t]: the row of the t-th refresh token issued
  signIn,       \* the requests /auth/login that passed their checks
  request,      \* the requests /auth/refresh that are not over
  stored,       \* the refresh token in the phone's key store, in the browser's local storage
  tab,          \* tab[r]: the auth store of tab r
  user,         \* "active", "deactivating" (sessions not revoked yet), "inactive", "unfinished" (never revoked)
  used          \* the scenario of this behaviour, and what is used of it

vars == <<token, signIn, request, stored, tab, user, used>>

-----------------------------------------------------------------------------
Refresher == {"phone"} \cup Tab
Client == {"phone", "browser"}
ClientOf(r) == IF r = "phone" THEN "phone" ELSE "browser"

(* late: history, issued by a login or a rotation that passed its checks before sessions were revoked. *)
Row(family, client, late) ==
  [family |-> family, client |-> client, revoked |-> FALSE, expired |-> FALSE, purged |-> FALSE,
   late |-> late]

Live(t) == ~token[t].revoked /\ ~token[t].expired /\ ~token[t].purged
Issued == DOMAIN token

SignedOut == [held |-> None, stash |-> None, impersonating |-> FALSE]

Init ==
  /\ token = <<>>
  /\ signIn = {}
  /\ request = {}
  /\ stored = [c \in Client |-> None]
  /\ tab = [r \in Tab |-> SignedOut]
  /\ user = "active"
  /\ used \in [of : Scenario, events : {0}, failures : {0}]

(* Bound: room is kept for the tokens of the requests under way. *)
HasRoom == Len(token) + Cardinality(request) + Cardinality(signIn) < used.of.tokens

Revoke(these) == [t \in Issued |-> IF t \in these THEN [token[t] EXCEPT !.revoked = TRUE] ELSE token[t]]

Waiting(r) == \E q \in request : q.by = r /\ q.waiting

Event == used.events < used.of.events /\ used' = [used EXCEPT !.events = @ + 1]
Failure == used.failures < used.of.failures /\ used' = [used EXCEPT !.failures = @ + 1]

-----------------------------------------------------------------------------
(* Clients *)

(* The user is read, found active, and the password is compared. *)
checkLogin(c) ==
  /\ stored[c] = None /\ user = "active" /\ HasRoom
  /\ \E r \in used.of.who : ClientOf(r) = c
  /\ \A l \in signIn : l.client # c
  /\ signIn' = signIn \cup {[client |-> c, late |-> FALSE]}
  /\ UNCHANGED <<token, request, stored, tab, user, used>>

(* login, generateTokens, setSession, setAuth: a new family. *)
login(l) ==
  /\ signIn' = signIn \ {l}
  /\ token' = Append(token, Row(Len(token) + 1, l.client, l.late))
  /\ stored' = [stored EXCEPT ![l.client] = Len(token) + 1]
  /\ tab' = IF l.client = "phone" THEN tab
            ELSE [r \in Tab |-> IF r \notin used.of.who \/ tab[r].impersonating THEN tab[r]
                                ELSE [SignedOut EXCEPT !.held = Len(token) + 1]]
  /\ UNCHANGED <<request, user, used>>

Cleared(r) == IF r = "phone" THEN tab ELSE [tab EXCEPT ![r] = SignedOut]

(* The phone presents its token, and the call may fail; the web app presents none. The refresh under
   way goes on (outlived: history, its client logged out meanwhile). *)
logout(r) ==
  /\ stored[ClientOf(r)] # None
  /\ r \in Tab => ~tab[r].impersonating
  /\ \/ r = "phone" /\ token' = Revoke({stored["phone"]})
     \/ UNCHANGED token
  /\ stored' = [stored EXCEPT ![ClientOf(r)] = None]
  /\ tab' = Cleared(r)
  /\ request' = {IF q.by = r THEN [q EXCEPT !.outlived = TRUE] ELSE q : q \in request}
  /\ UNCHANGED <<signIn, user, used>>

(* Mutant of Refresh: no promise is shared by the requests that got a 401. *)
RefreshManyFlights(r) ==
  /\ stored[ClientOf(r)] # None
  /\ r \in Tab => ~tab[r].impersonating
  /\ Live(stored[ClientOf(r)]) => HasRoom
  /\ request' = request \cup {[by |-> r, token |-> stored[ClientOf(r)], waiting |-> TRUE,
                               at |-> "sent", new |-> None, late |-> FALSE, outlived |-> FALSE]}
  /\ UNCHANGED <<signIn, token, stored, tab, user, used>>

(* A 401: one refresh at a time for the phone, and for each tab. *)
Refresh(r) ==
  /\ ~Waiting(r)
  /\ stored[ClientOf(r)] # None
  /\ r \in Tab => ~tab[r].impersonating
  /\ Live(stored[ClientOf(r)]) => HasRoom
  /\ request' = request \cup {[by |-> r, token |-> stored[ClientOf(r)], waiting |-> TRUE,
                               at |-> "sent", new |-> None, late |-> FALSE, outlived |-> FALSE]}
  /\ UNCHANGED <<signIn, token, stored, tab, user, used>>

(* A 401 in a tab when another one emptied the local storage. *)
SignOutTab(r) ==
  /\ stored["browser"] = None /\ ~Waiting(r)
  /\ ~tab[r].impersonating /\ tab[r] # SignedOut
  /\ tab' = [tab EXCEPT ![r] = SignedOut]
  /\ UNCHANGED <<signIn, token, request, stored, user, used>>

(* setTokens; the interceptor of the web app writes the local storage and not its auth store. *)
Receive(q) ==
  /\ q.waiting /\ q.at = "issued"
  /\ stored' = [stored EXCEPT ![ClientOf(q.by)] = q.new]
  /\ request' = request \ {q}
  /\ UNCHANGED <<signIn, token, tab, user, used>>

(* Mutant of Rejected: the phone keeps its token for a later attempt. *)
RejectedKeeping(q) ==
  /\ q.waiting /\ q.at = "rejected"
  /\ stored' = IF q.by = "phone" THEN stored ELSE [stored EXCEPT !["browser"] = None]
  /\ tab' = Cleared(q.by)
  /\ request' = request \ {q}
  /\ UNCHANGED <<signIn, token, user, used>>

(* clearSession, clearAuth: any answer but a success signs out. *)
Rejected(q) ==
  /\ q.waiting /\ q.at = "rejected"
  /\ stored' = [stored EXCEPT ![ClientOf(q.by)] = None]
  /\ tab' = Cleared(q.by)
  /\ request' = request \ {q}
  /\ UNCHANGED <<signIn, token, user, used>>

(* The connection breaks, or the phone is restarted: the server goes on with the request. The
   phone keeps its token, a tab signs out. *)
LoseAnswer(q) ==
  /\ q.waiting /\ Failure
  /\ request' = (request \ {q}) \cup {[q EXCEPT !.waiting = FALSE]}
  /\ stored' = IF q.by = "phone" THEN stored ELSE [stored EXCEPT !["browser"] = None]
  /\ tab' = Cleared(q.by)
  /\ UNCHANGED <<signIn, token, user>>

startImpersonation(r) ==
  /\ tab[r].held # None /\ ~tab[r].impersonating
  /\ stored' = [stored EXCEPT !["browser"] = None]
  /\ tab' = [tab EXCEPT ![r] = [held |-> None, stash |-> @.held, impersonating |-> TRUE]]
  /\ UNCHANGED <<signIn, token, request, user, used>>

(* By the operator, at a 401, or when the 15 minutes are over. *)
stopImpersonation(r) ==
  /\ tab[r].impersonating
  /\ stored' = [stored EXCEPT !["browser"] = tab[r].stash]
  /\ tab' = [tab EXCEPT ![r] = [SignedOut EXCEPT !.held = tab[r].stash]]
  /\ UNCHANGED <<signIn, token, request, user, used>>

-----------------------------------------------------------------------------
(* rotate: its statements, between which others run. *)

Move(q, at) == request' = (request \ {q}) \cup {[q EXCEPT !.at = at]}

(* The row and the user are read, and checked. *)
Lookup(q) ==
  /\ q.at = "sent"
  /\ LET row == token[q.token] IN
     CASE row.purged                         -> Move(q, "rejected") /\ UNCHANGED token
       [] ~row.purged /\ row.revoked         -> Move(q, "replayed") /\ UNCHANGED token
       [] ~row.purged /\ ~row.revoked /\ row.expired -> Move(q, "rejected") /\ UNCHANGED token
       [] Live(q.token) /\ user # "active"   -> Move(q, "rejected") /\ token' = Revoke({q.token})
       [] Live(q.token) /\ user = "active"   -> Move(q, "checked") /\ UNCHANGED token
  /\ UNCHANGED <<signIn, stored, tab, user, used>>

(* A revoked token was presented: the whole family is revoked. *)
RevokeFamily(q) ==
  /\ q.at = "replayed"
  /\ token' = Revoke({t \in Issued : token[t].family = token[q.token].family})
  /\ Move(q, "rejected")
  /\ UNCHANGED <<signIn, stored, tab, user, used>>

(* Mutant of RevokeOld: the old token is left as it is. *)
RevokeOldNot(q) ==
  /\ q.at = "checked"
  /\ Move(q, "rotating")
  /\ UNCHANGED <<signIn, token, stored, tab, user, used>>

RevokeOld(q) ==
  /\ q.at = "checked"
  /\ token' = Revoke({q.token})
  /\ Move(q, "rotating")
  /\ UNCHANGED <<signIn, stored, tab, user, used>>

(* generateTokens *)
Issue(q) ==
  /\ q.at = "rotating"
  /\ token' = Append(token, Row(token[q.token].family, ClientOf(q.by), q.late))
  /\ request' = (request \ {q}) \cup {[q EXCEPT !.at = "issued", !.new = Len(token) + 1]}
  /\ UNCHANGED <<signIn, stored, tab, user, used>>

(* A statement fails. *)
FailStatement(q) ==
  /\ q.at \in {"sent", "checked", "replayed", "rotating"} /\ Failure
  /\ Move(q, "rejected")
  /\ UNCHANGED <<signIn, token, stored, tab, user>>

(* An answer nobody waits for. *)
Drop(q) ==
  /\ ~q.waiting /\ q.at \in {"issued", "rejected"}
  /\ request' = request \ {q}
  /\ UNCHANGED <<signIn, token, stored, tab, user, used>>

-----------------------------------------------------------------------------
(* Administration *)

(* Logins and refreshes past their checks issue a late token. *)
RevokeSessions(clients) ==
  LET these == {t \in Issued : token[t].client \in clients} IN
  /\ token' = Revoke(these)
  /\ request' = {[q EXCEPT !.late = @ \/ (q.at \in {"checked", "rotating"} /\ q.token \in these)] :
                   q \in request}
  /\ signIn' = {[l EXCEPT !.late = @ \/ l.client \in clients] : l \in signIn}

(* onSessionsRevoked: « log out everywhere ». onDeviceRevoked: the phone only. *)
revokeSessions(clients) ==
  /\ Event /\ \E t \in Issued : Live(t) /\ token[t].client \in clients
  /\ RevokeSessions(clients)
  /\ UNCHANGED <<stored, tab, user>>

(* remove: isActive is written, then sessions are revoked. *)
deactivate ==
  /\ user \in {"active", "unfinished"} /\ Event
  /\ user' = "deactivating"
  /\ UNCHANGED <<token, signIn, request, stored, tab>>

(* The process dies in between, or the revocation throws. *)
CutDeactivation ==
  /\ user = "deactivating" /\ Failure
  /\ user' = "unfinished"
  /\ UNCHANGED <<token, signIn, request, stored, tab>>

(* Mutant of FinishDeactivation: the phone's tokens only are revoked. *)
FinishDeactivationOfDevice ==
  /\ user = "deactivating"
  /\ RevokeSessions({"phone"})
  /\ user' = "inactive"
  /\ UNCHANGED <<stored, tab, used>>

FinishDeactivation ==
  /\ user = "deactivating"
  /\ RevokeSessions(Client)
  /\ user' = "inactive"
  /\ UNCHANGED <<stored, tab, used>>

reactivate ==
  /\ user \in {"inactive", "unfinished"}
  /\ user' = "active"
  /\ UNCHANGED <<token, signIn, request, stored, tab, used>>

(* Seven days after a token was issued. *)
Expire(t) ==
  /\ Live(t) /\ Event
  /\ token' = [token EXCEPT ![t].expired = TRUE]
  /\ UNCHANGED <<signIn, request, stored, tab, user>>

(* sweep: thirty days after its revocation or its expiration. *)
sweep(t) ==
  /\ ~Live(t) /\ ~token[t].purged /\ Event
  /\ \A q \in request : q.token # t
  /\ token' = [token EXCEPT ![t].purged = TRUE]
  /\ UNCHANGED <<signIn, request, stored, tab, user>>

-----------------------------------------------------------------------------
Serve(q) == Lookup(q) \/ RevokeFamily(q) \/ RevokeOld(q) \/ Issue(q)
Settle(q) == Receive(q) \/ Rejected(q) \/ Drop(q)

Next ==
  \/ \E c \in Client : checkLogin(c)
  \/ \E l \in signIn : login(l)
  \/ \E r \in used.of.who : logout(r) \/ Refresh(r)
  \/ \E r \in Tab : SignOutTab(r) \/ startImpersonation(r) \/ stopImpersonation(r)
  \/ \E q \in request : Serve(q) \/ Settle(q) \/ LoseAnswer(q) \/ FailStatement(q)
  \/ \E clients \in {Client, {"phone"}} : revokeSessions(clients)
  \/ deactivate \/ CutDeactivation \/ FinishDeactivation \/ reactivate
  \/ \E t \in Issued : Expire(t) \/ sweep(t)

Spec == Init /\ [][Next]_vars

(* Statements return and answers arrive or are lost; a client goes on calling the API, so an
   expired access token is met again; the banner ends an impersonation when its time is over. *)
FairSpec ==
  /\ Spec
  /\ \A r \in Refresher : WF_vars(\E q \in request : q.by = r /\ (Serve(q) \/ Settle(q)))
  /\ \A r \in Refresher : WF_vars(r \in used.of.who /\ Refresh(r))
  /\ \A r \in Tab : WF_vars(stopImpersonation(r))

-----------------------------------------------------------------------------
(* Properties *)

Undisturbed == used.events = 0 /\ used.failures = 0

(* Until an administrator, an expiration or a failure disturbs it, the phone loses its session to a
   logout only, and to the rejection of a refresh it logged out during, which takes the session of
   the next login: however many of its calls get a 401 together, it never presents a token it used up. *)
PhoneStaysSignedIn ==
  [][Undisturbed /\ stored["phone"] # None /\ stored'["phone"] = None =>
       logout("phone") \/ \E q \in request : q.by = "phone" /\ q.outlived /\ Rejected(q)]_vars

(* And a session of the phone never has two tokens that can both be refreshed. *)
OneLiveToken ==
  Undisturbed =>
    \A t, u \in Issued :
      Live(t) /\ Live(u) /\ token[t].client = "phone" /\ token[t].family = token[u].family => t = u

(* When the deactivation of an account is over no token of it is left alive, except one issued by a
   login or a refresh that passed its checks before.  A deactivation cut off leaves them all. *)
DeactivationEndsSessions ==
  user = "inactive" => \A t \in Issued : Live(t) => token[t].late

(* No client stays with a dead token for ever: it is signed out, and asks for a login. *)
DeadTokenIsDropped ==
  \A c \in Client : []<>(stored[c] = None \/ Live(stored[c]))

=============================================================================
