-------------------------- MODULE IdempotencyKeys --------------------------
(***************************************************************************)
(* The Idempotency-Key protocol of the backend: IdempotencyInterceptor     *)
(* (common/interceptors) around a handler, on top of IdempotencyStore      *)
(* (modules/mobile/application/idempotency), for one (tenant, user).       *)
(*                                                                         *)
(* Every HTTP request is a process.  It awaits the database between the    *)
(* INSERT that claims the key, the SELECT that looks at an existing row,   *)
(* the UPDATE that takes over a stale row, the handler, and the UPDATE or  *)
(* DELETE that ends the claim: each await is a step here.                  *)
(***************************************************************************)
EXTENDS Naturals, FiniteSets

CONSTANTS
  Request,   \* HTTP requests (the first send and every retry)
  Key,       \* Idempotency-Key values
  Hash,      \* request hashes: method, path, canonical body
  None,      \* no row, no request
  Faults     \* which misfortunes may happen, a subset of Fault

(***************************************************************************)
(* "crash"    the backend process dies with requests in flight             *)
(* "complete" store.complete() rejects although the handler committed      *)
(* "release"  store.release() rejects                                      *)
(* "slow"     a handler may outlive IDEMPOTENCY_STALE_MS                   *)
(* "ttl"      rows may reach IDEMPOTENCY_TTL_MS and be purged              *)
(***************************************************************************)
Fault == {"crash", "complete", "release", "slow", "ttl"}

ASSUME FaultsAssumption == Faults \subseteq Fault
ASSUME NoneAssumption == None \notin Request

VARIABLES
  row,       \* row[k]: the idempotency_keys row of k, or NoRow
  pc,        \* pc[r]: where request r is
  req,       \* req[r]: the key and hash r was sent with
  seen,      \* seen[r]: id of the stale row r read before taking it over
  reply,     \* reply[r]: the HTTP answer of r
  executed   \* requests whose handler committed its transaction

vars == <<row, pc, req, seen, reply, executed>>

-----------------------------------------------------------------------------
NoRow == [id |-> None, hash |-> None, status |-> "ABSENT", body |-> None, age |-> "fresh"]

(* A row is identified by the request that inserted it; body is the request *)
(* whose response it stores.                                                *)
Row == [id: Request, hash: Hash, status: {"IN_PROGRESS", "DONE"},
        body: Request \cup {None}, age: {"fresh", "stale", "expired"}]

NoReply == [kind |-> "NONE", body |-> None]

Reply == [kind: {"NONE", "OK", "REPLAYED", "MISMATCH", "IN_PROGRESS", "ERROR"},
          body: Request \cup {None}]

Refusal(kind) == [kind |-> kind, body |-> None]

Step == {"idle", "reading", "takingOver", "running", "completing", "releasing",
         "answered", "dead"}

(* The request owns a NEW claim and has not ended it yet. *)
Claiming == {"running", "completing", "releasing"}

Claimants(k) == {r \in Request : pc[r] \in Claiming /\ req[r].key = k}

Init ==
  /\ row = [k \in Key |-> NoRow]
  /\ pc = [r \in Request |-> "idle"]
  /\ req = [r \in Request |-> [key |-> None, hash |-> None]]
  /\ seen = [r \in Request |-> None]
  /\ reply = [r \in Request |-> NoReply]
  /\ executed = {}

Goto(r, step) == pc' = [pc EXCEPT ![r] = step]

Answer(r, answer) ==
  /\ Goto(r, "answered")
  /\ reply' = [reply EXCEPT ![r] = answer]

-----------------------------------------------------------------------------
(* Mutant of Begin: the claim is an upsert, so it never finds a taken key. *)
BeginUpserts(r, k, h) ==
  /\ pc[r] = "idle"
  /\ req' = [req EXCEPT ![r] = [key |-> k, hash |-> h]]
  /\ row' = [row EXCEPT ![k] = [id |-> r, hash |-> h, status |-> "IN_PROGRESS",
                                body |-> None, age |-> "fresh"]]
  /\ Goto(r, "running")
  /\ UNCHANGED <<seen, reply, executed>>

(* intercept(): begin() INSERTs the row; a free key is NEW, a taken one is *)
(* the P2002 the code falls through on.                                    *)
Begin(r, k, h) ==
  /\ pc[r] = "idle"
  /\ req' = [req EXCEPT ![r] = [key |-> k, hash |-> h]]
  /\ \/ /\ row[k] = NoRow
        /\ row' = [row EXCEPT ![k] = [id |-> r, hash |-> h, status |-> "IN_PROGRESS",
                                      body |-> None, age |-> "fresh"]]
        /\ Goto(r, "running")
     \/ /\ row[k] # NoRow
        /\ Goto(r, "reading")
        /\ UNCHANGED row
  /\ UNCHANGED <<seen, reply, executed>>

(* Mutant of ReadRow: the hash is not compared. *)
ReadRowAnyHash(r) ==
  LET found == row[req[r].key] IN
  /\ pc[r] = "reading"
  /\ IF found.status = "DONE"
     THEN Answer(r, [kind |-> "REPLAYED", body |-> found.body])
     ELSE Answer(r, Refusal("IN_PROGRESS"))
  /\ UNCHANGED <<row, req, seen, executed>>

(* Mutant of ReadRow: a claim in progress is taken over without looking at *)
(* its age.                                                                *)
ReadRowImpatient(r) ==
  LET found == row[req[r].key] IN
  /\ pc[r] = "reading"
  /\ IF found.status = "IN_PROGRESS" /\ found.hash = req[r].hash
     THEN /\ Goto(r, "takingOver")
          /\ seen' = [seen EXCEPT ![r] = found.id]
          /\ UNCHANGED reply
     ELSE /\ Answer(r, Refusal("MISMATCH"))
          /\ UNCHANGED seen
  /\ UNCHANGED <<row, req, executed>>

(* begin(), after P2002: findUnique, then the answer the row calls for. *)
ReadRow(r) ==
  LET found == row[req[r].key] IN
  /\ pc[r] = "reading"
  /\ \/ /\ found = NoRow
        /\ Answer(r, Refusal("IN_PROGRESS"))
        /\ UNCHANGED seen
     \/ /\ found # NoRow
        /\ found.hash # req[r].hash
        /\ Answer(r, Refusal("MISMATCH"))
        /\ UNCHANGED seen
     \/ /\ found # NoRow
        /\ found.hash = req[r].hash
        /\ found.status = "DONE"
        /\ Answer(r, [kind |-> "REPLAYED", body |-> found.body])
        /\ UNCHANGED seen
     \/ /\ found # NoRow
        /\ found.hash = req[r].hash
        /\ found.status = "IN_PROGRESS"
        /\ found.age = "fresh"
        /\ Answer(r, Refusal("IN_PROGRESS"))
        /\ UNCHANGED seen
     \/ /\ found # NoRow
        /\ found.hash = req[r].hash
        /\ found.status = "IN_PROGRESS"
        /\ found.age # "fresh"
        /\ Goto(r, "takingOver")
        /\ seen' = [seen EXCEPT ![r] = found.id]
        /\ UNCHANGED reply
  /\ UNCHANGED <<row, req, executed>>

(* begin(), stale row: UPDATE created_at WHERE id = the row read, then NEW. *)
(* The update throws when that row is gone; it looks at nothing else.       *)
TakeOver(r) ==
  LET k == req[r].key IN
  /\ pc[r] = "takingOver"
  /\ \/ /\ row[k].id = seen[r]
        /\ row' = [row EXCEPT ![k].age = "fresh"]
        /\ Goto(r, "running")
        /\ UNCHANGED reply
     \/ /\ row[k].id # seen[r]
        /\ Answer(r, Refusal("ERROR"))
        /\ UNCHANGED row
  /\ UNCHANGED <<req, seen, executed>>

(* next.handle() commits its transaction and returns a body. *)
HandlerCommits(r) ==
  /\ pc[r] = "running"
  /\ executed' = executed \cup {r}
  /\ Goto(r, "completing")
  /\ UNCHANGED <<row, req, seen, reply>>

(* Mutant of HandlerFails: the error is swallowed before complete(). *)
HandlerFailureRecorded(r) ==
  /\ pc[r] = "running"
  /\ Goto(r, "completing")
  /\ UNCHANGED <<row, req, seen, reply, executed>>

(* next.handle() throws; its transaction rolled back. *)
HandlerFails(r) ==
  /\ pc[r] = "running"
  /\ Goto(r, "releasing")
  /\ UNCHANGED <<row, req, seen, reply, executed>>

(* Mutant of Complete: the answer leaves before the row is written. *)
CompleteForgotten(r) ==
  /\ pc[r] = "completing"
  /\ Answer(r, [kind |-> "OK", body |-> r])
  /\ UNCHANGED <<row, req, seen, executed>>

(* complete(): UPDATE by key, whoever the row belongs to.  No row (P2025)  *)
(* or a database failure rejects, and catchError goes on to release().     *)
Complete(r) ==
  LET k == req[r].key IN
  /\ pc[r] = "completing"
  /\ \/ /\ row[k] # NoRow
        /\ row' = [row EXCEPT ![k].status = "DONE", ![k].body = r]
        /\ Answer(r, [kind |-> "OK", body |-> r])
     \/ /\ row[k] = NoRow \/ "complete" \in Faults
        /\ Goto(r, "releasing")
        /\ UNCHANGED <<row, reply>>
  /\ UNCHANGED <<req, seen, executed>>

(* Mutant of Release: the row is kept and loses its owner. *)
ReleaseKeepsRow(r) ==
  /\ pc[r] = "releasing"
  /\ row' = [row EXCEPT ![req[r].key].id = None]
  /\ Answer(r, Refusal("ERROR"))
  /\ UNCHANGED <<req, seen, executed>>

(* Mutant of Release: the handler's error is not rethrown. *)
ReleaseSilent(r) ==
  /\ pc[r] = "releasing"
  /\ row' = [row EXCEPT ![req[r].key] = NoRow]
  /\ UNCHANGED <<pc, reply, req, seen, executed>>

(* release(): deleteMany by key, then the handler's error is rethrown; if  *)
(* the delete itself fails the row stays.                                  *)
Release(r) ==
  LET k == req[r].key IN
  /\ pc[r] = "releasing"
  /\ \/ row' = [row EXCEPT ![k] = NoRow]
     \/ /\ "release" \in Faults
        /\ UNCHANGED row
  /\ Answer(r, Refusal("ERROR"))
  /\ UNCHANGED <<req, seen, executed>>

-----------------------------------------------------------------------------
(* The backend process dies: nothing in flight continues, rows stay. *)
Crash ==
  /\ "crash" \in Faults
  /\ \E r \in Request : pc[r] \notin {"idle", "answered", "dead"}
  /\ pc' = [r \in Request |-> IF pc[r] \in {"idle", "answered"} THEN pc[r] ELSE "dead"]
  /\ UNCHANGED <<row, req, seen, reply, executed>>

(* Two minutes after created_at the row is stale, 48 hours after expired.   *)
(* Unless handlers may be slow, a claimed key does not age under its owner. *)
Age(k) ==
  /\ row[k] # NoRow
  /\ "slow" \in Faults \/ Claimants(k) = {}
  /\ \/ /\ row[k].age = "fresh"
        /\ row' = [row EXCEPT ![k].age = "stale"]
     \/ /\ row[k].age = "stale"
        /\ "ttl" \in Faults
        /\ row' = [row EXCEPT ![k].age = "expired"]
  /\ UNCHANGED <<pc, req, seen, reply, executed>>

(* cleanup(), nightly: deletes the rows past the TTL, whatever their status. *)
Cleanup ==
  /\ \E k \in Key : row[k].age = "expired"
  /\ row' = [k \in Key |-> IF row[k].age = "expired" THEN NoRow ELSE row[k]]
  /\ UNCHANGED <<pc, req, seen, reply, executed>>

-----------------------------------------------------------------------------
Serve(r) ==
  \/ ReadRow(r)
  \/ TakeOver(r)
  \/ HandlerCommits(r)
  \/ HandlerFails(r)
  \/ Complete(r)
  \/ Release(r)

Next ==
  \/ \E r \in Request, k \in Key, h \in Hash : Begin(r, k, h)
  \/ \E r \in Request : Serve(r)
  \/ Crash
  \/ \E k \in Key : Age(k)
  \/ Cleanup

Spec == Init /\ [][Next]_vars

(* Every await of a live process settles. *)
FairSpec == Spec /\ \A r \in Request : WF_vars(Serve(r))

-----------------------------------------------------------------------------
TypeOK ==
  /\ row \in [Key -> Row \cup {NoRow}]
  /\ pc \in [Request -> Step]
  /\ req \in [Request -> [key: Key \cup {None}, hash: Hash \cup {None}]]
  /\ \A r \in Request : pc[r] # "idle" => req[r] \in [key: Key, hash: Hash]
  /\ seen \in [Request -> Request \cup {None}]
  /\ \A r \in Request : pc[r] = "takingOver" => seen[r] \in Request
  /\ reply \in [Request -> Reply]
  /\ executed \subseteq Request

(* The claim excludes: no two requests are executing, or have executed and *)
(* not recorded yet, under the same key (begin: "Claims the key            *)
(* atomically").                                                           *)
ExclusiveClaim ==
  \A r, s \in Request :
    pc[r] \in Claiming /\ pc[s] \in Claiming /\ req[r].key = req[s].key => r = s

(* A key's operation takes effect once, however often it is retried: at    *)
(* most one handler per key commits.                                       *)
AtMostOnce ==
  \A r, s \in executed : req[r].key = req[s].key => r = s

(* A replay gives back the response of a committed execution of this very  *)
(* request: same key and same hash.                                        *)
FaithfulReplay ==
  \A r \in Request :
    reply[r].kind = "REPLAYED" =>
      /\ reply[r].body \in executed
      /\ req[reply[r].body] = req[r]

(* Whatever goes wrong, success is never reported for an operation that    *)
(* did not happen: a 2xx, fresh or replayed, carries the response of a     *)
(* handler that committed under the same key.                              *)
NoPhantomSuccess ==
  \A r \in Request :
    reply[r].kind \in {"OK", "REPLAYED"} =>
      /\ reply[r].body \in executed
      /\ req[reply[r].body].key = req[r].key

(* Once a client has its 2xx, the key remembers it: a retry of the same    *)
(* request is answered from the row, not executed.                         *)
AcknowledgedIsRecorded ==
  \A r \in Request :
    reply[r].kind = "OK" =>
      /\ row[req[r].key].status = "DONE"
      /\ row[req[r].key].body = r
      /\ row[req[r].key].hash = req[r].hash

-----------------------------------------------------------------------------
(* The strengthenings the proofs need, each for the faults it tolerates.   *)

(* Faults within {"complete", "ttl"}: every claim owns the row it inserted, *)
(* and every row in progress has its owner at work, so none goes stale.     *)
ClaimsOwnRows ==
  /\ \A r \in Request : pc[r] \notin {"takingOver", "dead"}
  /\ \A r \in Request :
       pc[r] \in Claiming =>
         /\ row[req[r].key].id = r
         /\ row[req[r].key].hash = req[r].hash
         /\ row[req[r].key].status = "IN_PROGRESS"
  /\ \A k \in Key :
       row[k].status = "IN_PROGRESS" =>
         /\ pc[row[k].id] \in Claiming
         /\ req[row[k].id].key = k
         /\ row[k].age = "fresh"

(* Any faults: what a row or a reply calls a success did commit, under the *)
(* key it is filed under.                                                  *)
ResponsesAreReal ==
  /\ \A r \in Request : pc[r] = "completing" => r \in executed
  /\ \A r \in executed : pc[r] # "idle"
  /\ \A r \in Request : reply[r].kind # "NONE" => pc[r] = "answered"
  /\ \A r \in Request : reply[r].kind = "OK" => reply[r].body = r
  /\ \A k \in Key :
       row[k].status = "DONE" =>
         row[k].body \in executed /\ req[row[k].body].key = k
  /\ NoPhantomSuccess

(* Faults as in ClaimsOwnRows: the response a row stores comes from the    *)
(* request the row was claimed for.                                        *)
ResponsesAreFaithful ==
  /\ \A k \in Key :
       row[k].status = "DONE" => req[row[k].body].hash = row[k].hash
  /\ FaithfulReplay

(* No fault: the row of a key remembers its execution for ever. *)
ExecutionsAreHeld ==
  /\ \A k \in Key : row[k].age # "expired"
  /\ \A r \in executed :
       \/ pc[r] = "completing"
       \/ /\ pc[r] = "answered"
          /\ row[req[r].key].status = "DONE"
          /\ row[req[r].key].body = r

(* No request hangs: a begun request is answered or dies with the process. *)
EveryRequestAnswered ==
  \A r \in Request : pc[r] # "idle" ~> pc[r] \in {"answered", "dead"}
=============================================================================
