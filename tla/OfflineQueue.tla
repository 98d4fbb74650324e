---------------------------- MODULE OfflineQueue ----------------------------
(***************************************************************************)
(* The technician phone's operation queue (src/mobile/src/sync): the       *)
(* sync_queue table, the drain that replays it to the backend, and the     *)
(* buttons of the sync screen, against the backend's Idempotency-Key and   *)
(* optimistic-lock contracts.                                              *)
(*                                                                         *)
(* Operations are numbered by their seq.  One await of the drain is one    *)
(* step; between any two the user may queue, retry or discard, the backend *)
(* may serve requests (also ones the phone gave up on), and the app may be *)
(* killed.  A pull is asked for, served, and applied row by row; here it   *)
(* is of one page (DeltaPull has several).                                 *)
(***************************************************************************)
EXTENDS Integers, FiniteSets

CONSTANTS
  WorkOrder,
  Kinds,        \* the kinds of operation the technician queues
  MAX_ADDITIVE_RETRIES,  \* 3 in the code
  MaxOps,       \* bound: operations queued
  MaxFailures,  \* bound: timeouts, 5xx answers, failed pulls, killed apps, dead requests
  MaxAges,      \* bound: key rows purged, or stale while their request runs
  MaxTouches,   \* bound: changes made by dispatchers
  MaxRetries,   \* bound: uses of the retry / apply button
  MaxPulls      \* bound: background pulls

OpKind == {"transition", "note", "attachment", "signature", "part_add", "part_remove", "template"}

ASSUME KindsAssumption == Kinds \subseteq OpKind
ASSUME WorkOrderAssumption == WorkOrder # {}
ASSUME RetriesAssumption == MAX_ADDITIVE_RETRIES \in Nat \ {0}
ASSUME BoundsAssumption == /\ MaxOps \in Nat /\ MaxFailures \in Nat /\ MaxAges \in Nat
                           /\ MaxTouches \in Nat /\ MaxRetries \in Nat /\ MaxPulls \in Nat

VARIABLES
  queue,     \* queue[i]: the operation with seq i, its row's status and attempts
  local,     \* local[w]: updatedAt of w in the phone's work_orders
  cursor,    \* the phone's pull cursor
  pulls,     \* pulls[p]: the pull of the drain, and the one of the background task
  drainer,   \* the drain's local variables
  uploaded,  \* attachments whose local copy was deleted
  version,   \* version[w]: updatedAt of w on the server
  keyRow,    \* keyRow[i]: the idempotency row of operation i
  applied,   \* applied[i]: how many times operation i took effect
  net,       \* requests under way
  reply,     \* the answer to the request the drain waits for
  gone,      \* operations the user discarded
  conflicts, \* conflicts[i]: 409 answers operation i met since it was queued or retried
  unguarded, \* operations whose key row does not tell what their requests did
  putBack,   \* work orders whose updatedAt a background pull put back
  budget     \* what is left of the bounds

phone == <<queue, local, cursor, pulls, drainer, uploaded>>
server == <<version, keyRow, applied>>
history == <<gone, conflicts, unguarded, putBack>>
vars == <<queue, local, cursor, pulls, drainer, uploaded, version, keyRow, applied,
          net, reply, gone, conflicts, unguarded, putBack, budget>>

-----------------------------------------------------------------------------
Op == 1..MaxOps

(* Kinds sent with expectedUpdatedAt. *)
Locked == {"transition", "signature", "template"}

BLOCKING_KINDS == {"transition", "part_remove"}

Queued == {"PENDING", "IN_FLIGHT", "FAILED", "CONFLICT"}

(* A deleted row keeps its kind and work order: the drain's snapshot does. *)
NoOp == [kind |-> "none", wo |-> "none", status |-> "UNUSED", attempts |-> 0]

Status(i) == queue[i].status
Kind(i) == queue[i].kind
Wo(i) == queue[i].wo

(* No expectedUpdatedAt in the request. *)
Unlocked == 0

NoRow == [state |-> "ABSENT", expected |-> Unlocked, version |-> 0]
NoReply == [kind |-> "none", version |-> 0]

Idle == [at |-> "idle", op |-> 0, n |-> 0, tries |-> 0, todo |-> {}, blocked |-> {}]

Puller == {"drain", "background"}

(* rows[w]: the updatedAt of w in the page, not yet written; 0 for none. *)
NoPull == [at |-> "none", since |-> 0, rows |-> [w \in WorkOrder |-> 0], cursor |-> 0]

Clock == CHOOSE t \in {version[w] : w \in WorkOrder} : \A w \in WorkOrder : version[w] <= t

Least(S) == CHOOSE i \in S : \A j \in S : i <= j

(* The cursor is stored after the rows: a pull cut off leaves it behind. *)
Init ==
  /\ queue = [i \in Op |-> NoOp]
  /\ local = [w \in WorkOrder |-> 1]
  /\ cursor \in {0, 1}
  /\ pulls = [p \in Puller |-> NoPull]
  /\ drainer = Idle
  /\ uploaded = {}
  /\ version = [w \in WorkOrder |-> 1]
  /\ keyRow = [i \in Op |-> NoRow]
  /\ applied = [i \in Op |-> 0]
  /\ net = {}
  /\ reply = NoReply
  /\ gone = {}
  /\ conflicts = [i \in Op |-> 0]
  /\ unguarded = {}
  /\ putBack = {}
  /\ budget = [failures |-> MaxFailures, ages |-> MaxAges, touches |-> MaxTouches,
               retries |-> MaxRetries, pulls |-> MaxPulls]

Spend(what) == budget[what] > 0 /\ budget' = [budget EXCEPT ![what] = @ - 1]

-----------------------------------------------------------------------------
(* The sync_queue table. *)

(* setOpStatus: an UPDATE, without effect on a row that was deleted. *)
SetOpStatus(i, status, attempts) ==
  queue' = IF Status(i) \in Queued
           THEN [queue EXCEPT ![i].status = status, ![i].attempts = attempts]
           ELSE queue

(* deleteOp *)
DeleteOp(i) == queue' = [queue EXCEPT ![i].status = "GONE"]

(* enqueueOp: max(seq) + 1, PENDING. *)
Enqueue(i, w, k) ==
  /\ Status(i) = "UNUSED"
  /\ \A j \in Op : j < i => Status(j) # "UNUSED"
  /\ queue' = [queue EXCEPT ![i] = [kind |-> k, wo |-> w, status |-> "PENDING", attempts |-> 0]]
  /\ UNCHANGED <<local, cursor, pulls, drainer, uploaded, server, net, reply, history, budget>>

(* Sync screen: retry a FAILED operation, apply a CONFLICT one. *)
RetryOp(i) ==
  /\ Status(i) \in {"FAILED", "CONFLICT"}
  /\ Spend("retries")
  /\ SetOpStatus(i, "PENDING", 0)
  /\ conflicts' = [conflicts EXCEPT ![i] = 0]
  /\ UNCHANGED <<local, cursor, pulls, drainer, uploaded, server, net, reply, gone, unguarded, putBack>>

(* Sync screen: discard a FAILED or CONFLICT operation.  Parts card: drop a *)
(* queued addition, whatever its status.                                    *)
DiscardOp(i) ==
  /\ \/ Status(i) \in {"FAILED", "CONFLICT"}
     \/ Kind(i) = "part_add" /\ Status(i) \in Queued
  /\ DeleteOp(i)
  /\ gone' = gone \cup {i}
  /\ UNCHANGED <<local, cursor, pulls, drainer, uploaded, server, net, reply,
                 conflicts, unguarded, putBack, budget>>

-----------------------------------------------------------------------------
(* pullOnly: of the drain after a 409 and at its end, and of the background *)
(* task, which waits for no drain.                                         *)

(* pullOnly reads the cursor and asks for the page. *)
AskPage(p) ==
  /\ pulls[p].at = "none"
  /\ \/ p = "drain" /\ drainer.at \in {"pulling", "closing"} /\ UNCHANGED budget
     \/ p = "background" /\ Spend("pulls")
  /\ pulls' = [pulls EXCEPT ![p].at = "asked", ![p].since = cursor]
  /\ UNCHANGED <<queue, local, cursor, drainer, uploaded, server, net, reply, history>>

(* The page: the rows changed after the cursor asked with, as they are now. *)
ServePage(p) ==
  /\ pulls[p].at = "asked"
  /\ pulls' = [pulls EXCEPT ![p] =
        [at |-> "applying", since |-> 0, cursor |-> Clock,
         rows |-> [w \in WorkOrder |-> IF version[w] > pulls[p].since THEN version[w] ELSE 0]]]
  /\ UNCHANGED <<queue, local, cursor, drainer, uploaded, server, net, reply, history, budget>>

(* applyPull: each row an upsert, whatever the local row has become since. *)
UpsertRow(p, w) ==
  LET updatedAt == pulls[p].rows[w] IN
  /\ updatedAt # 0
  /\ local' = [local EXCEPT ![w] = updatedAt]
  /\ pulls' = [pulls EXCEPT ![p].rows[w] = 0]
  /\ putBack' = IF p = "background" /\ updatedAt < local[w] THEN putBack \cup {w} ELSE putBack
  /\ UNCHANGED <<queue, cursor, drainer, uploaded, server, net, reply, gone, conflicts, unguarded, budget>>

(* applyPull stores the cursor last; the pull returns. *)
StoreCursor(p) ==
  /\ pulls[p].at = "applying"
  /\ \A w \in WorkOrder : pulls[p].rows[w] = 0
  /\ cursor' = pulls[p].cursor
  /\ pulls' = [pulls EXCEPT ![p] = NoPull]

PullStep(p) ==
  \/ AskPage(p)
  \/ ServePage(p)
  \/ \E w \in WorkOrder : UpsertRow(p, w)

BackgroundPull ==
  \/ PullStep("background")
  \/ /\ StoreCursor("background")
     /\ UNCHANGED <<queue, local, drainer, uploaded, server, net, reply, history, budget>>

-----------------------------------------------------------------------------
(* The drain. *)

(* A CONFLICT of any kind, or a FAILED blocking operation, blocks its work  *)
(* order.                                                                  *)
Blocks(i) ==
  \/ Status(i) = "CONFLICT"
  \/ Status(i) = "FAILED" /\ Kind(i) \in BLOCKING_KINDS

(* Mutant of StartDrain: IN_FLIGHT rows are not recovered. *)
StartDrainUnrecovered ==
  /\ drainer.at = "idle"
  /\ drainer' = [Idle EXCEPT
       !.at = "picking",
       !.todo = {i \in Op : Status(i) = "PENDING"},
       !.blocked = {Wo(i) : i \in {j \in Op : Blocks(j)}}]
  /\ UNCHANGED <<queue, local, cursor, pulls, uploaded, server, net, reply, history, budget>>

(* pullNow when no drain runs: recoverInFlight, listOps, the blocked set. *)
StartDrain ==
  /\ drainer.at = "idle"
  /\ queue' = [i \in Op |-> IF Status(i) = "IN_FLIGHT"
                            THEN [queue[i] EXCEPT !.status = "PENDING"] ELSE queue[i]]
  /\ drainer' = [Idle EXCEPT
       !.at = "picking",
       !.todo = {i \in Op : Status(i) \in {"PENDING", "IN_FLIGHT"}},
       !.blocked = {Wo(i) : i \in {j \in Op : Blocks(j)}}]
  /\ UNCHANGED <<local, cursor, pulls, uploaded, server, net, reply, history, budget>>

Sendable == {i \in drainer.todo : Wo(i) \notin drainer.blocked}

(* The request carries the operation's id as Idempotency-Key and, for some *)
(* kinds, the local updatedAt.  An attachment whose file is gone is not    *)
(* sent: uploadFile throws a 400.                                          *)
Transmit(i, tries) ==
  LET n == CHOOSE m \in 1..(Cardinality(net) + 1) : \A q \in net : q.op # i \/ q.n # m IN
  /\ SetOpStatus(i, "IN_FLIGHT", tries)
  /\ IF i \in uploaded
     THEN /\ reply' = [kind |-> "refused", version |-> 0]
          /\ UNCHANGED net
     ELSE /\ net' = net \cup {[op |-> i, n |-> n, running |-> FALSE,
                               expected |-> IF Kind(i) \in Locked THEN local[Wo(i)] ELSE Unlocked]}
          /\ reply' = NoReply
  /\ drainer' = [drainer EXCEPT !.at = "waiting", !.op = i, !.n = n, !.tries = tries,
                                !.todo = @ \ 1..i]
  /\ UNCHANGED <<local, cursor, pulls, uploaded, server, history, budget>>

SendNext ==
  /\ drainer.at = "picking"
  /\ Sendable # {}
  /\ Transmit(Least(Sendable), queue[Least(Sendable)].attempts)

Resend ==
  /\ drainer.at = "retrying"
  /\ Transmit(drainer.op, drainer.tries)

Received(kinds) == drainer.at = "waiting" /\ reply.kind \in kinds

Capped(tries) == IF tries < MAX_ADDITIVE_RETRIES THEN tries ELSE MAX_ADDITIVE_RETRIES

(* Mutant of OnSuccess: the response is not fed forward. *)
OnSuccessUnfed ==
  /\ Received({"ok"})
  /\ uploaded' = IF Kind(drainer.op) = "attachment" THEN uploaded \cup {drainer.op} ELSE uploaded
  /\ drainer' = [drainer EXCEPT !.at = "settling"]
  /\ UNCHANGED <<queue, local, cursor, pulls, server, net, reply, history, budget>>

(* 2xx: the local copy of an attachment goes, bumpLocal feeds updatedAt on. *)
OnSuccess ==
  /\ Received({"ok"})
  /\ local' = [local EXCEPT ![Wo(drainer.op)] = reply.version]
  /\ uploaded' = IF Kind(drainer.op) = "attachment" THEN uploaded \cup {drainer.op} ELSE uploaded
  /\ drainer' = [drainer EXCEPT !.at = "settling"]
  /\ UNCHANGED <<queue, cursor, pulls, server, net, reply, history, budget>>

Settle ==
  /\ drainer.at = "settling"
  /\ DeleteOp(drainer.op)
  /\ drainer' = [drainer EXCEPT !.at = "picking"]
  /\ UNCHANGED <<local, cursor, pulls, uploaded, server, net, reply, history, budget>>

(* 409 OPTIMISTIC_LOCK_CONFLICT: pull before deciding. *)
OnLockConflict ==
  /\ Received({"conflict"})
  /\ drainer' = [drainer EXCEPT !.at = "pulling"]
  /\ conflicts' = [conflicts EXCEPT ![drainer.op] = Capped(@ + 1)]
  /\ UNCHANGED <<queue, local, cursor, pulls, uploaded, server, net, reply,
                 gone, unguarded, putBack, budget>>

Additive(i) == Kind(i) \notin BLOCKING_KINDS

(* Mutant of RetryAfterConflict: the retries are not counted. *)
RetryUncounted ==
  /\ drainer.at = "pulling"
  /\ Additive(drainer.op)
  /\ StoreCursor("drain")
  /\ drainer' = [drainer EXCEPT !.at = "retrying", !.tries = @ + 1]
  /\ UNCHANGED <<queue, local, uploaded, server, net, reply, history, budget>>

(* Mutant of RetryAfterConflict: every kind is retried. *)
RetryAnyKind ==
  /\ drainer.at = "pulling"
  /\ drainer.tries + 1 < MAX_ADDITIVE_RETRIES
  /\ StoreCursor("drain")
  /\ drainer' = [drainer EXCEPT !.at = "retrying", !.tries = @ + 1]
  /\ UNCHANGED <<queue, local, uploaded, server, net, reply, history, budget>>

(* The pull came back: an additive operation goes again, with its same id. *)
RetryAfterConflict ==
  /\ drainer.at = "pulling"
  /\ Additive(drainer.op)
  /\ drainer.tries + 1 < MAX_ADDITIVE_RETRIES
  /\ StoreCursor("drain")
  /\ drainer' = [drainer EXCEPT !.at = "retrying", !.tries = @ + 1]
  /\ UNCHANGED <<queue, local, uploaded, server, net, reply, history, budget>>

(* Mutant of StopInConflict: an additive operation gives up at once. *)
StopAtFirstConflict ==
  /\ drainer.at = "pulling"
  /\ StoreCursor("drain")
  /\ SetOpStatus(drainer.op, "CONFLICT", Capped(drainer.tries + 1))
  /\ drainer' = [drainer EXCEPT !.at = "picking", !.blocked = @ \cup {Wo(drainer.op)}]
  /\ UNCHANGED <<local, uploaded, server, net, reply, history, budget>>

(* A blocking operation, or the last attempt: CONFLICT, left to the        *)
(* technician.                                                             *)
StopInConflict ==
  /\ drainer.at = "pulling"
  /\ ~Additive(drainer.op) \/ drainer.tries + 1 >= MAX_ADDITIVE_RETRIES
  /\ StoreCursor("drain")
  /\ SetOpStatus(drainer.op, "CONFLICT", Capped(drainer.tries + 1))
  /\ drainer' = [drainer EXCEPT !.at = "picking", !.blocked = @ \cup {Wo(drainer.op)}]
  /\ UNCHANGED <<local, uploaded, server, net, reply, history, budget>>

(* Mutant of OnRefused: a refused operation is dropped from the queue. *)
OnRefusedDrops ==
  /\ Received({"refused"})
  /\ DeleteOp(drainer.op)
  /\ drainer' = [drainer EXCEPT !.at = "picking"]
  /\ UNCHANGED <<local, cursor, pulls, uploaded, server, net, reply, history, budget>>

(* Mutant of OnRefused: a failed transition blocks nothing. *)
OnRefusedUnblocking ==
  /\ Received({"refused"})
  /\ SetOpStatus(drainer.op, "FAILED", Capped(drainer.tries + 1))
  /\ drainer' = [drainer EXCEPT !.at = "picking"]
  /\ UNCHANGED <<local, cursor, pulls, uploaded, server, net, reply, history, budget>>

(* Other 4xx: FAILED; a failed blocking operation blocks its work order. *)
OnRefused ==
  /\ Received({"refused"})
  /\ SetOpStatus(drainer.op, "FAILED", Capped(drainer.tries + 1))
  /\ drainer' = [drainer EXCEPT
       !.at = "picking",
       !.blocked = IF Additive(drainer.op) THEN @ ELSE @ \cup {Wo(drainer.op)}]
  /\ UNCHANGED <<local, cursor, pulls, uploaded, server, net, reply, history, budget>>

StopDraining ==
  /\ SetOpStatus(drainer.op, "PENDING", Capped(drainer.tries + 1))
  /\ drainer' = [drainer EXCEPT !.at = "closing"]
  /\ UNCHANGED <<local, cursor, pulls, uploaded, server, net, reply, history>>

(* 5xx, or 409 IDEMPOTENCY_IN_PROGRESS: the drain stops. *)
OnUnavailable ==
  /\ Received({"unavailable", "inProgress"})
  /\ StopDraining
  /\ UNCHANGED budget

(* No answer within timeoutMs, or no network: the request may still be     *)
(* under way, or its answer lost.                                          *)
TimeOut ==
  /\ drainer.at = "waiting"
  /\ Spend("failures")
  /\ StopDraining

FinishDrain ==
  /\ drainer.at = "picking"
  /\ Sendable = {}
  /\ drainer' = [drainer EXCEPT !.at = "closing"]
  /\ UNCHANGED <<queue, local, cursor, pulls, uploaded, server, net, reply, history, budget>>

FinalPull ==
  /\ drainer.at = "closing"
  /\ StoreCursor("drain")
  /\ drainer' = Idle
  /\ UNCHANGED <<queue, local, uploaded, server, net, reply, history, budget>>

(* A pull of the drain throws: the sync ends where it is.  The app is      *)
(* killed: both pulls end too.  An IN_FLIGHT row stays so until the next   *)
(* drain.                                                                  *)
Abort ==
  /\ drainer.at # "idle"
  /\ Spend("failures")
  /\ drainer' = Idle
  /\ \/ pulls' = [p \in Puller |-> NoPull]
     \/ pulls' = [pulls EXCEPT !["drain"] = NoPull]
  /\ UNCHANGED <<queue, local, cursor, uploaded, server, net, reply, history>>

(* backgroundPull catches what its pull throws: no page, or half of one. *)
BackgroundPullFails ==
  /\ pulls["background"] # NoPull
  /\ Spend("failures")
  /\ pulls' = [pulls EXCEPT !["background"] = NoPull]
  /\ UNCHANGED <<queue, local, cursor, drainer, uploaded, server, net, reply, history>>

-----------------------------------------------------------------------------
(* The backend: the idempotency interceptor around the handler. *)

(* q is answered; only the request the drain waits for is heard. *)
Answer(q, kind, v) ==
  /\ net' = net \ {q}
  /\ reply' = IF drainer.at = "waiting" /\ drainer.op = q.op /\ drainer.n = q.n
              THEN [kind |-> kind, version |-> v] ELSE reply
  /\ UNCHANGED <<phone, gone, conflicts, putBack>>

Runs(i) == \E q \in net : q.op = i /\ q.running

(* Mutant of Accept: requests are not told apart by their key. *)
AcceptUnkeyed(q) ==
  /\ q \in net /\ ~q.running
  /\ keyRow' = [keyRow EXCEPT ![q.op] = [state |-> "IN_PROGRESS", expected |-> q.expected, version |-> 0]]
  /\ net' = (net \ {q}) \cup {[q EXCEPT !.running = TRUE]}
  /\ UNCHANGED <<phone, history, reply, version, applied, budget>>

(* begin(): claim the key, or answer from its row; a claim over two minutes *)
(* old is taken over, whether its request runs or died.  The request hash   *)
(* of an operation varies with expectedUpdatedAt only.                      *)
Accept(q) ==
  LET known == keyRow[q.op] IN
  /\ q \in net /\ ~q.running
  /\ \/ /\ known = NoRow \/ (known.state = "STALE" /\ known.expected = q.expected)
        /\ keyRow' = [keyRow EXCEPT ![q.op] =
                        [state |-> "IN_PROGRESS", expected |-> q.expected, version |-> 0]]
        /\ net' = (net \ {q}) \cup {[q EXCEPT !.running = TRUE]}
        /\ unguarded' = IF Runs(q.op) THEN unguarded \cup {q.op} ELSE unguarded
        /\ UNCHANGED <<phone, gone, conflicts, putBack, reply>>
     \/ /\ known # NoRow
        /\ known.expected # q.expected
        /\ Answer(q, "refused", 0)
        /\ UNCHANGED <<keyRow, unguarded>>
     \/ /\ known.state = "DONE"
        /\ known.expected = q.expected
        /\ Answer(q, "ok", known.version)
        /\ UNCHANGED <<keyRow, unguarded>>
     \/ /\ known.state = "IN_PROGRESS"
        /\ known.expected = q.expected
        /\ Answer(q, "inProgress", 0)
        /\ UNCHANGED <<keyRow, unguarded>>
  /\ UNCHANGED <<version, applied, budget>>

UpToDate(q) == q.expected \in {Unlocked, version[Wo(q.op)]}

(* The handler's transaction commits. *)
TakeEffect(q) ==
  /\ q \in net /\ q.running
  /\ UpToDate(q)
  /\ version' = [version EXCEPT ![Wo(q.op)] = Clock + 1]
  /\ applied' = [applied EXCEPT ![q.op] = @ + 1]

(* complete() stores the response of the handler. *)
Commit(q) ==
  /\ TakeEffect(q)
  /\ keyRow[q.op] # NoRow
  /\ keyRow' = [keyRow EXCEPT ![q.op] = [@ EXCEPT !.state = "DONE", !.version = Clock + 1]]
  /\ Answer(q, "ok", Clock + 1)
  /\ UNCHANGED <<unguarded, budget>>

Release(q) == keyRow' = [keyRow EXCEPT ![q.op] = NoRow]

(* complete() throws, having no row to write or no database: release()     *)
(* drops the claim.  Or the process dies before it: the claim stays.       *)
CommitUnrecorded(q) ==
  /\ TakeEffect(q)
  /\ \/ keyRow[q.op] = NoRow /\ UNCHANGED <<keyRow, budget>>
     \/ Spend("failures") /\ (Release(q) \/ UNCHANGED keyRow)
  /\ unguarded' = unguarded \cup {q.op}
  /\ Answer(q, "unavailable", 0)

(* The handler throws; release() drops the claim, or fails to.  A process  *)
(* that dies drops none.                                                   *)
Reject(q) ==
  /\ q \in net /\ q.running
  /\ \/ /\ (~UpToDate(q) /\ Answer(q, "conflict", 0)) \/ Answer(q, "refused", 0)
        /\ Release(q) /\ UNCHANGED budget
     \/ /\ Answer(q, "unavailable", 0)
        /\ Spend("failures")
        /\ Release(q) \/ UNCHANGED keyRow
  /\ UNCHANGED <<version, applied, unguarded>>

(* Two minutes after createdAt a claim is stale. *)
GrowStale(i) ==
  /\ keyRow[i].state = "IN_PROGRESS"
  /\ IF Runs(i) THEN Spend("ages") ELSE UNCHANGED budget
  /\ keyRow' = [keyRow EXCEPT ![i].state = "STALE"]
  /\ UNCHANGED <<phone, history, version, applied, net, reply>>

(* cleanup(): 48 hours after createdAt the row goes, whatever its status.   *)
(* No request runs that long.                                              *)
Purge(i) ==
  /\ keyRow[i] # NoRow
  /\ ~Runs(i)
  /\ Spend("ages")
  /\ keyRow' = [keyRow EXCEPT ![i] = NoRow]
  /\ unguarded' = IF keyRow[i].state = "DONE" THEN unguarded \cup {i} ELSE unguarded
  /\ UNCHANGED <<phone, gone, conflicts, putBack, version, applied, net, reply>>

(* A request the phone gave up on never reaches the backend. *)
Lose(q) ==
  /\ q \in net /\ ~q.running
  /\ ~(drainer.at = "waiting" /\ drainer.op = q.op /\ drainer.n = q.n)
  /\ net' = net \ {q}
  /\ UNCHANGED <<phone, server, history, reply, budget>>

(* A dispatcher changes the work order. *)
Touch(w) ==
  /\ Spend("touches")
  /\ version' = [version EXCEPT ![w] = Clock + 1]
  /\ UNCHANGED <<phone, keyRow, applied, net, reply, history>>

-----------------------------------------------------------------------------
DrainStep ==
  \/ SendNext
  \/ Resend
  \/ OnSuccess
  \/ Settle
  \/ OnLockConflict
  \/ RetryAfterConflict
  \/ StopInConflict
  \/ OnRefused
  \/ OnUnavailable
  \/ FinishDrain
  \/ FinalPull
  \/ PullStep("drain")

UserStep ==
  \/ \E i \in Op, w \in WorkOrder, k \in Kinds : Enqueue(i, w, k)
  \/ \E i \in Op : RetryOp(i)
  \/ \E i \in Op : DiscardOp(i)

Begin(i) == \E q \in net : q.op = i /\ Accept(q)

Finish(i) == \E q \in net : q.op = i /\ (Commit(q) \/ CommitUnrecorded(q) \/ Reject(q))

Next ==
  \/ UserStep
  \/ StartDrain
  \/ DrainStep
  \/ TimeOut
  \/ Abort
  \/ BackgroundPull
  \/ BackgroundPullFails
  \/ \E i \in Op : Begin(i) \/ Finish(i) \/ GrowStale(i) \/ Purge(i)
  \/ \E q \in net : Lose(q)
  \/ \E w \in WorkOrder : Touch(w)

Spec == Init /\ [][Next]_vars

(* The scheduler of useSync triggers drains, awaits settle, the backend     *)
(* answers what reaches it, and a claim grows old.                          *)
FairSpec ==
  /\ Spec
  /\ WF_vars(StartDrain)
  /\ WF_vars(DrainStep)
  /\ \A i \in Op : WF_vars(Begin(i)) /\ WF_vars(Finish(i)) /\ WF_vars(GrowStale(i))

-----------------------------------------------------------------------------
Request == [op: Op, n: Nat, running: BOOLEAN, expected: Nat]

TypeOK ==
  /\ \A i \in Op : \/ queue[i] = NoOp
                   \/ queue[i] \in [kind: Kinds, wo: WorkOrder, status: Queued \cup {"GONE"},
                                    attempts: 0..MAX_ADDITIVE_RETRIES]
  /\ local \in [WorkOrder -> Nat]
  /\ cursor \in Nat
  /\ pulls \in [Puller -> [at: {"none", "asked", "applying"}, since: Nat,
                           rows: [WorkOrder -> Nat], cursor: Nat]]
  /\ drainer \in [at: {"idle", "picking", "waiting", "settling", "pulling", "retrying", "closing"},
                  op: Nat, n: Nat, tries: 0..MAX_ADDITIVE_RETRIES, todo: SUBSET Op,
                  blocked: SUBSET WorkOrder]
  /\ drainer.at \in {"waiting", "settling", "pulling", "retrying"} => drainer.op \in Op
  /\ uploaded \subseteq Op
  /\ version \in [WorkOrder -> Nat]
  /\ keyRow \in [Op -> [state: {"ABSENT", "IN_PROGRESS", "STALE", "DONE"}, expected: Nat, version: Nat]]
  /\ applied \in [Op -> Nat]
  /\ net \subseteq Request
  /\ reply \in [kind: {"none", "ok", "conflict", "refused", "unavailable", "inProgress"}, version: Nat]
  /\ gone \subseteq Op
  /\ conflicts \in [Op -> 0..MAX_ADDITIVE_RETRIES]
  /\ unguarded \subseteq Op
  /\ putBack \subseteq WorkOrder
  /\ budget \in [failures: 0..MaxFailures, ages: 0..MaxAges, touches: 0..MaxTouches,
                 retries: 0..MaxRetries, pulls: 0..MaxPulls]

(* However often timeouts, killed apps and the retry button send it again, *)
(* an operation takes effect at most once: unless its response was not     *)
(* recorded, its row was purged after 48 hours, or its claim was taken     *)
(* over while its first request still ran.                                 *)
AppliedAtMostOnce == \A i \in Op \ unguarded : applied[i] <= 1

(* What the technician did is not lost: an operation leaves the queue only *)
(* once it took effect or when the technician discards it.                 *)
NothingLost == \A i \in Op : Status(i) = "GONE" => applied[i] > 0 \/ i \in gone

(* A transition or part removal holds back the later operations of its     *)
(* work order (BLOCKING_KINDS): none takes effect before it did, or was    *)
(* discarded.                                                              *)
InOrder ==
  \A i, j \in Op :
    i < j /\ Wo(i) = Wo(j) /\ Kind(i) \in BLOCKING_KINDS /\ applied[j] > 0
      => applied[i] > 0 \/ i \in gone

(* An operation that took effect is not presented as failed. *)
AppliedIsNotFailed == \A i \in Op : applied[i] > 0 => Status(i) # "FAILED"

(* No request failed, and no claim grew old. *)
NothingFailed == budget.failures = MaxFailures /\ budget.ages = MaxAges

(* As long as nobody else changes the work orders, feed-forward keeps the  *)
(* queue from conflicting with itself: unless a background pull put an     *)
(* updatedAt back, its page being older than the answer the drain has fed  *)
(* forward since; a failure may do so too, by the response to a replay.    *)
NoSelfConflict ==
  NothingFailed /\ budget.touches = MaxTouches /\ putBack = {}
    => \A i \in Op : Status(i) # "CONFLICT"

(* A drain retries an additive operation a bounded number of times, and    *)
(* stops it in CONFLICT only after every attempt met a 409, each against a *)
(* fresh updatedAt, as long as no request failed: a failure counts as an   *)
(* attempt too.                                                            *)
AdditiveIsRetried ==
  /\ drainer.at = "retrying" => drainer.tries < MAX_ADDITIVE_RETRIES
  /\ NothingFailed =>
       \A i \in Op : Status(i) = "CONFLICT" /\ Additive(i) => conflicts[i] = MAX_ADDITIVE_RETRIES

(* A transition or part removal that met a 409 is not replayed blindly: it *)
(* takes effect only after the technician applied it again, as long as no  *)
(* pull failed on the way to CONFLICT.                                     *)
ConsentBeforeReplay ==
  NothingFailed => \A i \in Op : ~Additive(i) /\ conflicts[i] > 0 => applied[i] = 0

(* Nothing waits for ever: a queued operation takes effect, or ends in a   *)
(* state the sync screen shows, or stands behind one that did.             *)
QueueSettles ==
  \A i \in Op :
    []<>(Status(i) \in {"PENDING", "IN_FLIGHT"} => \E j \in Op : Blocks(j) /\ Wo(j) = Wo(i))
=============================================================================
