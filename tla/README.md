# Verification of Gestionnaire-de-bon-de-travail

TLA+ models of the work-order manager: a NestJS/Prisma backend, a React web
application, and an Expo application for technicians that works offline. The
models follow `src/`; every definition names the lines it stands for in
`PROJECT.json` ("map").

Two parts are modelled. The first is the path of a technician's action: it is
queued on the phone, sent under an Idempotency-Key with an optimistic lock,
executed on the backend, and what others do comes back by a delta pull. That
path crosses two programs, a network and two databases. The second is the
backend around it, where handlers, transactions and cron sweeps read a row,
decide, and write it later: the life of a work order, stock, sessions, and the
four sweeps (recurring work orders, webhooks, reminders, SLA).

## 1. The system

### Components, their state and operations

| Component | Where | State | Operations |
|---|---|---|---|
| Idempotency keys | `backend/.../common/interceptors/idempotency.interceptor.ts`, `mobile/application/idempotency` | `idempotency_keys` rows, unique per (tenant, user, key): hash, IN_PROGRESS or DONE, stored answer, `created_at` | begin, complete, release, nightly cleanup |
| Offline queue | `mobile/src/sync/{queue,drain,sync.store,senders,useSync}.ts` | SQLite `sync_queue`: seq, kind, status, attempts; the running drain's locals | enqueue, drain, retry, discard, drop a queued part |
| Delta pull | `mobile/application/sync/sync.service.ts`, `mobile.repository.ts`; `mobile/src/sync/apply-pull.ts` | server: work orders with `updatedAt`; phone: `work_orders`, `meta` (cursor) | pull a page, apply it, full resync; from the foreground and from a background task |
| Work orders, process engine | `work-orders/`, `process/` | status, current step, assignment, template data, signatures, `updatedAt` | create, update, transition, assign and dispatch, sign, note |
| Parts and stock | `parts/` | warehouse and truck quantities, movements | receive, adjust, transfer, use, revert |
| Sessions | `auth/`, `mobile/src/api/client.ts` | refresh-token families | login, rotate, revoke, clean up |
| Sweeps | `reminders/`, `recurring/`, `work-orders/sla-check.service.ts` | rows with a due time and a status | claim, act, mark |
| Webhooks | `webhooks/` | deliveries, endpoints with a failure count | fan out, claim, deliver, back off, disable |
| Quotas | `tenants/application/quota*.ts` | counters per tenant | consume, release, monthly reset |
| Positions | `mobile/src/gps`, `locations/` | buffered fixes, batches | record, send, retain |
| The rest | notifications, alerts, audit, attachments, clients, calendar, dispatch map, addresses, billing, portal, reports, settings, users, backup, web interface | mostly independent rows | CRUD, reads, best-effort fan-out |

`PROJECT.json` lists them all with their files and the reason when one is not
modelled.

### How they interact

* The phone calls the backend over HTTP. Each queued operation carries its id
  as `Idempotency-Key`; transitions, signatures and template fields also carry
  `expectedUpdatedAt`, read from the local `work_orders` table at every send.
* The interceptor wraps all seven handlers the queue uses. The handler's answer
  carries the work order's new `updatedAt`, which the drain writes into the
  local table for the next operation (feed-forward).
* A pull reads what others changed and overwrites the local table. `pullNow` is
  single-flight (drain, then pull); the background task pulls outside it.
* On the backend, services emit in-process events (notifications, alerts,
  audit, webhooks) after they commit; cron sweeps act on due rows.

### What is hard

Lost answers and retries; a phone killed between any two awaits; a backend
killed between a claim and its end; requests the phone gave up on that commit
later; screens that change the queue while a drain iterates over a snapshot of
it; two readers of one row before either writes (optimistic locks, stock,
token rotation, sweeps on several instances); cursors over `updatedAt`.
`PROJECT.json` ("hazards") lists them at their lines, with the properties that
cover them or the reason why none does.

### What would make each component correct

* Idempotency: one execution per key; a claim excludes; a replay is the answer
  of the same request; no success without a commit; every request is answered.
* Queue: nothing applied twice, lost, or applied ahead of a transition it
  follows; conflicts decided by the technician when they must be; no waiting
  for ever.
* Pull: whatever the cursor has passed is on the phone; once changes stop the
  list is the visible set.
* Work orders: status and current step agree; a work order carries what its
  status requires; what is offered is accepted; technicians act on open work of
  their own; an edit keeps what it does not name.
* Stock: quantities equal the sum of movements and never go below zero; a part
  is used and given back once; one alert per crossing.
* Sessions: one live token per family; no client signed out by its own
  rotation, none left on a dead token; no session survives a deactivation.
* Sweeps and webhooks: each due row handled once per occurrence, in order, none
  stuck; the next run is the next date of the calendar.
* Positions: no fix lost between the phone and the end of its retention; nothing
  is collected that consent, permission and work do not allow.
* Quotas: the counter is the number of resources (not modelled).

## 2. Modules

| Module | Role |
|---|---|
| `IdempotencyKeys` | requests as processes over the key rows, one await per step |
| `ReplaySafety` | what the protocol promises: the operation behind a key takes effect once and its answer is given again |
| `IdempotencyRefinement` | `IdempotencyKeys` implements `ReplaySafety` (refinement mapping) |
| `OfflineQueue` | phone queue, drain and screens, with the backend's contracts and the network |
| `DeltaPull` | the pull protocol, backend queries and phone statements apart |
| `WorkOrders` | the handlers over a work order row: engine, legacy path, assign-and-dispatch, update, signatures and notes, backfill |
| `Stock` | the transactions of `StockService` over one part |
| `Sessions` | refresh-token rotation, the phone's client, the browser's tabs, revocations |
| `Schedule` | the arithmetic of recurring dates, and a reference definition of the next occurrence |
| `RecurringSpawner` | one recurring row, its edits, the sweep that spawns from it |
| `WebhookDispatch` | deliveries to one endpoint, the dispatcher, the administrator |
| `Reminders` | reminders of one work order, the dispatcher's replicas |
| `SlaCheck` | the SLA scan while work orders change |
| `Positions` | the phone's tracker, consent, the buffer of fixes and its flush, the batch endpoint, retention |
| `IdempotencyProofs`, `OfflineQueueProofs`, `DeltaPullProofs`, `WorkOrdersProofs`, `StockProofs`, `SessionsProofs`, `PositionsProofs`, `SweepProofs` | theorems about the modules above, checked by TLAPS (section 4); `SweepProofs` has those about the four sweeps |
| `MC*` | the modules TLC instantiates; `MCSweeps` composes the four sweeps, `MCPhone` the pull and the positions |

`OfflineQueue` composes with the two others by contract: `Accept`, `Commit`,
`CommitUnrecorded`, `Reject`, `GrowStale` and `Purge` are the outcomes
`IdempotencyKeys` gives to the requests of one operation (claim, 422 on another
hash, 409 in progress, stored answer, release, takeover of a stale claim, a
response that is not recorded, the purge after 48 hours), and its pulls are
those of `DeltaPull` with a single page. The database transaction of a handler
is atomic in both. `RecurringSpawner` extends
`Schedule` and calls its functions. In `MCSweeps` a behaviour runs one sweep
(`active`): they share no row, so interleaving them adds nothing. `MCPhone` does
the same with `DeltaPull` and `Positions`.

### IdempotencyKeys

`Request` are HTTP requests, first sends and retries alike. `pc[r]` is the await
request `r` stands at: `reading` after the P2002 of the INSERT, `takingOver`
before the UPDATE of a stale row, `running` in the handler, `completing`,
`releasing`. `row[k]` carries the id it was inserted with, since the takeover
updates by id and complete/release go by key. Time is `age`: fresh, stale
(over two minutes), expired (over 48 hours). `Faults` selects what may go wrong,
so that each property is stated under the faults it tolerates: `crash`,
`complete` (the UPDATE rejects), `release` (the DELETE rejects), `slow` (a
handler outlives the two minutes), `ttl`.

### OfflineQueue

`queue[i]` is the row with seq `i`. `drainer` holds the locals of the running
drain: where it is (`waiting` for an answer, `settling` between `bumpLocal` and
`deleteOp`, `pulling` after a 409, `retrying`, `closing` for the last pull), the
snapshot left (`todo`), the blocked work orders. `net` are the requests under
way, each with the `expectedUpdatedAt` it was sent with; a request the drain no
longer waits for may still be served (`Accept`, `Commit`) or disappear
(`Lose`). `keyRow`, `version` and `applied` are the server. `Clock` stands for
time: each change gets the next instant, so `updatedAt` values are distinct.

`pulls[p]` is the pull of the drain, after a 409 and at its end, and that of the
background task, which waits for no drain: the page is asked for with the stored
cursor (`AskPage`), served as the rows are at that moment (`ServePage`), written
row by row (`UpsertRow`), and the cursor stored last (`StoreCursor`). Between any
two of these the drain may send an operation and feed its answer forward.

The handler's commit and the recording of its response are apart where they fail
(`CommitUnrecorded`); a claim that outlives two minutes may be taken over, and a
row is purged after 48 hours, whatever the phone still has to send.

History variables that only properties read: `conflicts` and `gone`;
`unguarded`, the operations whose key row no longer tells what their requests did
(response unrecorded, row purged, claim taken over while its request ran);
`putBack`, the work orders whose `updatedAt` a background page took backwards.

Not in this module: a work order that leaves the visible set (its local row is
deleted and the next send carries no lock), several technicians, positions,
payloads. A lock check and its commit are one step (`WorkOrders` has them apart).

### DeltaPull

`pull[p]` is the pull of puller `p`: the request (`from`, `full`), what the two
queries of one `Promise.all` read (`ids`, `rows`), and how far `applyPull` got.
A page's upserts are one step, and so is the deletion: one puller's statements
within each touch rows no other step distinguishes except another puller's,
which can fall between the steps. `Change` updates any set of rows at one
instant (a bulk edit), so that equal `updatedAt` values occur, and it may fall
between the two queries of a pull, which see different moments then. `horizon` is
the age limit of cursors.

Two history variables name what these races cost. `raced` has the rows that came
into view after a pull had read the ids and before it read its page: the page
brings such a row, `applyPull` deletes it because its id is not among the visible
ones, and the cursor has passed it; it comes back when it changes again.
`crossed` is set where one pull starts during another, whose older page may then
be written after the newer one, and cleared by the next full resync that a pull
makes alone.

### WorkOrders

`row[w]` holds the columns the handlers decide on: `status` (the legacy enum),
`currentStep` and `hasProcess`, `assignedTo`, the three dates as set or not,
notes and reason as given or not, the template fields filled. `call[u]` is the
handler at work for user `u`: every handler reads the row, checks, computes the
columns to set, and updates by id. Its action (`executeTransition`,
`legacyTransition`, `assignAndDispatch`, `reassign`, `update`, `touch`) is the
read with all its checks and early returns; `Write(u)` is the update. The legacy
path reads twice, with the lock check in front: `legacyCheckLock` then
`legacyTransition`. `backfillWorkOrders` is the boot-time linking of rows to the
process. `EngineOffers` and `LegacyOffers` are what the screens show
(`getAvailableTransitions`). `past[w]` is a history variable: `forced` after an
administrator's bypass, a reassignment, or an office edit of managed columns,
`raced` after a write fell on a row changed since its read, `legacy` for rows
born without process. Properties name in `past` what they except, so that each
says which step loses the guarantee.

### Stock

`tx[a]` is the transaction of actor `a`: the changes left to make (the place
given up first, as in the code), what the current change has read, the places
written and thereby locked. `ReadQuantity` reads the committed value or the
transaction's own write and computes the new one; `WriteQuantity` writes it as an
absolute value and waits for the row lock; `Commit` publishes the writes, books
the movements and the work order's part row. `Refused` is a constraint, a missing
row or a deadlock the database breaks, `Fail` anything else: both roll back whole. `lost` records the
places where a write fell on a value it had not read, `alerted` whether
`stock.low` was emitted since the warehouse fell below the minimum.

### Sessions

`token` is the table of refresh tokens in order of issue, `request` the calls of
`/auth/refresh`, each at a statement of `rotate` (`Lookup`, `RevokeFamily`,
`RevokeOld`, `Issue`). A login is two steps: its checks (`checkLogin`), and after
the password is compared the tokens it issues (`login`). The phone keeps one token
in its key store behind a single flight; the tabs of the browser share one in local
storage, each with its own auth store and its own flight, and may impersonate.
`deactivate` and `FinishDeactivation` are the two statements of a deactivation;
`CutDeactivation` is what dies or fails in between, and leaves the account
`unfinished`: inactive, its tokens alive. `late` marks a token issued by a login or
a rotation that had passed its checks before a revocation, `outlived` a refresh
whose client logged out while it was under way. A rotated token keeps the client
of the old one; in the code the device comes from a header that a refresh does
not send, which decides only whether a later revocation of the device finds it.

### Schedule and RecurringSpawner

Dates are days from Sunday 1 January 2023, so that week and leap-year arithmetic (every fourth year, as until 2100)
are exact; the time of day is left out. `advance`, `alignToPattern` and
`withDay` follow the code, `Safety` is its limit on advances.
`IsNextOccurrence` is the reference: the first date the pattern describes,
counted from the current run, that is after `now`.
`RecurringSpawner` splits a sweep as the code does: select the due row
(`ReadDue`), set the next run by id (`AdvanceRow`), create the work order
(`CreateWorkOrder`). So it splits an edit: the next run is computed from the
edited pattern and dates (`ReadToUpdate`) and written by id later (`update`), with
sweeps in between. Pausing and removing are edits of `isActive` (`Pause`). `missed`
has the occurrences whose creation failed; `overlap` tells whether sweeps of two
replicas held the row at once, or an edit was written that a sweep's update had
overtaken since its computation.

### WebhookDispatch, Reminders, SlaCheck

A *sending* is one worker of a sweep with the delivery it claimed, between the
POST, the row's update and the update of the endpoint's failure count. Claims
are conditional updates and exclude; a retry by hand reads (`ReadToRetry`) and
updates (`retryDelivery`) apart. `receiver` records what the endpoint answered,
at the POST itself, and which accepted deliveries it was sent again; its
`unwritten` are those whose acceptance a crash or a failed statement kept from the
row. `orphan` and `raced` record what crashes and such retries did.

`dispatcher[p]` is the sweep of replica `p` over the reminders it claimed; the
channels that work are chosen at each sending; `cancel` too is a read and an
update. `stranded` records what faults left behind.

`scan[p]` is the list a scan read and works through, an update by id and an
event for each. Scans are not processes: this sweep has no flag like those of the
three others, so one may start while another runs, in the same backend too.
`relisted` has the work orders a scan listed while another had them still to
update.

### Positions

`tracker` holds the module's `current` and `foregroundSub` (`held`) beside what
really runs: the number of `watches` and the system's `task`. `apply[c]` is a
call of `applyTracking` at its await: `asking` whether the task has started,
`stopping` it, `starting` anew. `due` says that the effect of `useGpsController`
is to run. `optedIn` is the server's consent and `gps` the phone's view of it,
which the profile's switch (`toggling`), `useProfileRefresh` and a 403 change.
`flush` is the one flush under way: its step, its batch and the call a 403 made
it start. `positions` are the rows on the server; fixes are numbered by their
instant, and `old` ones are past the seven days.


## 3. Runs

All bounds are small; each was chosen so that the case the property is about
happens (every property has a mutant of the code that the same run refutes).

| Run | Checks | Bounds |
|---|---|---|
| `idempotency_faultless` | `TypeOK`, `ExclusiveClaim`, `AtMostOnce`, `FaithfulReplay`, `AcknowledgedIsRecorded`, `ImplementsReplaySafety`, `EveryRequestAnswered` (fair) | 3 requests, 2 keys, 2 hashes, no fault |
| `idempotency_worst` | `NoPhantomSuccess` | 3 requests, 2 keys, 2 hashes, every fault |
| `queue` | `AppliedAtMostOnce`, `NothingLost`, `InOrder`, `NoSelfConflict`, `AdditiveIsRetried`, `ConsentBeforeReplay` | 1 work order, 4 of the 7 kinds, 2 operations; 1 failure, 1 purge or stale claim, 2 changes by others, 1 use of retry, 1 background pull, together 3 of them, the pull counting twice; 2 retries of additive operations (3 in the code) |
| `queue_settles` | `QueueSettles` (fair) | transitions and attachments, 2 operations, 1 failure, 1 purge or stale claim, 1 change, 1 retry |
| `phone` | `NothingBehindCursor`, `ListCatchesUp` (fair); `FixesAreKept`, `TrackingFollowsDecision` | pull: 3 work orders, pages of 1 row, 2 changes (each of any set of rows) or a change and an interruption, 1 ageing; two pullers at once: 2 work orders, 1 change, 1 ageing; positions: 2 fixes, batches of 1 (100), 2 calls of `applyTracking` at a time, 4 changes by the technician, his work or time, 1 trouble |
| `work_orders` | `StatusMatchesStep`, `ExecutionIsRecorded`, `OfferedIsAccepted`, `TechniciansActOnOpenWork` | 1 work order, with and without process, 2 technicians (symmetric), administrator, dispatcher, portal; 2 handlers at a time; no template field |
| `stock` | `TypeOK`, `QuantityIsJournal`, `UsageIsOnWorkOrders`, `OneAlertPerCrossing`, `TransactionsEnd` (fair) | 1 truck, 2 clerks and a technician, 1 part row, minimum 2, quantities up to 2, 2 open transactions |
| `sessions` | `PhoneStaysSignedIn`, `OneLiveToken`, `DeactivationEndsSessions`, `DeadTokenIsDropped` (fair) | 3 tokens; the phone beside a tab, 2 administrative events, 1 failure; 2 tabs, 1 event or 1 failure |
| `sweeps` | `OneWorkOrderPerOccurrence`, `NextRunIsNextOccurrence`, `DueIsSpawned` (fair); `SuccessIsFinal`, `DeliveriesEnd` (fair); `SentOnce`, `RemindersEnd` (fair); `BreachIsAnnouncedOnce` | below |
| `queue_lost_answer`, `recurring_short_month`, `work_orders_template` | violations, section 5 | the fewest that show them |

Idempotency, queue, pull. Two operations suffice for order and blocking, which
relate an operation to an earlier one; three requests suffice for exclusion
after a takeover (the dead one and two retries). Of the seven kinds the drain
treats a note like a part added, which can also be dropped, and template fields
like a signature; an attachment is a note with a file, which `queue_settles` has,
so `queue` has the four others. One failure already gives a
lost answer, a killed app or a failed pull at any await, and one purge or stale
claim the replay of what was done. With two additive
retries, two changes by others use up the retries and leave a conflict;
`queue_settles` has the code's three. `MaxDisturbances` bounds what happens together, by an action constraint:
three are a lost answer with a purge or a takeover and the retry after it, or a
background pull, whose steps interleave with all others, with one thing more. The
last three properties of `queue` are stated as
long as nothing has failed, for a failure breaks them (section 5); the others
hold under the failures. Pages of one row make every change of the list cross a
page boundary. In `phone` one puller works with changes and interruptions, or two
overlap at every step with two work orders and one change, which puts an older
page behind a newer cursor. `ListCatchesUp` is claimed once cursors no longer age:
each ageing may send a pull back to its first page.

Positions. Two fixes and batches of one make a flush of several batches and a fix
captured during a flush; two calls are an overlap; four changes are consent,
permission, an active work order and one change back; one trouble is a restart,
a refused stop or start, a lost answer or a refused batch.

`work_orders`: two handlers are what a race needs, and every handler, role and
row may be one of them; the states of the row are all reached. Template fields
are independent of the rest and have their own run.

`stock`: two transactions give lost updates, opposite transfers and double
removals; the minimum lies inside the range of quantities, so both crossings
happen. After a lost update transactions run one at a time, which keeps the
quantities in their bounds without hiding a race that the lost one does not
already show.

`sessions`: a behaviour follows one of three scenarios, the phone beside the
browser, or two tabs that share the browser's local storage, with an event or with
a failure. Three tokens give a login, a rotation and one more (a second family
or a second rotation); `OneLiveToken` and `PhoneStaysSignedIn` are about the
phone while no administrator, expiration or failure intervenes. An event and a
failure are a deactivation cut off; two events, one that comes to its end after it.

`sweeps`: the recurring part starts on 27 January (day 26), is created on 25 February
(day 55) and runs to 1 March, across the end of a short month, with every
frequency, intervals of 1 and 2, weekdays Sunday and Wednesday, no list of days or
the 1st and the 15th, no end date or 28 February, one edit or pause, one missed
creation, and sweeps any number of days late; `Safety` is 40 (1000 in the code),
more than any catch-up needs here. Webhooks: 1 delivery, 2 attempts (6), a
failure limit of 2 (15), two administrator's acts and one crash: a retry by hand
after a crash, or two failures that disable the endpoint and a re-enabling.
Reminders: 2 reminders, 2 replicas, 2 channels, one fault. SLA: 3 work orders and
batches of 2, 2 scans at once, 2 closings or reopenings, one death or failed update.
The recurring sweep has one replica: the property excepts two that hold the row at
once, and the theorem is about any number.

`CHECK_DEADLOCK FALSE` is in the configurations of `MCIdempotency`,
`MCSessions` and `MCSweeps`, where bounded events run out (a request has its
answer, tokens and days are used up) and nothing is left to do; the others never
stop, since a drain, a pull, a creation or a transaction may always start.

Fairness. `IdempotencyKeys`: an await of a live process settles, so every
enabled `Serve(r)` is eventually taken; crashes, retries and ageing are never
owed. `OfflineQueue`: `useSyncScheduler` pulls every two minutes and on
reconnection (`StartDrain`), the drain's awaits settle, because `fetch` has a
timeout (`DrainStep`), the backend answers what reaches it (`Begin`,
`Finish`), and a claim left behind grows older than two minutes (`GrowStale`).
`DeltaPull`: a puller keeps pulling and its awaits settle. `Stock`:
statements return (weak fairness of `ReadQuantity`), and the lock queue is first
in first out with deadlocks broken, so a write that is enabled again and again
is taken (strong fairness of `WriteQuantity`, `Commit`, `Refused`). `Sessions`:
statements return, answers arrive or are lost, a client that goes on calling
meets a 401 again (`Refresh`), the banner ends an impersonation. Sweeps: the
crons recur, every 30 seconds to 15 minutes, and their awaits settle
(`Spawns`, `claim`, `deliverOne`, `Sweeps`). `Positions` has none. No fairness on users, on
failures, on administrators or on the network's losses.

## 4. Proofs

Eight modules hold theorems, checked by TLAPS for every value of the constants:
any number of requests, operations, work orders, tokens, rows, replicas, and any
bound. Every property that a passing run checks is the statement of a theorem,
except liveness. The common
argument is an inductive invariant: `Init` gives it, every action keeps it (one
step of the proof per action), and it gives the property. None of the
properties is inductive by itself; what had to be added says why the code is
right. Each invariant was first checked by TLC on the run's instance.

| Module | Theorems | What the invariant adds |
|---|---|---|
| `IdempotencyProofs` | `TypeCorrect`, `ClaimsAreExclusive`, `SuccessIsReal`, `ReplaysAreFaithful`, `EffectsAtMostOnce`, `AcknowledgementsAreRecorded`, `PromiseIsKept` | each claim owns the row it inserted, each row in progress has its owner at work (`ClaimsOwnRows`); a request that completes has executed (`ResponsesAreReal`); stored answers are those of the same key and hash (`ResponsesAreFaithful`); who executed is still completing or its row remembers (`ExecutionsAreHeld`) |
| `OfflineQueueProofs` | `TypeCorrect`, `EffectAtMostOnce`, `NoOperationIsLost`, `OperationsInOrder`, `EveryRetryIsMade`, `NoBlindReplay`, `FeedForward` | the key's row and the requests of an operation agree (`KeyInv`); the drain deletes only what took effect (`LostInv`); what was applied, is on its way or is in the drain's hands has nothing left before it (`OrderInv`); without failures the drain's request is the only one (`CalmInv`), its attempts are the conflicts met (`CountInv`), who met a conflict was not applied (`ConsentInv`), a page is never younger than the server, and the drain pulls only where it waits for its pull (`PagesInv`); the phone knows the version or is about to take it from the answer, and the drain's page brings nothing else (`FedInv`) |
| `DeltaPullProofs` | `NothingIsSkipped` | whatever other pulls do, a page reaches from one cursor to the next without a gap, its ids have its rows but for raced ones, and a later change moves a row past every cursor given out (`Pages`); as long as no two pulls crossed, what the stored cursor or the next one has passed is on the phone (`Aligned`) |
| `WorkOrdersProofs` | `StatusAndStepAgree`, `StatusIsBacked`, `OwnOpenWorkOnly`, `OffersAreKept` | what a handler holds between its read and its update: its patch is one a checked read allows, and is right for the row unless the row has changed since, in which case the call is stale (`CallInv`, `RecordInv`, `OwnInv`); a row without process that has a step was forced there (`ProcessInv`) |
| `StockProofs` | `TypeCorrect`, `JournalIsKept`, `UsageIsKept`, `CrossingsAlertOnce` | the shape of an open transaction (`Good`), one holder per lock (`Exclusive`), each write under way is what the journal will say (`JournalInv`), the part row a transaction adds is nobody else's and the one it removes is given back where it came from (`UsageInv`), an alert given stands for a low warehouse or a write that makes it so (`AlertInv`) |
| `SessionsProofs` | `DeactivationEnds`, `PhoneKeepsItsSession`, `OneTokenAtATime` | rows of tokens only die (`Kept`) and tokens stay with their client (`OwnTokens`); who was past its checks at a revocation issues a late token (`LateInv`); undisturbed, the phone waits for one request; unless it logged out meanwhile, that request's token is the only live one of its family, or none is while it rotates, and it is not rejected (`PhoneInv`, `RotationInv`) |
| `PositionsProofs` | `NoFixIsLost`, `TrackerObeys` | a batch about to be deleted is on the server or too old for it (`RecordedBeforeDeleted`); what runs is what `current` says or what the one call at work is changing (`TrackerInv`) |
| `SweepProofs` | `RemindersGoOutOnce`, `WebhooksAcceptedOnce`, `BreachesAnnouncedOnce`, `OccurrencesSpawnOnce`, `NextRunIsTheNext`, `NoSweepBailsOut` | a claimed row is claimed by no other (`ClaimsExclude`, `OneSending`); what a scan has still to update or announce is neither announced nor on another list, unless it was relisted (`ListIsFresh`); the next run a sweep computes lies after the occurrence it spawns, and an edit sets a later one still (`SweepIsAhead`, `SpawnedIsOver`); what a sweep holds was computed from the row it holds (`SweepComputes`) |

Hypotheses. Beside the assumptions on the constants, which the modules name and
TLC evaluates, a theorem states under what it holds:

* `ClaimsAreExclusive` and `ReplaysAreFaithful`: `Faults \subseteq {"complete",
  "ttl"}`; `EffectsAtMostOnce`, `AcknowledgementsAreRecorded` and the refinement
  `PromiseIsKept`: no fault. The bounds are needed: `crash` refutes exclusion,
  and with `complete` TLC refutes `AtMostOnce` (section 5). The runs show
  exclusion and faithful replays without faults; under `complete` and `ttl` they
  are what the theorems add.
* `OffersAreKept`: there is a technician to assign.

The others have no hypothesis. Where the code has an interleaving that breaks what
it means to guarantee, the property names it by a history variable (`unguarded`,
`putBack`, `raced`, `crossed`, `late`, `outlived`, `overlap`, `unwritten`,
`relisted`, `orphan`, `lost`, `past`), and the theorem says that nothing else does. TLC
refutes the property without the exception (section 5).

The assumptions on constants keep the model's markers apart from its data
(`None` is no request, technician, row or number, `NoDate` is no day), say that
sizes and limits are natural numbers, and take from the code's validation what
it enforces: `RecurringAssumption` is what `validate` of the recurring service
accepts as a pattern, with positive intervals and existing weekdays and days.

Three of the proofs needed lemmas about the operators of the model rather than
about its steps. `UsageIsKept` rests on the sum of a set of rows, a fold over
`CHOOSE`: `SumsExist` and `SumsAgree` show that its recursion has a solution and
does not depend on the order, from which `TotalWithout` says what one row adds.
`OccurrencesSpawnOnce` rests on the calendar: months are in order and cover the
days (`MonthsInOrder`), `advance` and `alignToPattern` never go back, and the
recursion of `computeNextRun`, built level by level over the count of advances,
returns a day after `now` or none (`FromIsLater`). `NextRunIsTheNext` says which:
each pattern is seen as periods (weeks, months) and days in them, in the order
of dates (`PeriodsInOrder`); one advance goes to the next listed day of the
period, or to the first of the period an interval later, and skips none
(`AdvanceIs`, `NextInPeriods`); the alignment finds the first listed day
(`FirstListedIs`); so `computeNextRun` goes from occurrence to occurrence and
stops at the first after `now`, which is what the reference definition names
(`FromIsNext`). Each advance gains a day, so it does not bail out for a row less
than `Safety` days late (`NoSweepBailsOut`, the bound is tight for a daily
schedule). The library's induction theorems take an operator as a parameter, so
the proofs take the least counterexample of a set instead (`NatLeast`, `Least`,
from the well-foundedness of finite subsets).

`PromiseIsKept` is the refinement: with the mapping of `IdempotencyRefinement`
every step of the protocol is a step of `ReplaySafety` or leaves its variables
alone, given the invariants above.

Only model-checked is liveness (`EveryRequestAnswered`, `QueueSettles`,
`ListCatchesUp`, `TransactionsEnd`, `DeadTokenIsDropped`, `DueIsSpawned`,
`DeliveriesEnd`, `RemindersEnd`), since fairness and ENABLED are out of the
prover's reach.

## 5. Where code and documents disagree

Each is a run that TLC refutes; `PROJECT.json` ("findings") quotes the line it
contradicts.

1. `queue_lost_answer`: after a lost answer and a pull, the retry has another
   `expectedUpdatedAt`, so another hash: 422, FAILED, although applied.
2. `recurring_short_month`: a monthly schedule on the 31st that stands on 28
   February cannot advance; `computeNextRun` gives up, and the row stays due for
   ever without spawning.
3. `work_orders_template`: the phone sends changed template fields only, and
   `update` replaces the whole object.

The same models show the following, with other constants or without the
exceptions the properties state. They are weaker, and not kept as runs.

Idempotency, queue, pull:

* `ExclusiveClaim` with `"crash" \in Faults`: two retries take over one stale
  claim. `AtMostOnce` with `"complete" \in Faults`: a failing `complete()`
  releases a claim whose handler committed, and the retry executes again.
* A part dropped from the queue during a drain is sent all the same, from the
  drain's snapshot. A failed pull after a 409 loses the conflict, and the next
  drain replays it without the technician's consent.
* `AppliedIsNotFailed` with attachments: the local file is deleted before the
  row, and after a kill between the two the retry fails for want of the file.
* `AdditiveIsRetried` with two failures: timeouts and conflicts share one count
  of attempts. `NoSelfConflict` with failures: a replayed answer, stored before
  a later operation, takes the local `updatedAt` backwards.
* `AppliedAtMostOnce` without `unguarded`: an operation whose answer was lost is
  executed again when it is sent after the 48-hour purge (a phone offline that
  long), when `complete()` did not record its response, or when a retry takes over
  a claim whose slow handler still runs.
* `NoSelfConflict` without `putBack`: `backgroundPull` is not single-flight with the
  drain. Its page, fetched before an operation committed and written after
  `bumpLocal`, takes `updatedAt` backwards, and the next operation gets a 409 from
  the phone's own write.
* `NothingBehindCursor` without `raced`: a row that comes into view between the two
  queries of a pull is brought, deleted as not visible, and skipped until it
  changes again. Without `crossed`: of two overlapping pulls the older page may be
  written last, and its rows stay old behind the newer cursor.
* `ListCatchesUp` without its clause on ageing: a pull that restarts at its
  first page for ever.

Work orders:

* The optimistic lock compares `updatedAt` after its read and updates by id
  later: two calls with the same `expectedUpdatedAt` can both commit
  (`docs/modules/work-orders.md:74` promises one).
* A reassignment resets the status and leaves `currentStepId`, and does not
  look whether the work order is closed.
* On the legacy path a technician may cancel without a reason, and reopening
  from CANCELLED clears nothing.

Stock and sessions:

* Concurrent consumptions lose an update: the quantity then differs from the
  journal, and a crossing may be announced twice or never.
* Rotation is a read and an unconditional revoke, although the comment calls it
  atomic (`auth.service.ts:273`): two tabs can both get a pair.
* A refresh or a login past its checks survives a deactivation (the `late` tokens).
  A deactivation cut off between its two statements leaves the account inactive
  with its tokens unrevoked; a rotation still refuses them, until a reactivation.
* A refresh under way at the phone's logout is not cancelled: its rejection, when it
  comes after the next login, signs the new session out (`outlived`).
* Impersonation keeps the refresh token of the tab's auth store, which the
  interceptor does not update: ending it may restore a revoked one.
* The web logout sends no refresh token, so the session stays alive on the
  server; a 5xx on refresh signs the phone out.

Positions:

* The calls of `applyTracking` overlap: one that is starting the task has not set
  `current` yet, so the `applyTracking('off')` of a 403 finds `off` and returns,
  and the task then starts (`ADR-017` section 3: a 403 "stops the background task
  immediately"); two foreground starts leave a subscription nobody holds.
* After a restart `current` is `off` while the task still runs: a decision `off`
  stops nothing ("No active work order, no tracking", same section). A stop the
  system refuses is taken for done.
* `consentRevoked` is cleared by the phone's own switch and by a restart, not when
  the consent comes back from the web profile (`gps.store.ts:20`).
* A 429 or a 401 drops a batch like a malformed one (`tracker.ts:86`).
* `clearFixes` is never called: the fixes of one user are sent by the next one.
  (Read in the code; the model has one user.)

Sweeps:

* Two replicas spawn an occurrence twice. So does one, when an edit computed just
  before an occurrence is written after the sweep's update: it puts the next run
  back to the occurrence that was spawned.
* Fifty rows whose computation throws fill every batch of the spawner, which takes
  the oldest next runs first (`recurring-spawner.service.ts:94`), and no other row
  is spawned. (Read in the code; the model has one row.)
* Overlapping SLA scans announce a breach twice, in one backend as well: unlike the
  other sweeps this one has no `isSweeping`.
* An edit during a spawn is overwritten by the next run computed from the old
  row. `spawnedCount` is counted before the creation and keeps a missed one.
* A monthly schedule without a list of days that stands on the 29th to 31st
  rolls over short months into the next one. With a list, `alignToPattern` skips
  a month in the same way: from 31 January, days {15}, it goes to 15 March, though
  it is to "snap to the next timestamp that matches the pattern"
  (`schedule.ts:133`), and it is applied to any start date. The proof of
  `NextRunIsTheNext` fails on such a row, which is why `FitsEveryMonth` is about
  the row's date as well as the pattern's days.
* A retry by hand of a delivery that is being sent sends it again; so does one after
  a crash between the receiver's 2xx and `markSuccess`. A success
  that falls between the failure count and its check does not save a healthy
  endpoint from being disabled.
* A crash leaves deliveries and reminders `dispatching` for ever.
* A reminder cancelled after it was claimed is sent all the same; one whose
  `sent` update fails is marked failed. Reminders of closed or rescheduled work
  orders still go out.
* The SLA scan marks a work order that was closed after it was listed; a death
  between update and event loses the announcement.

## 6. Plan and not modelled

Theorems next: what the exceptions of the work-order properties hide, stated per
handler (which writes may follow which read). Then an `Outbox` specification that
`OfflineQueue` implements, proved as `ReplaySafety` is.

Not modelled, though in reach: quotas (a counter against the resources that
exist); the reference number
of a work order (read, then insert, with a unique constraint that makes the
second fail); portal invitations and second factor (single-use rows).

Left out of the modules above:

* `OfflineQueue`: several technicians, `ensureOwner`, a work order that leaves
  the visible set while operations on it are queued, the SQLite awaits of one
  enqueue, payloads, pulls of several pages, and what falls between the lock check
  and the commit of a handler (`WorkOrders` has it).
* `DeltaPull`: transactions that commit after a later timestamp; snapshots,
  templates and parts (the same upsert, without deletion).
* `WorkOrders`: processes other than the canonical one, template roles, tags,
  travel, duplication, batches (one transition per row).
* `Stock`: edits of the minimum, prices, the access rules over the work order.
* `Sessions`: access tokens, passwords, login answers that are lost.
* `Positions`: technicians whose location is mandatory, requests to locate one,
  `recordLocation` of the web app, clocks ahead of the server's (their fixes are
  rejected by index and deleted), several users of a phone, and an answer of
  `/auth/me` that is older than a change of the switch.
* Sweeps: texts, recipients' addresses, payloads and signatures of webhooks.

Not planned: reads and reports, CRUD of independent rows, external services
(payment, maps, mail, object storage), screens, wording. These are most of the
repository's lines, and why the modules stand for a small share of them.
