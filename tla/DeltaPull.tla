----------------------------- MODULE DeltaPull -----------------------------
(***************************************************************************)
(* The delta pull of ADR-016 section 1: SyncService.pull on the backend,   *)
(* pullAll and applyPull on the phone.  The backend reads the visible ids  *)
(* and the page with two queries; the phone applies a page statement by    *)
(* statement and stores the cursor last.  Pullers are the foreground sync  *)
(* and the background task, which is not single-flight with it.            *)
(***************************************************************************)
EXTENDS Integers, FiniteSets

CONSTANTS
  WorkOrder,    \* ids, numbers: the keyset's tie-breaker compares them
  Puller,       \* who pulls: "foreground", "background"
  Limit,        \* rows per page
  MaxPages,     \* pages per pull
  MaxChanges,   \* bound: changes to the technician's work orders
  MaxAging,     \* bound: advances of the horizon
  MaxFailures   \* bound: killed apps and failed requests

ASSUME WorkOrderAssumption == WorkOrder \subseteq Nat \ {0} /\ WorkOrder # {} /\ IsFiniteSet(WorkOrder)
ASSUME PagingAssumption == Limit \in Nat \ {0} /\ MaxPages \in Nat \ {0}
ASSUME BoundsAssumption == MaxChanges \in Nat /\ MaxAging \in Nat /\ MaxFailures \in Nat

VARIABLES
  version,   \* version[w]: updatedAt of w
  visible,   \* the work orders dispatched to the technician and open
  horizon,   \* cursors up to this time are older than SYNC_CURSOR_MAX_AGE_DAYS
  local,     \* local[w]: updatedAt of w in the phone's work_orders, or Absent
  cursor,    \* meta sync.cursor
  pull,      \* pull[p]: the pull p is making
  budget,    \* what is left of the bounds
  raced,     \* history: rows that came into view after a pull read its ids and before its page
  crossed    \* history: two pulls overlapped since the last full resync one made alone

history == <<raced, crossed>>
vars == <<version, visible, horizon, local, cursor, pull, budget, history>>

-----------------------------------------------------------------------------
Absent == 0

NoCursor == [t |-> 0, id |-> 0]

Before(a, b) == a.t < b.t \/ (a.t = b.t /\ a.id < b.id)

(* updatedAt and id, the keyset of pageAfter. *)
KeyOf(w) == [t |-> version[w], id |-> w]

Clock == CHOOSE t \in {version[w] : w \in WorkOrder} : \A w \in WorkOrder : version[w] <= t

(* decodeSyncCursor and tooOld: the age is that of the row the cursor ends *)
(* at, not that of the pull.                                               *)
Usable(c) == c # NoCursor /\ c.t > horizon

Idle == [at |-> "idle", from |-> NoCursor, full |-> FALSE, ids |-> {}, rows |-> {},
         next |-> NoCursor, more |-> FALSE, pages |-> 0]

Init ==
  /\ version = [w \in WorkOrder |-> 1]
  /\ visible \in SUBSET WorkOrder
  /\ horizon = 0
  /\ local = [w \in WorkOrder |-> Absent]
  /\ cursor = NoCursor
  /\ pull = [p \in Puller |-> Idle]
  /\ budget = [changes |-> MaxChanges, aging |-> MaxAging, failures |-> MaxFailures]
  /\ raced = {} /\ crossed = FALSE

Spend(what) == budget[what] > 0 /\ budget' = [budget EXCEPT ![what] = @ - 1]

Goto(p, step) == pull' = [pull EXCEPT ![p].at = step]

-----------------------------------------------------------------------------
(* The backend. *)

(* Dispatchers and the technician change rows, maybe several in one        *)
(* transaction, also between the two queries of a pull.  A change can      *)
(* bring a row into the visible set or out of it.                          *)
Change(S, in) ==
  /\ Spend("changes")
  /\ version' = [w \in WorkOrder |-> IF w \in S THEN Clock + 1 ELSE version[w]]
  /\ visible' = (visible \ S) \cup in
  /\ raced' = (raced \ S) \cup
       {w \in in : \E p \in Puller : pull[p].at = "idsRead" /\ w \notin pull[p].ids}
  /\ UNCHANGED <<horizon, local, cursor, pull, crossed>>

(* Thirty days go by for the oldest changes. *)
GrowOld ==
  /\ Spend("aging")
  /\ horizon < Clock
  /\ horizon' \in (horizon + 1)..Clock
  /\ UNCHANGED <<version, visible, local, cursor, pull, history>>

(* pull(): from the cursor, or a full resync. *)
Asking(from, pages) ==
  [Idle EXCEPT !.at = "asking", !.pages = pages,
               !.full = ~Usable(from), !.from = IF Usable(from) THEN from ELSE NoCursor]

(* visibleIds and pageAfter run in a Promise.all, in either order. *)
ReadIds(p) ==
  /\ pull[p].at \in {"asking", "pageRead"}
  /\ pull' = [pull EXCEPT ![p].ids = visible,
                          ![p].at = IF pull[p].at = "asking" THEN "idsRead" ELSE "fetched"]
  /\ UNCHANGED <<version, visible, horizon, local, cursor, budget, history>>

(* limit + 1 rows are read, limit are kept. *)
FirstOf(S) == {w \in S : Cardinality({v \in S : Before(KeyOf(v), KeyOf(w))}) < Limit}

LastOf(S) == CHOOSE w \in S : \A v \in S \ {w} : Before(KeyOf(v), KeyOf(w))

PageOf(changed, fallback) ==
  LET page == FirstOf(changed) IN
  [rows |-> {[id |-> w, version |-> version[w]] : w \in page},
   more |-> Cardinality(changed) > Limit,
   next |-> IF page = {} THEN fallback ELSE KeyOf(LastOf(page))]

(* Mutant of Changed: the keyset has no tie-breaker. *)
ChangedAfterTime(from) == {w \in visible : from.t < version[w]}

(* The visible rows after the cursor. *)
Changed(from) == {w \in visible : Before(from, KeyOf(w))}

ReadPage(p) ==
  LET page == PageOf(Changed(pull[p].from), pull[p].from) IN
  /\ pull[p].at \in {"asking", "idsRead"}
  /\ pull' = [pull EXCEPT ![p] = [@ EXCEPT
       !.rows = page.rows, !.more = page.more, !.next = page.next,
       !.at = IF pull[p].at = "asking" THEN "pageRead" ELSE "fetched"]]
  /\ UNCHANGED <<version, visible, horizon, local, cursor, budget, history>>

-----------------------------------------------------------------------------
(* The phone. *)

Others(p) == \E q \in Puller \ {p} : pull[q].at # "idle"

(* pullOnly, pullAll: the first request carries the stored cursor. *)
StartPull(p) ==
  /\ pull[p].at = "idle"
  /\ pull' = [pull EXCEPT ![p] = Asking(cursor, 0)]
  /\ crossed' = (crossed \/ Others(p))
  /\ UNCHANGED <<version, visible, horizon, local, cursor, budget, raced>>

(* applyPull: a full resync wipes the server tables, then the cursor. *)
WipeTables(p) ==
  /\ pull[p].at = "fetched" /\ pull[p].full
  /\ local' = [w \in WorkOrder |-> Absent]
  /\ Goto(p, "wiping")
  /\ UNCHANGED <<version, visible, horizon, cursor, budget, history>>

WipeCursor(p) ==
  /\ pull[p].at = "wiping"
  /\ cursor' = NoCursor
  /\ Goto(p, "upserting")
  /\ crossed' = (crossed /\ Others(p))
  /\ UNCHANGED <<version, visible, horizon, local, budget, raced>>

(* applyPull: the rows of the page. *)
Upsert(p) ==
  /\ pull[p].at = "upserting" \/ (pull[p].at = "fetched" /\ ~pull[p].full)
  /\ local' = [w \in WorkOrder |->
       IF \E row \in pull[p].rows : row.id = w
       THEN (CHOOSE row \in pull[p].rows : row.id = w).version
       ELSE local[w]]
  /\ Goto(p, "deleting")
  /\ UNCHANGED <<version, visible, horizon, cursor, budget, history>>

(* Mutant of DeleteGone: nothing is deleted. *)
DeleteNothing(p) ==
  /\ pull[p].at = "deleting"
  /\ Goto(p, "storing")
  /\ UNCHANGED <<version, visible, horizon, local, cursor, budget, history>>

(* applyPull: deletion by set difference with the visible ids. *)
DeleteGone(p) ==
  /\ pull[p].at = "deleting"
  /\ local' = [w \in WorkOrder |-> IF w \in pull[p].ids THEN local[w] ELSE Absent]
  /\ Goto(p, "storing")
  /\ UNCHANGED <<version, visible, horizon, cursor, budget, history>>

(* applyPull stores the cursor, pullAll asks for the next page or ends. *)
StoreCursor(p) ==
  /\ pull[p].at = "storing"
  /\ cursor' = IF pull[p].next = NoCursor THEN cursor ELSE pull[p].next
  /\ pull' = [pull EXCEPT ![p] =
       IF pull[p].more /\ pull[p].pages + 1 < MaxPages
       THEN Asking(pull[p].next, pull[p].pages + 1)
       ELSE Idle]
  /\ UNCHANGED <<version, visible, horizon, local, budget, history>>

(* A request fails or the app is killed. *)
Abort(p) ==
  /\ pull[p].at # "idle"
  /\ Spend("failures")
  /\ pull' = [pull EXCEPT ![p] = Idle]
  /\ UNCHANGED <<version, visible, horizon, local, cursor, history>>

-----------------------------------------------------------------------------
PullStep(p) ==
  \/ StartPull(p)
  \/ ReadIds(p)
  \/ ReadPage(p)
  \/ WipeTables(p)
  \/ WipeCursor(p)
  \/ Upsert(p)
  \/ DeleteGone(p)
  \/ StoreCursor(p)

Next ==
  \/ \E S \in SUBSET WorkOrder \ {{}} : \E in \in SUBSET S : Change(S, in)
  \/ GrowOld
  \/ \E p \in Puller : PullStep(p)
  \/ \E p \in Puller : Abort(p)

Spec == Init /\ [][Next]_vars

(* The scheduler keeps pulling, and awaits settle. *)
FairSpec == Spec /\ \A p \in Puller : WF_vars(PullStep(p))

-----------------------------------------------------------------------------
Cursor == [t: Nat, id: WorkOrder \cup {0}]

TypeOK ==
  /\ version \in [WorkOrder -> Nat \ {0}]
  /\ visible \subseteq WorkOrder
  /\ horizon \in Nat
  /\ local \in [WorkOrder -> Nat]
  /\ cursor \in Cursor
  /\ pull \in [Puller -> [
       at: {"idle", "asking", "idsRead", "pageRead", "fetched", "wiping", "upserting",
            "deleting", "storing"},
       from: Cursor, full: BOOLEAN, ids: SUBSET WorkOrder,
       rows: SUBSET [id: WorkOrder, version: Nat \ {0}],
       next: Cursor, more: BOOLEAN, pages: 0..(MaxPages - 1)]]
  /\ \A p \in Puller : Cardinality(pull[p].rows) <= Limit
  /\ budget \in [changes: 0..MaxChanges, aging: 0..MaxAging, failures: 0..MaxFailures]
  /\ raced \subseteq WorkOrder /\ crossed \in BOOLEAN

(* Between pulls, whatever was interrupted before, the phone has the       *)
(* current version of every visible work order the stored cursor has       *)
(* passed: no later pull would bring it ("cursor stored last").  Except    *)
(* the rows that came into view between a pull's two queries, until they   *)
(* change again, and except after two pulls overlapped, until a full       *)
(* resync made alone.                                                      *)
NothingBehindCursor ==
  (\A p \in Puller : pull[p].at = "idle") /\ Usable(cursor) /\ ~crossed =>
    \A w \in visible \ raced : ~Before(cursor, KeyOf(w)) => local[w] = version[w]

(* The phone's list is the technician's visible set, but for raced rows. *)
CaughtUp ==
  \A w \in WorkOrder \ raced : local[w] = IF w \in visible THEN version[w] ELSE Absent

(* Once changes stop, a pull brings the phone's list up to date: changed   *)
(* rows arrive and rows that left the visible set go (deletion by set      *)
(* difference).  Except where rows are older than thirty days, as a page   *)
(* that ends at one makes the next request a full resync again, and after  *)
(* two pulls overlapped.                                                   *)
ListCatchesUp == []<>(CaughtUp \/ budget.aging < MaxAging \/ crossed)
=============================================================================
