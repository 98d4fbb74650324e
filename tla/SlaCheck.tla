------------------------------ MODULE SlaCheck ------------------------------
(***************************************************************************)
(* SlaCheckService: a scan every 15 minutes marks the work orders that are *)
(* open past their slaTargetAt and announces each.  The list is read once; *)
(* while it is worked through, the work orders change and other scans, of  *)
(* this backend or of another, read lists of their own: this sweep has no  *)
(* flag that keeps the next one from starting.                             *)
(***************************************************************************)
EXTENDS Naturals, FiniteSets

CONSTANTS
  SlaWorkOrder,
  SlaScan,       \* bound: the scans there can be at once, in one backend instance or in several
  BATCH_LIMIT,   \* 100 in the code
  MaxMoves,      \* bound: work orders closed and reopened
  MaxDeaths      \* bound: processes that die, updates that fail

VARIABLES
  late,       \* work orders whose slaTargetAt has passed
  closed,     \* completed or cancelled ones
  breached,   \* those with a slaBreachedAt
  scan,       \* scan[p]: what is left of the list of p, and the row it updated last
  announced,  \* history: announced[w], the SLA_BREACHED events, up to 2
  relisted,   \* history: work orders a scan listed while another had them still to update
  moves, deaths

slaVars == <<late, closed, breached, scan, announced, relisted, moves, deaths>>

NoScan == [todo |-> {}, updated |-> {}]

SlaInit ==
  /\ late = {} /\ closed = {} /\ breached = {}
  /\ scan = [p \in SlaScan |-> NoScan]
  /\ announced = [w \in SlaWorkOrder |-> 0]
  /\ relisted = {}
  /\ moves = 0 /\ deaths = 0

TargetPasses(w) ==
  /\ w \notin late /\ late' = late \cup {w}
  /\ UNCHANGED <<closed, breached, scan, announced, relisted, moves, deaths>>

Closes(w) ==
  /\ w \notin closed /\ moves < MaxMoves /\ moves' = moves + 1
  /\ closed' = closed \cup {w}
  /\ UNCHANGED <<late, breached, scan, announced, relisted, deaths>>

Reopens(w) ==
  /\ w \in closed /\ moves < MaxMoves /\ moves' = moves + 1
  /\ closed' = closed \ {w}
  /\ UNCHANGED <<late, breached, scan, announced, relisted, deaths>>

-----------------------------------------------------------------------------
(* Mutant of Overdue: what is marked already is listed again. *)
OverdueAgain == late \ closed

Overdue == late \ (breached \cup closed)

ListedByOthers(p) == UNION {scan[q].todo : q \in SlaScan \ {p}}

(* findMany, up to BATCH_LIMIT rows; the oldest first, which is left open here. Whatever the other
   scans do, this one starts: p is a scan that is not under way, not a process. *)
List(p) ==
  /\ scan[p] = NoScan /\ Overdue # {}
  /\ \E todo \in SUBSET Overdue :
       /\ Cardinality(todo) = IF Cardinality(Overdue) < BATCH_LIMIT THEN Cardinality(Overdue) ELSE BATCH_LIMIT
       /\ scan' = [scan EXCEPT ![p].todo = todo]
       /\ relisted' = relisted \cup (todo \cap ListedByOthers(p))
  /\ UNCHANGED <<late, closed, breached, announced, moves, deaths>>

(* The update, by id. *)
Update(p) ==
  \E w \in scan[p].todo :
    /\ scan[p].updated = {}
    /\ breached' = breached \cup {w}
    /\ scan' = [scan EXCEPT ![p] = [todo |-> @.todo \ {w}, updated |-> {w}]]
    /\ UNCHANGED <<late, closed, announced, relisted, moves, deaths>>

Emit(p) ==
  \E w \in scan[p].updated :
    /\ announced' = [announced EXCEPT ![w] = IF @ < 2 THEN @ + 1 ELSE @]
    /\ scan' = [scan EXCEPT ![p].updated = {}]
    /\ UNCHANGED <<late, closed, breached, relisted, moves, deaths>>

(* An update fails, or its answer is lost: it is logged, and the scan goes on. *)
UpdateFails(p) ==
  /\ scan[p].updated = {} /\ deaths < MaxDeaths /\ deaths' = deaths + 1
  /\ \E w \in scan[p].todo :
       /\ scan' = [scan EXCEPT ![p].todo = @ \ {w}]
       /\ breached' \in {breached, breached \cup {w}}
  /\ UNCHANGED <<late, closed, announced, relisted, moves>>

(* A process dies, with the scans it runs. *)
Dies ==
  /\ deaths < MaxDeaths /\ deaths' = deaths + 1
  /\ \E dead \in SUBSET SlaScan : scan' = [p \in SlaScan |-> IF p \in dead THEN NoScan ELSE scan[p]]
  /\ UNCHANGED <<late, closed, breached, announced, relisted, moves>>

-----------------------------------------------------------------------------
Scans(p) == List(p) \/ Update(p) \/ Emit(p)

SlaNext ==
  \/ \E w \in SlaWorkOrder : TargetPasses(w) \/ Closes(w) \/ Reopens(w)
  \/ \E p \in SlaScan : Scans(p) \/ UpdateFails(p)
  \/ Dies

-----------------------------------------------------------------------------
(* Properties *)

(* A breach is announced once, however many scans there are and whatever is closed, reopened or late
   meanwhile; twice only when a scan listed the work order while another scan, which had listed it
   already, was still to update it.  And only a death or a failing update loses the announcement of
   a work order that was marked. *)
BreachIsAnnouncedOnce ==
  \A w \in SlaWorkOrder :
    /\ announced[w] > (IF w \in breached THEN 1 ELSE 0) => w \in relisted
    /\ w \in breached /\ deaths = 0 /\ (\A p \in SlaScan : w \notin scan[p].updated) => announced[w] >= 1

=============================================================================
