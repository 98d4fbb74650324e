------------------------------ MODULE WorkOrders ------------------------------
(***************************************************************************)
(* Life of a work order: WorkOrdersService and ProcessEngineService over   *)
(* the work_orders rows, with the canonical « Standard BT » process, and   *)
(* the hard-coded state machine for rows that have no process.             *)
(*                                                                         *)
(* Every handler reads the row, checks, computes the columns to set and    *)
(* updates by id.  Between the read and the update other handlers run, so  *)
(* a handler is two steps: Load (the read and all its checks; a handler    *)
(* that rejects changes nothing and is no step) and Write.                 *)
(***************************************************************************)
EXTENDS Integers, FiniteSets

CONSTANTS
  WorkOrder,
  Technician,  \* active users with the role TECHNICIAN
  Field,       \* fields of the task type's template
  None,        \* a null column
  LegacyRows,  \* whether a creation may find no process
  MaxCalls     \* bound: handlers at work at a time

ASSUME NoneAssumption == None \notin Technician \cup Nat
ASSUME TechnicianAssumption == Technician \cap {"admin", "dispatcher", "portal"} = {}
ASSUME LegacyAssumption == LegacyRows \in BOOLEAN

VARIABLES
  row,   \* row[w]: the columns of w, or NoRow
  call,  \* call[u]: the handler working for user u
  past   \* history, read by no handler: past[w] has "forced" after an admin bypass, a
         \* reassignment or an edit of managed columns by the office, "raced" after a write
         \* landed on a row changed behind the handler's read, "legacy" when born without process

vars == <<row, call, past>>

-----------------------------------------------------------------------------
Office == {"admin", "dispatcher"}
User == Office \cup {"portal"} \cup Technician

Role(u) == IF u \in Technician THEN "technician" ELSE u

(* ProcessStatus codes. *)
Requested == 50
Initial == 0
Assigned == 100
Dispatch == 200
EnRoute == 300
Start == 400
Positive == 500
Negative == 600
Cancelled == 700

Step == {Requested, Initial, Assigned, Dispatch, EnRoute, Start, Positive, Negative, Cancelled}

WorkOrderStatus == {"REQUESTED", "CREATED", "ASSIGNED", "DISPATCHED", "EN_ROUTE", "IN_PROGRESS",
                    "COMPLETED_POSITIVE", "COMPLETED_NEGATIVE", "CANCELLED"}

(* mapToLegacyStatus; every step of the canonical process has a status. *)
LegacyStatus(step) ==
  CASE step = Requested -> "REQUESTED"
    [] step = Initial   -> "CREATED"
    [] step = Assigned  -> "ASSIGNED"
    [] step = Dispatch  -> "DISPATCHED"
    [] step = EnRoute   -> "EN_ROUTE"
    [] step = Start     -> "IN_PROGRESS"
    [] step = Positive  -> "COMPLETED_POSITIVE"
    [] step = Negative  -> "COMPLETED_NEGATIVE"
    [] step = Cancelled -> "CANCELLED"

Rule(from, to, roles, required) == [from |-> from, to |-> to, roles |-> roles, required |-> required]

Anyone == Office \cup {"technician"}

DEFAULT_PROCESS_TRANSITIONS ==
  { Rule(Requested, Initial, Office, {}),
    Rule(Requested, Negative, Office, {"negativeReason"}),
    Rule(Initial, Assigned, Office, {"assignedTo"}),
    Rule(Assigned, Dispatch, Office, {}),
    Rule(Dispatch, EnRoute, Anyone, {}),
    Rule(EnRoute, Start, Anyone, {}),
    Rule(Start, Positive, Anyone, {"completionNotes"}),
    Rule(Start, Negative, Anyone, {"negativeReason"}),
    Rule(Assigned, Initial, Office, {}),
    Rule(Dispatch, Assigned, Office, {}),
    Rule(Positive, Initial, {"admin"}, {"reopenReason"}),
    Rule(Negative, Initial, Office, {}),
    Rule(Cancelled, Initial, Office, {}) }
  \cup {Rule(open, Cancelled, Office, {"negativeReason"}) :
          open \in {Initial, Assigned, Dispatch, EnRoute, Start}}

(* VALID_TRANSITIONS of the rows without a process. *)
VALID_TRANSITIONS ==
  {<<"REQUESTED", "CREATED">>, <<"REQUESTED", "COMPLETED_NEGATIVE">>, <<"CREATED", "ASSIGNED">>,
   <<"ASSIGNED", "DISPATCHED">>, <<"ASSIGNED", "CREATED">>, <<"DISPATCHED", "EN_ROUTE">>,
   <<"EN_ROUTE", "IN_PROGRESS">>, <<"IN_PROGRESS", "COMPLETED_POSITIVE">>,
   <<"IN_PROGRESS", "COMPLETED_NEGATIVE">>, <<"COMPLETED_POSITIVE", "CREATED">>,
   <<"COMPLETED_NEGATIVE", "CREATED">>, <<"CANCELLED", "CREATED">>}
  \cup ({"CREATED", "ASSIGNED", "DISPATCHED", "EN_ROUTE", "IN_PROGRESS"} \X {"CANCELLED"})

TECHNICIAN_OPEN_STATUSES == {"DISPATCHED", "EN_ROUTE", "IN_PROGRESS"}

NoRow == [status |-> "NONE"]
Exists(w) == row[w] # NoRow

Columns(status, step, assignee) ==
  [status |-> status, currentStep |-> step, hasProcess |-> step # None, assignedTo |-> assignee,
   dispatchedAt |-> FALSE, actualStartTime |-> FALSE, actualEndTime |-> FALSE,
   completionNotes |-> FALSE, negativeReason |-> FALSE, templateData |-> {}]

Idle == [at |-> "idle"]

Init ==
  /\ row = [w \in WorkOrder |-> NoRow]
  /\ call = [u \in User |-> Idle]
  /\ past = [w \in WorkOrder |-> {}]

-----------------------------------------------------------------------------
(* Handlers *)

Flags(columns, value) == [c \in columns |-> value]

(* The columns of g, and those of f in front of them. *)
Over(f, g) == [c \in DOMAIN f \cup DOMAIN g |-> IF c \in DOMAIN f THEN f[c] ELSE g[c]]

(* The optional fields of a transition that are stored (a reopen reason never is). Bound: one
   of them at most; no transition requires two. *)
Payload ==
  {<<>>, [negativeReason |-> TRUE], [completionNotes |-> TRUE]}
  \cup {[assignedTo |-> t] : t \in Technician}

Busy == {u \in User : call[u] # Idle}

(* Bounds: MaxCalls handlers at work; on a row already forced or raced, one at a time and no
   further forcing. *)
Regular(w) == past[w] \cap {"forced", "raced"} = {}
Free(w) == Cardinality(Busy) < IF Regular(w) THEN MaxCalls ELSE 1

(* The handler of u has read w and passed its checks, the comparison of expectedUpdatedAt among
   them when the request gave one; patch is what it will write. *)
Load(u, w, tags, patch) ==
  /\ tags = {} \/ Regular(w)
  /\ call' = [call EXCEPT ![u] =
       [at |-> "writing", wo |-> w, stale |-> call[u] # Idle /\ call[u].stale,
        tags |-> tags, patch |-> patch]]
  /\ UNCHANGED <<row, past>>

Forcing(condition) == IF condition THEN {"forced"} ELSE {}

(* Every other handler that has read w now works on an old row. *)
Overtaken(w) == {v \in Busy : call[v].wo = w}

(* The update by id: it lands whatever happened to the row since the read. *)
Write(u) ==
  /\ call[u].at = "writing"
  /\ LET c == call[u]
         w == c.wo
     IN /\ row' = [row EXCEPT ![w] = Over(c.patch, @)]
        /\ past' = [past EXCEPT ![w] = @ \cup c.tags \cup (IF c.stale THEN {"raced"} ELSE {})]
        /\ call' = [v \in User |-> IF v = u THEN Idle
                                  ELSE IF v \in Overtaken(w) THEN [call[v] EXCEPT !.stale = TRUE]
                                  ELSE call[v]]

(* create: the initial step, or Assigned with a technician; « Demandé » for the portal. *)
Create(u, w, assignee, process) ==
  /\ ~Exists(w)
  /\ u \in Office \cup {"portal"}
  /\ u = "portal" => process /\ assignee = None
  /\ process \/ LegacyRows
  /\ LET step == CASE u = "portal" -> Requested
                   [] u # "portal" /\ assignee = None -> Initial
                   [] OTHER -> Assigned
     IN row' = [row EXCEPT ![w] =
          Columns(LegacyStatus(step), IF process THEN step ELSE None, assignee)]
  /\ past' = [past EXCEPT ![w] = IF process THEN {} ELSE {"legacy"}]
  /\ UNCHANGED call

-----------------------------------------------------------------------------
(* ProcessEngineService *)

OwnOrOffice(u, w) == Role(u) = "technician" => row[w].assignedTo = u

Configured(from, to) == {t \in DEFAULT_PROCESS_TRANSITIONS : t.from = from /\ t.to = to}

(* Mutant of EngineAccepts: the required fields are left to the screens. *)
EngineAcceptsUnfilled(u, w, step, payload) ==
  /\ OwnOrOffice(u, w)
  /\ \/ Role(u) = "admin"
     \/ \E t \in Configured(row[w].currentStep, step) : Role(u) \in t.roles

EngineAccepts(u, w, step, payload) ==
  /\ OwnOrOffice(u, w)
  /\ \/ Role(u) = "admin" /\ Configured(row[w].currentStep, step) = {}
     \/ \E t \in Configured(row[w].currentStep, step) :
          /\ Role(u) \in t.roles \cup {"admin"}
          /\ t.required \ {"reopenReason"} \subseteq DOMAIN payload

(* The columns a step sets by its flags; what the caller gives wins over them. *)
buildUpdateData(step, payload) ==
  LET effects ==
        CASE step = Dispatch -> [dispatchedAt |-> TRUE]
          [] step = Start -> [actualStartTime |-> TRUE]
          [] step \in {Positive, Negative} -> [actualEndTime |-> TRUE]
          [] step = Initial ->
               Over([assignedTo |-> None],
                    Flags({"actualStartTime", "actualEndTime", "dispatchedAt", "completionNotes",
                           "negativeReason"}, FALSE))
          [] OTHER -> <<>>
  IN Over(payload, Over([currentStep |-> step, status |-> LegacyStatus(step)], effects))

executeTransition(u, w, step, payload) ==
  /\ call[u] = Idle
  /\ EngineAccepts(u, w, step, payload)
  /\ Load(u, w, Forcing(Configured(row[w].currentStep, step) = {}),
          buildUpdateData(step, payload))

EngineOffers(u, w) ==
  IF Role(u) = "admin" THEN Step \ {row[w].currentStep}
  ELSE {t.to : t \in {x \in DEFAULT_PROCESS_TRANSITIONS :
                        x.from = row[w].currentStep /\ Role(u) \in x.roles}}

-----------------------------------------------------------------------------
(* WorkOrdersService *)

LegacyAccepts(u, w, status, payload) ==
  LET from == row[w].status IN
  /\ OwnOrOffice(u, w)
  /\ ~(from = "COMPLETED_NEGATIVE" /\ status = "CREATED" /\ Role(u) = "technician")
  /\ Role(u) = "admin" \/ <<from, status>> \in VALID_TRANSITIONS
  /\ status = "ASSIGNED" => "assignedTo" \in DOMAIN payload \/ row[w].assignedTo # None
  /\ status = "COMPLETED_NEGATIVE" => "negativeReason" \in DOMAIN payload
  /\ from = "COMPLETED_POSITIVE" /\ status = "CREATED" => Role(u) = "admin"

(* Reopening clears by the status read before; cancelling stores nothing else. *)
legacyUpdateData(from, status, payload) ==
  LET given(columns) == [c \in columns \cap DOMAIN payload |-> payload[c]]
      effects ==
        CASE status = "ASSIGNED" -> given({"assignedTo"})
          [] status = "CREATED" /\ from = "ASSIGNED" -> [assignedTo |-> None]
          [] status = "CREATED" /\ from \in {"COMPLETED_NEGATIVE", "COMPLETED_POSITIVE"} ->
               Over([assignedTo |-> None],
                    Flags({"completionNotes", "actualEndTime", "actualStartTime"} \cup
                          (IF from = "COMPLETED_NEGATIVE" THEN {"negativeReason"} ELSE {}), FALSE))
          [] status = "DISPATCHED" -> [dispatchedAt |-> TRUE]
          [] status = "IN_PROGRESS" -> [actualStartTime |-> TRUE]
          [] status \in {"COMPLETED_POSITIVE", "COMPLETED_NEGATIVE"} ->
               Over([actualEndTime |-> TRUE], given({"completionNotes", "negativeReason"}))
          [] OTHER -> <<>>
  IN Over([status |-> status], effects)

(* The legacy path compares updatedAt in a read of its own. *)
legacyCheckLock(u, w) ==
  /\ call[u] = Idle /\ ~row[w].hasProcess
  /\ call' = [call EXCEPT ![u] = [at |-> "checked", wo |-> w, stale |-> FALSE]]
  /\ UNCHANGED <<row, past>>

legacyTransition(u, w, status, payload) ==
  /\ \/ call[u] = Idle /\ ~row[w].hasProcess
     \/ call[u].at = "checked" /\ call[u].wo = w
  /\ LegacyAccepts(u, w, status, payload)
  /\ Load(u, w, Forcing(<<row[w].status, status>> \notin VALID_TRANSITIONS),
          legacyUpdateData(row[w].status, status, payload))

(* Any of the checks after the first read may refuse. *)
legacyRefused(u) ==
  /\ call[u].at = "checked"
  /\ call' = [call EXCEPT ![u] = Idle]
  /\ UNCHANGED <<row, past>>

(* Mutant of LegacyOffers: the role is not looked at. *)
LegacyOffersToAll(u, w) ==
  {s \in WorkOrderStatus \ {"CANCELLED"} : <<row[w].status, s>> \in VALID_TRANSITIONS}

(* The rows VALID_TRANSITIONS and the labels of the screen have in common. *)
LegacyOffers(u, w) ==
  LET from == row[w].status
      office == Role(u) \in Office
      rest == {s \in WorkOrderStatus \ {"CANCELLED"} : <<from, s>> \in VALID_TRANSITIONS}
  IN CASE from \in {"REQUESTED", "CANCELLED"} -> {}
       [] from \in {"CREATED", "ASSIGNED", "COMPLETED_NEGATIVE"} -> IF office THEN rest ELSE {}
       [] from = "COMPLETED_POSITIVE" -> IF Role(u) = "admin" THEN rest ELSE {}
       [] OTHER -> rest

(* Mutant of assignAndDispatch: the status column alone is written. *)
assignAndDispatchStatusOnly(u, w, technician) ==
  /\ call[u] = Idle /\ u \in Office
  /\ row[w].status \in {"CREATED", "ASSIGNED"}
  /\ Load(u, w, {}, [status |-> "DISPATCHED", assignedTo |-> technician, dispatchedAt |-> TRUE])

assignAndDispatch(u, w, technician) ==
  /\ call[u] = Idle /\ u \in Office
  /\ row[w].status \in {"CREATED", "ASSIGNED"}
  /\ Load(u, w, {},
          Over([status |-> "DISPATCHED", assignedTo |-> technician, dispatchedAt |-> TRUE],
               IF row[w].hasProcess THEN [currentStep |-> Dispatch] ELSE <<>>))

(* update with status ASSIGNED: the columns of the execution are cleared, the step stays. *)
reassign(u, w, technician) ==
  /\ call[u] = Idle /\ u \in Office
  /\ Load(u, w, {"forced"},
          Over([status |-> "ASSIGNED", assignedTo |-> technician],
               Flags({"dispatchedAt", "actualStartTime", "actualEndTime", "completionNotes",
                      "negativeReason"}, FALSE)))

(* Mutant of MayMutate: a closed work order may still be edited. *)
MayMutateClosed(u, w) == Role(u) = "technician" => row[w].assignedTo = u

MayMutate(u, w) ==
  Role(u) = "technician" => row[w].assignedTo = u /\ row[w].status \in TECHNICIAN_OPEN_STATUSES

(* Bound: an edit sets one column, or the template fields sent, which replace the stored ones. *)
Edits(u) ==
  {[c \in {column} |-> value] : column \in {"completionNotes", "negativeReason"}, value \in BOOLEAN}
  \cup {[templateData |-> F] : F \in SUBSET Field \ {{}}}
  \cup (IF u \in Office THEN {[assignedTo |-> t] : t \in Technician \cup {None}} ELSE {})

update(u, w, edit) ==
  /\ call[u] = Idle /\ u # "portal"
  /\ MayMutate(u, w)
  /\ Load(u, w, Forcing(u \in Office /\ DOMAIN edit # {"templateData"}), edit)

(* saveSignatures and createNote (which has no lock): updatedAt moves and no column here. *)
touch(u, w) ==
  /\ call[u] = Idle /\ u # "portal"
  /\ MayMutate(u, w)
  /\ Load(u, w, {}, <<>>)

(* backfillWorkOrders, when an instance boots: one updateMany per status. *)
backfillWorkOrders(w) ==
  /\ Exists(w) /\ row[w].currentStep = None
  /\ row[w].status # "REQUESTED"
  /\ row' = [row EXCEPT ![w].hasProcess = TRUE,
                        ![w].currentStep = CHOOSE s \in Step : LegacyStatus(s) = row[w].status]
  /\ call' = [v \in User |-> IF v \in Overtaken(w) THEN [call[v] EXCEPT !.stale = TRUE] ELSE call[v]]
  /\ UNCHANGED past

Handle(u, w) ==
  /\ u # "portal"
  /\ Exists(w)
  /\ \/ call[u].at = "checked"
     \/ call[u] = Idle /\ Free(w)
  /\ \/ \E p \in Payload :
         \/ \E s \in Step : executeTransition(u, w, s, p)
         \/ \E s \in WorkOrderStatus : legacyTransition(u, w, s, p)
     \/ legacyCheckLock(u, w)
     \/ \E t \in Technician : assignAndDispatch(u, w, t) \/ reassign(u, w, t)
     \/ \E e \in Edits(u) : update(u, w, e)
     \/ touch(u, w)

Next ==
  \/ \E u \in User, w \in WorkOrder :
       \/ (\E t \in Technician \cup {None}, process \in BOOLEAN : Create(u, w, t, process))
       \/ Handle(u, w)
  \/ \E u \in User : Write(u) \/ legacyRefused(u)
  \/ \E w \in WorkOrder : backfillWorkOrders(w)

Spec == Init /\ [][Next]_vars

-----------------------------------------------------------------------------
(* Properties *)

(* The status column and the process step tell the same story, even when handlers overwrite each
   other: the engine and assignAndDispatch write both together. A forced row is excepted (a
   reassignment writes the status alone), and a legacy row that a boot links to the process while
   a transition of it is under way. *)
StatusMatchesStep ==
  \A w \in WorkOrder :
    /\ Exists(w) /\ row[w].currentStep # None
    /\ "forced" \notin past[w] /\ ~({"raced", "legacy"} \subseteq past[w])
    => row[w].status = LegacyStatus(row[w].currentStep)

(* A row of the process that was neither forced nor raced carries exactly what its status
   requires: from ASSIGNED on a technician, a start once started, notes or a reason once ended,
   and after a reopening nothing of the previous execution. *)
ExecutionIsRecorded ==
  \A w \in WorkOrder : Exists(w) /\ past[w] = {} =>
    LET r == row[w] IN
    /\ r.status \in {"ASSIGNED", "DISPATCHED", "EN_ROUTE", "IN_PROGRESS", "COMPLETED_POSITIVE"} =>
         r.assignedTo # None
    /\ r.status \in {"EN_ROUTE", "IN_PROGRESS", "COMPLETED_POSITIVE"} => r.dispatchedAt
    /\ r.status \in {"IN_PROGRESS", "COMPLETED_POSITIVE"} => r.actualStartTime
    /\ r.status = "COMPLETED_POSITIVE" => r.completionNotes
    /\ r.status \in {"COMPLETED_NEGATIVE", "CANCELLED"} => r.negativeReason
    /\ r.status \in {"REQUESTED", "CREATED"} => ~r.dispatchedAt /\ ~r.actualStartTime /\ ~r.actualEndTime

(* Every transition the screens offer is one the server accepts with some payload, on rows with a
   process and on legacy rows, in every state the races and bypasses lead to. *)
OfferedIsAccepted ==
  \A w \in WorkOrder, u \in User \ {"portal"} : Exists(w) /\ OwnOrOffice(u, w) =>
    IF row[w].hasProcess /\ row[w].currentStep # None
    THEN \A step \in EngineOffers(u, w) : \E p \in Payload : EngineAccepts(u, w, step, p)
    ELSE \A status \in LegacyOffers(u, w) : \E p \in Payload : LegacyAccepts(u, w, status, p)

(* A technician changes only an open work order of his own, unless it was born without a process
   or forced, or his write raced with another. *)
TechniciansActOnOpenWork ==
  [][\A u \in Technician, w \in WorkOrder :
       /\ call[u].at = "writing" /\ call[u].wo = w /\ call'[u] = Idle
       /\ past[w] = {} /\ ~call[u].stale
       => row[w].assignedTo = u /\ row[w].status \in TECHNICIAN_OPEN_STATUSES]_vars

(* An edit of template fields keeps the values of the fields it does not name. The service stores
   the object it is sent in place of the old one, so it does not hold. *)
TemplateFieldsAreMerged ==
  [][\A w \in WorkOrder : Exists(w) => row[w].templateData \subseteq row'[w].templateData]_vars
=============================================================================
