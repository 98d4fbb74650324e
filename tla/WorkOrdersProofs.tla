-------------------------- MODULE WorkOrdersProofs --------------------------
(***************************************************************************)
(* Theorems about WorkOrders, for any number of work orders, technicians   *)
(* and handlers at work at a time.                                         *)
(***************************************************************************)
EXTENDS WorkOrders, TLAPS

ColumnNames ==
  {"status", "currentStep", "hasProcess", "assignedTo", "dispatchedAt", "actualStartTime",
   "actualEndTime", "completionNotes", "negativeReason", "templateData"}

(* A row has its columns, and those that handlers decide on are well typed. *)
RowOK(r) ==
  /\ DOMAIN r = ColumnNames
  /\ r.status \in WorkOrderStatus
  /\ r.currentStep \in Step \cup {None}
  /\ r.hasProcess \in BOOLEAN

(* What a handler may write: no handler unlinks a row from its process. *)
PatchOK(p) ==
  /\ DOMAIN p \subseteq ColumnNames \ {"hasProcess"}
  /\ "status" \in DOMAIN p => p["status"] \in WorkOrderStatus
  /\ "currentStep" \in DOMAIN p =>
       /\ p["currentStep"] \in Step
       /\ "status" \in DOMAIN p /\ p["status"] = LegacyStatus(p["currentStep"])

CheckedOK(c) ==
  /\ DOMAIN c = {"at", "wo", "stale"}
  /\ c.at = "checked" /\ c.wo \in WorkOrder /\ c.stale \in BOOLEAN

WritingOK(c) ==
  /\ DOMAIN c = {"at", "wo", "stale", "tags", "patch"}
  /\ c.at = "writing" /\ c.wo \in WorkOrder /\ c.stale \in BOOLEAN
  /\ c.tags \subseteq {"forced"} /\ PatchOK(c.patch)

Types ==
  /\ DOMAIN row = WorkOrder
  /\ \A w \in WorkOrder : Exists(w) => RowOK(row[w])
  /\ past \in [WorkOrder -> SUBSET {"forced", "raced", "legacy"}]
  /\ DOMAIN call = User
  /\ \A u \in User : call[u] = Idle \/ CheckedOK(call[u]) \/ WritingOK(call[u])

(* Only a row born without a process lacks one, and it has a step only after an administrator
   forced it there. *)
ProcessInv ==
  \A w \in WorkOrder : Exists(w) =>
    /\ row[w].hasProcess = FALSE => "legacy" \in past[w]
    /\ row[w].currentStep = None => row[w].hasProcess = FALSE
    /\ row[w].hasProcess = FALSE /\ row[w].currentStep # None => "forced" \in past[w]

(* The legacy path was entered on a row without a process, and still has that row before it unless
   the row has changed since. *)
CheckedInv(u) ==
  call[u].at = "checked" =>
    /\ "legacy" \in past[call[u].wo]
    /\ call[u].stale = TRUE \/ row[call[u].wo].hasProcess = FALSE

(* What sets the status and leaves the step is a forced write, or one for a row without a step when
   it was read; what sets the step is forced, or for a row of the process. *)
WritingInv(u) ==
  call[u].at = "writing" =>
    /\ "status" \in DOMAIN call[u].patch /\ "currentStep" \notin DOMAIN call[u].patch =>
         \/ "forced" \in call[u].tags \cup past[call[u].wo]
         \/ /\ "legacy" \in past[call[u].wo]
            /\ call[u].stale = TRUE \/ row[call[u].wo].currentStep = None
    /\ "currentStep" \in DOMAIN call[u].patch =>
         \/ "forced" \in call[u].tags \cup past[call[u].wo]
         \/ row[call[u].wo].hasProcess = TRUE

CallInv ==
  \A u \in User : call[u] # Idle => Exists(call[u].wo) /\ CheckedInv(u) /\ WritingInv(u)

StatusInv ==
  \A w \in WorkOrder :
    /\ Exists(w) /\ row[w].currentStep # None
    /\ "forced" \notin past[w] /\ ~({"raced", "legacy"} \subseteq past[w])
    => row[w].status = LegacyStatus(row[w].currentStep)

(* ExecutionIsRecorded for one row, and the departure of a dispatched one. *)
Recorded(r) ==
  /\ r["status"] \in {"ASSIGNED", "DISPATCHED", "EN_ROUTE", "IN_PROGRESS", "COMPLETED_POSITIVE"} =>
       r["assignedTo"] # None
  /\ r["status"] \in {"DISPATCHED", "EN_ROUTE", "IN_PROGRESS", "COMPLETED_POSITIVE"} =>
       r["dispatchedAt"] = TRUE
  /\ r["status"] \in {"IN_PROGRESS", "COMPLETED_POSITIVE"} => r["actualStartTime"] = TRUE
  /\ r["status"] = "COMPLETED_POSITIVE" => r["completionNotes"] = TRUE
  /\ r["status"] \in {"COMPLETED_NEGATIVE", "CANCELLED"} => r["negativeReason"] = TRUE
  /\ r["status"] \in {"REQUESTED", "CREATED"} =>
       r["dispatchedAt"] = FALSE /\ r["actualStartTime"] = FALSE /\ r["actualEndTime"] = FALSE

(* The handlers at work on a row nobody forced, raced or created without process, and that has
   not changed since they read it. *)
Undisturbed(u) == call[u].at = "writing" /\ ~(call[u].stale = TRUE) /\ past[call[u].wo] = {}

(* Such a row is recorded, and so is what such a handler makes of it. *)
RecordInv ==
  /\ \A w \in WorkOrder : Exists(w) /\ past[w] = {} => Recorded(row[w])
  /\ \A u \in User : Undisturbed(u) /\ call[u].tags = {} =>
       Recorded(Over(call[u].patch, row[call[u].wo]))

(* A technician's handler at work in this way has his own open work order before it. *)
OwnInv ==
  \A u \in Technician : Undisturbed(u) =>
    row[call[u].wo].assignedTo = u /\ row[call[u].wo].status \in TECHNICIAN_OPEN_STATUSES

WorkInv == Types /\ ProcessInv /\ CallInv /\ StatusInv /\ RecordInv /\ OwnInv

-----------------------------------------------------------------------------
(* Lemmas *)

(* What Over gives in each column. *)
LEMMA OverAt ==
  ASSUME NEW p, NEW r
  PROVE  /\ DOMAIN Over(p, r) = DOMAIN p \cup DOMAIN r
         /\ \A c \in DOMAIN p : Over(p, r)[c] = p[c]
         /\ \A c \in DOMAIN r \ DOMAIN p : Over(p, r)[c] = r[c]
  BY DEF Over

(* Steps are numbers, distinct from the null column, and each has a status. *)
LEMMA Steps ==
  /\ None \notin Step
  /\ None \notin Technician
  /\ \A s \in Step : LegacyStatus(s) \in WorkOrderStatus
<1>1. Step \subseteq Nat
  BY DEF Step, Requested, Initial, Assigned, Dispatch, EnRoute, Start, Positive, Negative, Cancelled
<1>2. \A s \in Step : LegacyStatus(s) \in WorkOrderStatus
  BY DEF Step, LegacyStatus, WorkOrderStatus, Requested, Initial, Assigned, Dispatch, EnRoute, Start,
     Positive, Negative, Cancelled
<1> QED BY <1>1, <1>2, NoneAssumption

(* Every status is that of a step. *)
LEMMA StatusOfSomeStep == \A status \in WorkOrderStatus : \E s \in Step : LegacyStatus(s) = status
  BY DEF Step, LegacyStatus, WorkOrderStatus, Requested, Initial, Assigned, Dispatch, EnRoute, Start,
     Positive, Negative, Cancelled

(* No row of a work order is NoRow. *)
LEMMA RowsExist == \A r : RowOK(r) => r # NoRow
  BY DEF RowOK, NoRow, WorkOrderStatus

(* The three kinds of calls exclude one another. *)
LEMMA CallKinds ==
  ASSUME NEW c, c = Idle \/ CheckedOK(c) \/ WritingOK(c)
  PROVE  /\ c = Idle <=> c.at = "idle"
         /\ CheckedOK(c) <=> c.at = "checked"
         /\ WritingOK(c) <=> c.at = "writing"
  BY DEF Idle, CheckedOK, WritingOK

(* A handler overtaken by another is as it was, but on an old row. *)
LEMMA Marked ==
  ASSUME NEW c, CheckedOK(c) \/ WritingOK(c),
         NEW d, d = [c EXCEPT !.stale = TRUE]
  PROVE  /\ CheckedOK(c) => CheckedOK(d)
         /\ WritingOK(c) => WritingOK(d) /\ d.tags = c.tags /\ d.patch = c.patch
         /\ d.at = c.at /\ d.wo = c.wo /\ d.stale = TRUE /\ d # Idle
<1>1. DOMAIN d = DOMAIN c /\ "stale" \in DOMAIN c /\ "wo" \in DOMAIN c /\ "at" \in DOMAIN c
  BY DEF CheckedOK, WritingOK
<1>2. d.at = c.at /\ d.wo = c.wo /\ d.stale = TRUE
  BY <1>1
<1>3. WritingOK(c) => d.tags = c.tags /\ d.patch = c.patch
  BY <1>1 DEF WritingOK
<1> QED BY <1>1, <1>2, <1>3 DEF CheckedOK, WritingOK, Idle

(* What a handler may have read when it passes its checks: the premises under which its patch is
   as WorkInv wants it. *)
GoodLoad(u, w, tags, patch) ==
  /\ Exists(w)
  /\ \/ call[u] = Idle
     \/ call[u].at = "checked" /\ call[u].wo = w
  /\ tags \subseteq {"forced"}
  /\ PatchOK(patch)
  /\ "status" \in DOMAIN patch /\ "currentStep" \notin DOMAIN patch =>
       \/ "forced" \in tags \cup past[w]
       \/ /\ "legacy" \in past[w]
          /\ \/ call[u] # Idle /\ call[u].stale = TRUE
             \/ row[w].currentStep = None
  /\ "currentStep" \in DOMAIN patch => "forced" \in tags \cup past[w] \/ row[w].hasProcess = TRUE
  /\ past[w] = {} /\ tags = {} => Recorded(Over(patch, row[w]))
  /\ past[w] = {} /\ u \in Technician =>
       row[w].assignedTo = u /\ row[w].status \in TECHNICIAN_OPEN_STATUSES

(* Loading such a patch keeps the invariant. *)
LEMMA LoadInv ==
  ASSUME WorkInv, NEW u \in User, NEW w \in WorkOrder, NEW tags, NEW patch,
         GoodLoad(u, w, tags, patch), Load(u, w, tags, patch)
  PROVE  WorkInv'
<1> DEFINE s == call[u] # Idle /\ call[u].stale
           d == [at |-> "writing", wo |-> w, stale |-> s, tags |-> tags, patch |-> patch]
<1>1. DOMAIN call = User /\ call' = [call EXCEPT ![u] = d] /\ row' = row /\ past' = past
  BY DEF WorkInv, Types, Load
<1>2. DOMAIN call' = User /\ call'[u] = d /\ \A v \in User \ {u} : call'[v] = call[v]
  BY <1>1
<1>3. /\ s \in BOOLEAN
      /\ call[u] # Idle /\ call[u].stale = TRUE => s = TRUE
  OBVIOUS
<1> HIDE DEF s
<1>4. /\ d.at = "writing" /\ d.wo = w /\ d.stale = s /\ d.tags = tags /\ d.patch = patch
      /\ WritingOK(d) /\ d # Idle
  BY <1>3 DEF GoodLoad, WritingOK, Idle
<1> HIDE DEF d
<1>5. Types'
  BY <1>1, <1>2, <1>4 DEF WorkInv, Types, Exists
<1>6. ProcessInv' /\ StatusInv'
  BY <1>1 DEF WorkInv, ProcessInv, StatusInv, Exists
<1>7. CallInv'
  <2>1. CallInv /\ GoodLoad(u, w, tags, patch)
    BY DEF WorkInv
  <2>2. (Exists(call[u].wo) /\ CheckedInv(u) /\ WritingInv(u))'
    BY <1>1, <1>2, <1>3, <1>4, <2>1 DEF GoodLoad, Exists, CheckedInv, WritingInv
  <2> QED BY <1>1, <1>2, <2>1, <2>2 DEF CallInv, Exists, CheckedInv, WritingInv
<1>8. RecordInv' /\ OwnInv'
  <2>1. RecordInv /\ OwnInv /\ GoodLoad(u, w, tags, patch)
    BY DEF WorkInv
  <2>2. past[w] = {} => ~(call[u].at = "checked" /\ call[u].wo = w)
    BY DEF WorkInv, CallInv, CheckedInv, Types, Idle
  <2>3. RecordInv'
    BY <1>1, <1>2, <1>4, <2>1 DEF RecordInv, GoodLoad, Exists, Undisturbed
  <2>4. OwnInv'
    BY <1>1, <1>2, <1>4, <2>1 DEF OwnInv, GoodLoad, Undisturbed, User
  <2> QED BY <2>3, <2>4
<1> QED BY <1>5, <1>6, <1>7, <1>8 DEF WorkInv

(* The row of w changes to r, and every handler that had read it is overtaken; the calls of others
   stay, and a call c of u, if any, is over. *)
Overtakes(w, r, history) ==
  /\ row' = [row EXCEPT ![w] = r]
  /\ past' = [past EXCEPT ![w] = history]
  /\ DOMAIN call' = User
  /\ \A v \in User :
       \/ call'[v] = Idle
       \/ call[v] # Idle /\ call[v].wo = w /\ call'[v] = [call[v] EXCEPT !.stale = TRUE]
       \/ call[v] # Idle /\ call[v].wo # w /\ call'[v] = call[v]

(* A change of a row keeps the invariant when the new row is well formed and, where its history
   asks for it, linked to the process, of a status that matches its step, and recorded. *)
LEMMA OvertakesInv ==
  ASSUME WorkInv, NEW w \in WorkOrder, NEW r, NEW history,
         Overtakes(w, r, history), Exists(w), RowOK(r),
         past[w] \subseteq history, history \subseteq {"forced", "raced", "legacy"},
         row[w].hasProcess = TRUE => r.hasProcess = TRUE,
         r.hasProcess = FALSE => "legacy" \in history,
         r.currentStep = None => r.hasProcess = FALSE,
         r.hasProcess = FALSE /\ r.currentStep # None => "forced" \in history,
         r.currentStep # None /\ "forced" \notin history /\ ~({"raced", "legacy"} \subseteq history)
           => r.status = LegacyStatus(r.currentStep),
         history = {} => Recorded(r)
  PROVE  WorkInv'
<1>1. /\ row'[w] = r /\ past'[w] = history /\ DOMAIN row' = WorkOrder
      /\ past' \in [WorkOrder -> SUBSET {"forced", "raced", "legacy"}]
      /\ \A x \in WorkOrder \ {w} : row'[x] = row[x] /\ past'[x] = past[x]
  BY DEF WorkInv, Types, Overtakes
<1>2. r # NoRow
  BY RowsExist
<1>3. \A x \in WorkOrder : Exists(x)' <=> Exists(x)
  BY <1>1, <1>2 DEF Exists
<1>4. ASSUME NEW v \in User, call'[v] # Idle
      PROVE  /\ call[v] # Idle
             /\ CheckedOK(call[v]) => CheckedOK(call'[v])
             /\ WritingOK(call[v]) => WritingOK(call'[v])
             /\ call'[v].at = call[v].at /\ call'[v].wo = call[v].wo
             /\ call[v].at = "writing" =>
                  call'[v].tags = call[v].tags /\ call'[v].patch = call[v].patch
             /\ call[v].wo = w => call'[v].stale = TRUE
             /\ call[v].wo # w => call'[v] = call[v]
  <2>1. call[v] # Idle /\ (CheckedOK(call[v]) \/ WritingOK(call[v]))
    BY <1>4 DEF WorkInv, Types, Overtakes
  <2>2. CASE call[v].wo = w /\ call'[v] = [call[v] EXCEPT !.stale = TRUE]
    <3>1. WritingOK(call[v]) <=> call[v].at = "writing"
      BY <2>1, CallKinds
    <3>2. /\ CheckedOK(call[v]) => CheckedOK(call'[v])
          /\ WritingOK(call[v]) => /\ WritingOK(call'[v])
                                   /\ call'[v].tags = call[v].tags /\ call'[v].patch = call[v].patch
          /\ call'[v].at = call[v].at /\ call'[v].wo = call[v].wo /\ call'[v].stale = TRUE
      BY <2>1, <2>2, Marked
    <3> QED BY <2>1, <2>2, <3>1, <3>2
  <2>3. CASE call[v].wo # w /\ call'[v] = call[v]
    BY <2>1, <2>3
  <2> QED BY <1>4, <2>2, <2>3 DEF Overtakes
<1>5. Types'
  <2>1. \A v \in User : (call[v] = Idle \/ CheckedOK(call[v]) \/ WritingOK(call[v]))'
    BY <1>4 DEF WorkInv, Types
  <2>2. \A x \in WorkOrder : Exists(x)' => RowOK(row'[x])
    BY <1>1, <1>3 DEF WorkInv, Types
  <2> QED BY <1>1, <2>1, <2>2 DEF Types, Overtakes
<1>6. ProcessInv'
  BY <1>1, <1>3 DEF WorkInv, ProcessInv
<1>7. StatusInv'
  BY <1>1, <1>3 DEF WorkInv, StatusInv
<1>8. CallInv'
  <2> SUFFICES ASSUME NEW v \in User, call'[v] # Idle
               PROVE  (Exists(call[v].wo) /\ CheckedInv(v) /\ WritingInv(v))'
    BY DEF CallInv
  <2>1. call[v].wo \in WorkOrder /\ Exists(call[v].wo) /\ past[call[v].wo] \subseteq past'[call[v].wo]
    BY <1>1, <1>4 DEF WorkInv, Types, CallInv, CheckedOK, WritingOK
  <2>2. call[v].wo = w \/ row'[call[v].wo] = row[call[v].wo]
    BY <1>1, <2>1
  <2>3. row[call[v].wo].hasProcess = TRUE => row'[call[v].wo].hasProcess = TRUE
    BY <1>1, <2>1
  <2>4. CallInv /\ call[v] # Idle /\ call'[v].at = call[v].at /\ call'[v].wo = call[v].wo
    BY <1>4 DEF WorkInv
  <2>5. Exists(call[v].wo)'
    BY <1>3, <2>1, <2>4 DEF Exists
  <2>6. CheckedInv(v)'
    <3> SUFFICES ASSUME call'[v].at = "checked"
                 PROVE  /\ "legacy" \in past'[call[v].wo]
                        /\ call'[v].stale = TRUE \/ row'[call[v].wo].hasProcess = FALSE
      BY <2>4 DEF CheckedInv
    <3>1. "legacy" \in past'[call[v].wo]
      BY <2>1, <2>4 DEF CallInv, CheckedInv
    <3>2. call'[v].stale = TRUE \/ row'[call[v].wo].hasProcess = FALSE
      BY <1>4, <2>2, <2>4 DEF CallInv, CheckedInv
    <3> QED BY <3>1, <3>2
  <2>7. WritingInv(v)'
    <3> SUFFICES ASSUME call'[v].at = "writing"
                 PROVE  WritingInv(v)'
      BY DEF WritingInv
    <3>1. call'[v].tags = call[v].tags /\ call'[v].patch = call[v].patch
      BY <1>4, <2>4
    <3>2. \/ call'[v].stale = TRUE
          \/ call'[v] = call[v] /\ row'[call[v].wo] = row[call[v].wo]
      BY <1>4, <2>2
    <3> DEFINE p == call[v].patch
               x == call[v].wo
    <3>3. "status" \in DOMAIN p /\ "currentStep" \notin DOMAIN p =>
            \/ "forced" \in call[v].tags \cup past'[x]
            \/ /\ "legacy" \in past'[x]
               /\ call'[v].stale = TRUE \/ row'[x].currentStep = None
      BY <2>1, <2>4, <3>2 DEF CallInv, WritingInv
    <3>4. "currentStep" \in DOMAIN p => "forced" \in call[v].tags \cup past'[x] \/ row'[x].hasProcess = TRUE
      BY <2>1, <2>3, <2>4 DEF CallInv, WritingInv
    <3> QED BY <2>4, <3>1, <3>3, <3>4 DEF WritingInv
  <2> QED BY <2>5, <2>6, <2>7
<1>9. ASSUME NEW v \in User, Undisturbed(v)'
      PROVE  /\ Undisturbed(v) /\ call'[v] = call[v] /\ call[v].wo \in WorkOrder \ {w}
  <2>1. call'[v] # Idle
    BY <1>9 DEF Undisturbed, Idle
  <2>2. call[v].wo # w /\ call'[v] = call[v]
    BY <1>4, <1>9, <2>1 DEF Undisturbed
  <2>3. call[v].wo \in WorkOrder
    BY <1>4, <2>1 DEF WorkInv, Types, CheckedOK, WritingOK
  <2> QED BY <1>1, <1>9, <2>2, <2>3 DEF Undisturbed
<1>10. RecordInv'
  <2>1. \A x \in WorkOrder : Exists(x)' /\ past'[x] = {} => Recorded(row'[x])
    BY <1>1, <1>3 DEF WorkInv, RecordInv
  <2>2. \A v \in User : (Undisturbed(v) /\ call[v].tags = {} =>
                           Recorded(Over(call[v].patch, row[call[v].wo])))'
    BY <1>1, <1>9 DEF WorkInv, RecordInv
  <2> QED BY <2>1, <2>2 DEF RecordInv
<1>11. OwnInv'
  BY <1>1, <1>9 DEF WorkInv, OwnInv, User
<1> QED BY <1>5, <1>6, <1>7, <1>8, <1>10, <1>11 DEF WorkInv

-----------------------------------------------------------------------------
(* What the handlers write *)

(* The empty patch has no column. *)
LEMMA NothingGiven == DOMAIN <<>> = {}
  OBVIOUS

(* The columns that a transition's caller may give. *)
LEMMA PayloadFacts ==
  ASSUME NEW p \in Payload
  PROVE  /\ DOMAIN p \subseteq {"negativeReason", "completionNotes", "assignedTo"}
         /\ "negativeReason" \in DOMAIN p => p["negativeReason"] = TRUE
         /\ "completionNotes" \in DOMAIN p => p["completionNotes"] = TRUE
         /\ "assignedTo" \in DOMAIN p => p["assignedTo"] \in Technician
<1>1. CASE p = <<>>
  BY <1>1, NothingGiven
<1>2. CASE p = [negativeReason |-> TRUE]
  BY <1>2
<1>3. CASE p = [completionNotes |-> TRUE]
  BY <1>3
<1>4. CASE \E t \in Technician : p = [assignedTo |-> t]
  BY <1>4
<1> QED BY <1>1, <1>2, <1>3, <1>4 DEF Payload

(* What a column holds once a patch is laid over a row. *)
LEMMA Laid ==
  ASSUME NEW p, NEW r, DOMAIN r = ColumnNames, DOMAIN p \subseteq ColumnNames
  PROVE  /\ DOMAIN Over(p, r) = ColumnNames
         /\ \A c \in ColumnNames : c \in DOMAIN p => Over(p, r)[c] = p[c]
         /\ \A c \in ColumnNames : c \notin DOMAIN p => Over(p, r)[c] = r[c]
<1>1. DOMAIN p \cup DOMAIN r = ColumnNames
  OBVIOUS
<1>2. DOMAIN Over(p, r) = ColumnNames
  BY <1>1, OverAt
<1>3. \A c \in DOMAIN p : Over(p, r)[c] = p[c]
  BY OverAt
<1>4. \A c \in DOMAIN r \ DOMAIN p : Over(p, r)[c] = r[c]
  BY OverAt
<1> QED BY <1>2, <1>3, <1>4

EffectColumns(step) ==
  CASE step = Dispatch -> {"dispatchedAt"}
    [] step = Start -> {"actualStartTime"}
    [] step \in {Positive, Negative} -> {"actualEndTime"}
    [] step = Initial -> {"assignedTo", "actualStartTime", "actualEndTime", "dispatchedAt",
                          "completionNotes", "negativeReason"}
    [] OTHER -> {}

(* A step marks its moment; only the initial one clears what the previous execution left. *)
IsEffect(step, f) ==
  /\ "assignedTo" \in DOMAIN f => f["assignedTo"] = None
  /\ \A c \in DOMAIN f \ {"assignedTo"} :
       (step = Initial => f[c] = FALSE) /\ (step # Initial => f[c] = TRUE)

(* The columns a transition of the engine writes: what the caller gives, then the step, its status
   and its effects. *)
LEMMA EngineWrites ==
  ASSUME NEW step \in Step, NEW p \in Payload
  PROVE  \E f : /\ DOMAIN f = EffectColumns(step) /\ IsEffect(step, f)
                /\ buildUpdateData(step, p) =
                     Over(p, Over([currentStep |-> step, status |-> LegacyStatus(step)], f))
<1> DEFINE effects ==
        CASE step = Dispatch -> [dispatchedAt |-> TRUE]
          [] step = Start -> [actualStartTime |-> TRUE]
          [] step \in {Positive, Negative} -> [actualEndTime |-> TRUE]
          [] step = Initial ->
               Over([assignedTo |-> None],
                    Flags({"actualStartTime", "actualEndTime", "dispatchedAt", "completionNotes",
                           "negativeReason"}, FALSE))
          [] OTHER -> <<>>
<1>1. buildUpdateData(step, p) =
        Over(p, Over([currentStep |-> step, status |-> LegacyStatus(step)], effects))
  BY DEF buildUpdateData
<1>2. DOMAIN effects = EffectColumns(step) /\ IsEffect(step, effects)
  <2> USE DEF Dispatch, Start, Positive, Negative, Initial
  <2>1. CASE step = Dispatch
    <3>1. effects = [dispatchedAt |-> TRUE]
      BY <2>1
    <3>2. EffectColumns(step) = {"dispatchedAt"}
      BY <2>1 DEF EffectColumns
    <3> HIDE DEF effects
    <3> QED BY <2>1, <3>1, <3>2 DEF IsEffect
  <2>2. CASE step = Start
    <3>1. effects = [actualStartTime |-> TRUE]
      BY <2>2
    <3>2. EffectColumns(step) = {"actualStartTime"}
      BY <2>2 DEF EffectColumns
    <3> HIDE DEF effects
    <3> QED BY <2>2, <3>1, <3>2 DEF IsEffect
  <2>3. CASE step \in {Positive, Negative}
    <3>1. effects = [actualEndTime |-> TRUE]
      <4>1. CASE step = Positive
        BY <4>1
      <4>2. CASE step = Negative
        BY <4>2
      <4> QED BY <2>3, <4>1, <4>2
    <3>2. EffectColumns(step) = {"actualEndTime"}
      BY <2>3 DEF EffectColumns
    <3> HIDE DEF effects
    <3> QED BY <2>3, <3>1, <3>2 DEF IsEffect
  <2>4. CASE step = Initial
    <3> DEFINE cleared == {"actualStartTime", "actualEndTime", "dispatchedAt", "completionNotes",
                           "negativeReason"}
               f == [assignedTo |-> None]
               g == Flags(cleared, FALSE)
    <3>1. effects = Over(f, g)
      BY <2>4
    <3>2. EffectColumns(step) = {"assignedTo"} \cup cleared
      BY <2>4 DEF EffectColumns
    <3>3. DOMAIN f = {"assignedTo"} /\ f["assignedTo"] = None
      OBVIOUS
    <3>4. DOMAIN g = cleared /\ \A c \in cleared : g[c] = FALSE
      BY DEF Flags
    <3>5. "assignedTo" \notin cleared
      OBVIOUS
    <3> HIDE DEF effects, f, g, cleared
    <3>6. DOMAIN Over(f, g) = {"assignedTo"} \cup cleared
      BY <3>3, <3>4, OverAt
    <3>9. /\ \A c \in DOMAIN f : Over(f, g)[c] = f[c]
          /\ \A c \in DOMAIN g \ DOMAIN f : Over(f, g)[c] = g[c]
      BY OverAt
    <3>7. Over(f, g)["assignedTo"] = None
      BY <3>3, <3>9
    <3>8. \A c \in cleared : Over(f, g)[c] = FALSE
      BY <3>3, <3>4, <3>5, <3>9
    <3> QED BY <2>4, <3>1, <3>2, <3>5, <3>6, <3>7, <3>8 DEF IsEffect
  <2>5. CASE step \notin {Dispatch, Start, Positive, Negative, Initial}
    <3>1. effects = <<>> /\ EffectColumns(step) = {}
      BY <2>5 DEF EffectColumns
    <3> HIDE DEF effects
    <3> QED BY <3>1, NothingGiven DEF IsEffect
  <2> QED BY <2>1, <2>2, <2>3, <2>4, <2>5
<1> QED BY <1>1, <1>2

(* The same, column by column. *)
LEMMA EnginePatch ==
  ASSUME NEW step \in Step, NEW p \in Payload
  PROVE  LET d == buildUpdateData(step, p) IN
         /\ DOMAIN d = DOMAIN p \cup {"currentStep", "status"} \cup EffectColumns(step)
         /\ d["currentStep"] = step
         /\ d["status"] = LegacyStatus(step)
         /\ \A c \in DOMAIN p : d[c] = p[c]
         /\ "assignedTo" \in EffectColumns(step) \ DOMAIN p => d["assignedTo"] = None
         /\ \A c \in EffectColumns(step) \ (DOMAIN p \cup {"assignedTo"}) :
              (step = Initial => d[c] = FALSE) /\ (step # Initial => d[c] = TRUE)
<1>1. PICK f : /\ DOMAIN f = EffectColumns(step) /\ IsEffect(step, f)
               /\ buildUpdateData(step, p) =
                     Over(p, Over([currentStep |-> step, status |-> LegacyStatus(step)], f))
  BY EngineWrites
<1> DEFINE middle == [currentStep |-> step, status |-> LegacyStatus(step)]
           rest == Over(middle, f)
<1>2. DOMAIN middle = {"currentStep", "status"} /\ middle["currentStep"] = step
      /\ middle["status"] = LegacyStatus(step)
  OBVIOUS
<1>3. EffectColumns(step) \cap {"currentStep", "status"} = {}
  BY DEF EffectColumns
<1>4. DOMAIN p \cap {"currentStep", "status"} = {}
  BY PayloadFacts
<1> HIDE DEF middle
<1>5. /\ DOMAIN rest = DOMAIN middle \cup DOMAIN f
      /\ \A c \in DOMAIN middle : rest[c] = middle[c]
      /\ \A c \in DOMAIN f \ DOMAIN middle : rest[c] = f[c]
  BY OverAt
<1> HIDE DEF rest
<1>6. /\ DOMAIN Over(p, rest) = DOMAIN p \cup DOMAIN rest
      /\ \A c \in DOMAIN p : Over(p, rest)[c] = p[c]
      /\ \A c \in DOMAIN rest \ DOMAIN p : Over(p, rest)[c] = rest[c]
  BY OverAt
<1> DEFINE d == Over(p, rest)
<1>7. buildUpdateData(step, p) = d
  BY <1>1 DEF middle, rest
<1>8. DOMAIN d = DOMAIN p \cup {"currentStep", "status"} \cup EffectColumns(step)
  BY <1>1, <1>2, <1>5, <1>6
<1>9. d["currentStep"] = step /\ d["status"] = LegacyStatus(step)
  BY <1>2, <1>4, <1>5, <1>6
<1>10. \A c \in EffectColumns(step) \ DOMAIN p : d[c] = f[c]
  BY <1>1, <1>2, <1>3, <1>5, <1>6
<1>11. /\ "assignedTo" \in EffectColumns(step) \ DOMAIN p => d["assignedTo"] = None
       /\ \A c \in EffectColumns(step) \ (DOMAIN p \cup {"assignedTo"}) :
            (step = Initial => d[c] = FALSE) /\ (step # Initial => d[c] = TRUE)
  BY <1>1, <1>10 DEF IsEffect
<1> QED BY <1>6, <1>7, <1>8, <1>9, <1>11

(* What the rules of the canonical process demand, by the step they lead to. *)
LEMMA Rules ==
  \A t \in DEFAULT_PROCESS_TRANSITIONS :
    /\ t.from \in Step /\ t.to \in Step \ {Requested}
    /\ t.to = Assigned => \/ t.from = Dispatch
                          \/ t.from = Initial /\ "assignedTo" \in t.required
    /\ t.to = Dispatch => t.from = Assigned
    /\ t.to = EnRoute => t.from = Dispatch
    /\ t.to = Start => t.from = EnRoute
    /\ t.to = Positive => t.from = Start /\ "completionNotes" \in t.required
    /\ t.to \in {Negative, Cancelled} => "negativeReason" \in t.required
    /\ "technician" \in t.roles => t.from \in {Dispatch, EnRoute, Start}
<1> SUFFICES ASSUME NEW t \in DEFAULT_PROCESS_TRANSITIONS
             PROVE  /\ t.from \in Step /\ t.to \in Step \ {Requested}
                    /\ t.to = Assigned => \/ t.from = Dispatch
                                          \/ t.from = Initial /\ "assignedTo" \in t.required
                    /\ t.to = Dispatch => t.from = Assigned
                    /\ t.to = EnRoute => t.from = Dispatch
                    /\ t.to = Start => t.from = EnRoute
                    /\ t.to = Positive => t.from = Start /\ "completionNotes" \in t.required
                    /\ t.to \in {Negative, Cancelled} => "negativeReason" \in t.required
                    /\ "technician" \in t.roles => t.from \in {Dispatch, EnRoute, Start}
  OBVIOUS
<1> USE DEF Requested, Initial, Assigned, Dispatch, EnRoute, Start, Positive, Negative, Cancelled,
        Step, Rule, Anyone, Office
<1>1. CASE \E open \in {Initial, Assigned, Dispatch, EnRoute, Start} :
             t = Rule(open, Cancelled, Office, {"negativeReason"})
  BY <1>1
<1>2. CASE t \in { Rule(Requested, Initial, Office, {}),
                   Rule(Requested, Negative, Office, {"negativeReason"}),
                   Rule(Initial, Assigned, Office, {"assignedTo"}),
                   Rule(Assigned, Dispatch, Office, {}) }
  BY <1>2
<1>3. CASE t \in { Rule(Dispatch, EnRoute, Anyone, {}),
                   Rule(EnRoute, Start, Anyone, {}),
                   Rule(Start, Positive, Anyone, {"completionNotes"}),
                   Rule(Start, Negative, Anyone, {"negativeReason"}) }
  BY <1>3
<1>4. CASE t \in { Rule(Assigned, Initial, Office, {}),
                   Rule(Dispatch, Assigned, Office, {}),
                   Rule(Positive, Initial, {"admin"}, {"reopenReason"}),
                   Rule(Negative, Initial, Office, {}),
                   Rule(Cancelled, Initial, Office, {}) }
  BY <1>4
<1> QED BY <1>1, <1>2, <1>3, <1>4 DEF DEFAULT_PROCESS_TRANSITIONS

(* Statuses by their step. *)
LEMMA StatusOf ==
  /\ LegacyStatus(Requested) = "REQUESTED" /\ LegacyStatus(Initial) = "CREATED"
  /\ LegacyStatus(Assigned) = "ASSIGNED" /\ LegacyStatus(Dispatch) = "DISPATCHED"
  /\ LegacyStatus(EnRoute) = "EN_ROUTE" /\ LegacyStatus(Start) = "IN_PROGRESS"
  /\ LegacyStatus(Positive) = "COMPLETED_POSITIVE" /\ LegacyStatus(Negative) = "COMPLETED_NEGATIVE"
  /\ LegacyStatus(Cancelled) = "CANCELLED"
  BY DEF LegacyStatus, Requested, Initial, Assigned, Dispatch, EnRoute, Start, Positive, Negative,
     Cancelled

(* On a row of its own history the process is linked, and the status is that of the step. *)
LEMMA Untouched ==
  ASSUME WorkInv, NEW w \in WorkOrder, Exists(w), past[w] = {}
  PROVE  /\ row[w].hasProcess = TRUE
         /\ row[w].currentStep \in Step
         /\ row[w].status = LegacyStatus(row[w].currentStep)
         /\ Recorded(row[w])
<1>1. row[w].hasProcess = TRUE
  BY DEF WorkInv, ProcessInv, Types, RowOK
<1>2. row[w].currentStep # None
  BY <1>1 DEF WorkInv, ProcessInv
<1>3. row[w].currentStep \in Step
  BY <1>2 DEF WorkInv, Types, RowOK
<1>4. row[w].status = LegacyStatus(row[w].currentStep)
  BY <1>2 DEF WorkInv, StatusInv
<1> QED BY <1>1, <1>3, <1>4 DEF WorkInv, RecordInv

-----------------------------------------------------------------------------
(* The handlers *)

(* A transition that the engine accepts by one of its rules, on a recorded row, records what the
   new status requires. *)
LEMMA EngineRecords ==
  ASSUME NEW r, RowOK(r), r.currentStep \in Step, r.status = LegacyStatus(r.currentStep), Recorded(r),
         NEW step \in Step, NEW p \in Payload,
         NEW t \in DEFAULT_PROCESS_TRANSITIONS, t.from = r.currentStep, t.to = step,
         t.required \ {"reopenReason"} \subseteq DOMAIN p
  PROVE  Recorded(Over(buildUpdateData(step, p), r))
<1> DEFINE d == buildUpdateData(step, p)
           n == Over(d, r)
<1> SUFFICES Recorded(n)
  OBVIOUS
<1>1. /\ DOMAIN d = DOMAIN p \cup {"currentStep", "status"} \cup EffectColumns(step)
      /\ d["status"] = LegacyStatus(step)
      /\ \A c \in DOMAIN p : d[c] = p[c]
      /\ \A c \in EffectColumns(step) \ (DOMAIN p \cup {"assignedTo"}) :
           (step = Initial => d[c] = FALSE) /\ (step # Initial => d[c] = TRUE)
  BY EnginePatch
<1>2. EffectColumns(step) \subseteq ColumnNames \ {"hasProcess", "status"}
  BY DEF EffectColumns, ColumnNames
<1>3. /\ DOMAIN p \subseteq {"negativeReason", "completionNotes", "assignedTo"}
      /\ "negativeReason" \in DOMAIN p => p["negativeReason"] = TRUE
      /\ "completionNotes" \in DOMAIN p => p["completionNotes"] = TRUE
      /\ "assignedTo" \in DOMAIN p => p["assignedTo"] # None
  BY PayloadFacts, Steps
<1> HIDE DEF d
<1>4. DOMAIN d \subseteq ColumnNames /\ DOMAIN r = ColumnNames
  BY <1>1, <1>2, <1>3 DEF ColumnNames, RowOK
<1>5. /\ \A c \in ColumnNames : c \in DOMAIN d => n[c] = d[c]
      /\ \A c \in ColumnNames : c \notin DOMAIN d => n[c] = r[c]
  BY <1>4, Laid
<1> HIDE DEF n
<1>6. n["status"] = LegacyStatus(step)
  BY <1>1, <1>5 DEF ColumnNames
<1>7. \A c \in DOMAIN p : n[c] = p[c]
  BY <1>1, <1>4, <1>5
<1>8. \A c \in {"assignedTo", "dispatchedAt", "actualStartTime"} \ (DOMAIN p \cup EffectColumns(step)) :
        n[c] = r[c]
  BY <1>1, <1>5 DEF ColumnNames
<1>9. step # Initial /\ r["assignedTo"] # None /\ "assignedTo" \notin EffectColumns(step) => n["assignedTo"] # None
  BY <1>3, <1>7, <1>8
<1>10. "dispatchedAt" \notin DOMAIN p /\ "actualStartTime" \notin DOMAIN p
  BY <1>3
<1>11. r["status"] = LegacyStatus(t.from)
  OBVIOUS
<1>12. CASE step = Initial
  <2>1. {"dispatchedAt", "actualStartTime", "actualEndTime"} \subseteq EffectColumns(step) \ (DOMAIN p \cup {"assignedTo"})
    BY <1>3, <1>12 DEF EffectColumns, Initial, Dispatch, Start, Positive, Negative
  <2>2. n["dispatchedAt"] = FALSE /\ n["actualStartTime"] = FALSE /\ n["actualEndTime"] = FALSE
    BY <1>1, <1>5, <1>12, <2>1 DEF ColumnNames
  <2> QED BY <1>6, <1>12, <2>2, StatusOf DEF Recorded
<1>13. CASE step = Assigned
  <2>1. EffectColumns(step) = {}
    BY <1>13 DEF EffectColumns, Initial, Assigned, Dispatch, Start, Positive, Negative
  <2>2. n["assignedTo"] # None
    <3>1. CASE t.from = Dispatch
      BY <1>3, <1>7, <1>8, <1>11, <2>1, <3>1, StatusOf DEF Recorded
    <3>2. CASE "assignedTo" \in t.required
      BY <1>3, <1>7, <3>2
    <3> QED BY <1>13, <3>1, <3>2, Rules
  <2> QED BY <1>6, <1>13, <2>2, StatusOf DEF Recorded
<1>14. CASE step = Dispatch
  <2>1. EffectColumns(step) = {"dispatchedAt"} /\ step # Initial
    BY <1>14 DEF EffectColumns, Initial, Dispatch, Start, Positive, Negative
  <2>2. n["dispatchedAt"] = TRUE
    BY <1>1, <1>5, <1>10, <2>1 DEF ColumnNames
  <2>3. n["assignedTo"] # None
    BY <1>3, <1>7, <1>8, <1>11, <1>14, <2>1, StatusOf, Rules DEF Recorded
  <2> QED BY <1>6, <1>14, <2>2, <2>3, StatusOf DEF Recorded
<1>15. CASE step = EnRoute
  <2>1. EffectColumns(step) = {}
    BY <1>15 DEF EffectColumns, Initial, EnRoute, Dispatch, Start, Positive, Negative
  <2>2. r["assignedTo"] # None /\ r["dispatchedAt"] = TRUE
    BY <1>11, <1>15, StatusOf, Rules DEF Recorded
  <2>3. n["assignedTo"] # None
    BY <1>3, <1>7, <1>8, <2>1, <2>2
  <2>4. n["dispatchedAt"] = TRUE
    BY <1>8, <1>10, <2>1, <2>2
  <2> QED BY <1>6, <1>15, <2>3, <2>4, StatusOf DEF Recorded
<1>16. CASE step = Start
  <2>1. EffectColumns(step) = {"actualStartTime"} /\ step # Initial
    BY <1>16 DEF EffectColumns, Initial, Dispatch, Start, Positive, Negative
  <2>2. r["assignedTo"] # None /\ r["dispatchedAt"] = TRUE
    BY <1>11, <1>16, StatusOf, Rules DEF Recorded
  <2>3. n["assignedTo"] # None
    BY <1>3, <1>7, <1>8, <2>1, <2>2
  <2>4. n["dispatchedAt"] = TRUE
    BY <1>8, <1>10, <2>1, <2>2
  <2>5. n["actualStartTime"] = TRUE
    BY <1>1, <1>5, <1>10, <2>1 DEF ColumnNames
  <2> QED BY <1>6, <1>16, <2>3, <2>4, <2>5, StatusOf DEF Recorded
<1>17. CASE step = Positive
  <2>1. EffectColumns(step) = {"actualEndTime"}
    BY <1>17 DEF EffectColumns, Initial, Dispatch, Start, Positive, Negative
  <2>2. r["assignedTo"] # None /\ r["dispatchedAt"] = TRUE /\ r["actualStartTime"] = TRUE
    BY <1>11, <1>17, StatusOf, Rules DEF Recorded
  <2>3. n["assignedTo"] # None
    BY <1>3, <1>7, <1>8, <2>1, <2>2
  <2>4. n["dispatchedAt"] = TRUE /\ n["actualStartTime"] = TRUE
    BY <1>8, <1>10, <2>1, <2>2
  <2>5. n["completionNotes"] = TRUE
    BY <1>3, <1>7, <1>17, Rules
  <2> QED BY <1>6, <1>17, <2>3, <2>4, <2>5, StatusOf DEF Recorded
<1>18. CASE step \in {Negative, Cancelled}
  <2>1. n["negativeReason"] = TRUE
    BY <1>3, <1>7, <1>18, Rules
  <2> QED BY <1>6, <1>18, <2>1, StatusOf DEF Recorded
<1> QED BY <1>12, <1>13, <1>14, <1>15, <1>16, <1>17, <1>18, Rules DEF Step

(* Roles and users. *)
LEMMA Roles ==
  ASSUME NEW u \in User
  PROVE  /\ Role(u) \in {"admin", "dispatcher", "portal", "technician"}
         /\ u \in Technician <=> Role(u) = "technician"
         /\ u \in Office <=> Role(u) \in Office
  BY TechnicianAssumption DEF User, Office, Role

(* The engine. *)
LEMMA EngineStep ==
  ASSUME WorkInv, NEW u \in User, NEW w \in WorkOrder, NEW step \in Step, NEW p \in Payload,
         Exists(w), executeTransition(u, w, step, p)
  PROVE  WorkInv'
<1> DEFINE d == buildUpdateData(step, p)
           rules == Configured(row[w].currentStep, step)
           tags == Forcing(rules = {})
<1>1. Load(u, w, tags, d) /\ call[u] = Idle /\ EngineAccepts(u, w, step, p)
  BY DEF executeTransition
<1>2. tags \subseteq {"forced"} /\ (tags = {} <=> rules # {}) /\ (rules = {} => "forced" \in tags)
  BY DEF Forcing
<1>3. /\ DOMAIN d = DOMAIN p \cup {"currentStep", "status"} \cup EffectColumns(step)
      /\ d["currentStep"] = step
      /\ d["status"] = LegacyStatus(step)
  BY EnginePatch
<1> HIDE DEF d
<1>4. PatchOK(d)
  <2>1. EffectColumns(step) \subseteq ColumnNames \ {"hasProcess", "status", "currentStep"}
    BY DEF EffectColumns, ColumnNames
  <2>2. DOMAIN p \subseteq ColumnNames \ {"hasProcess"}
    BY PayloadFacts DEF ColumnNames
  <2>3. DOMAIN d \subseteq ColumnNames \ {"hasProcess"}
    BY <1>3, <2>1, <2>2 DEF ColumnNames
  <2> QED BY <1>3, <2>3, Steps DEF PatchOK
<1>5. rules # {} => row[w].currentStep \in Step
  BY Rules DEF Configured
<1>6. "forced" \in tags \cup past[w] \/ row[w].hasProcess = TRUE
  <2>1. CASE rules = {}
    BY <1>2, <2>1
  <2>2. CASE rules # {}
    BY <1>5, <2>2, Steps DEF WorkInv, ProcessInv, Types, RowOK
  <2> QED BY <2>1, <2>2
<1>7. ASSUME past[w] = {}, tags = {}
      PROVE  Recorded(Over(d, row[w]))
  <2>1. PICK t \in rules : t.required \ {"reopenReason"} \subseteq DOMAIN p
    BY <1>1, <1>2, <1>7 DEF EngineAccepts
  <2>2. RowOK(row[w]) /\ row[w].currentStep \in Step /\ Recorded(row[w])
        /\ row[w].status = LegacyStatus(row[w].currentStep)
    BY <1>7, Untouched DEF WorkInv, Types
  <2>3. t \in DEFAULT_PROCESS_TRANSITIONS /\ t.from = row[w].currentStep /\ t.to = step
    BY <2>1 DEF Configured
  <2> QED BY <2>1, <2>2, <2>3, EngineRecords DEF d
<1>8. ASSUME past[w] = {}, u \in Technician
      PROVE  row[w].assignedTo = u /\ row[w].status \in TECHNICIAN_OPEN_STATUSES
  <2>1. Role(u) = "technician"
    BY <1>8 DEF Role
  <2>2. row[w].assignedTo = u
    BY <1>1, <2>1 DEF EngineAccepts, OwnOrOffice
  <2>3. PICK t \in rules : "technician" \in t.roles
    BY <1>1, <2>1 DEF EngineAccepts
  <2>4. row[w].currentStep \in {Dispatch, EnRoute, Start}
    BY <2>3, Rules DEF Configured
  <2>5. row[w].status = LegacyStatus(row[w].currentStep)
    BY <1>8, Untouched
  <2> QED BY <2>2, <2>4, <2>5, StatusOf DEF TECHNICIAN_OPEN_STATUSES
<1> HIDE DEF tags
<1>9. GoodLoad(u, w, tags, d)
  BY <1>1, <1>2, <1>3, <1>4, <1>6, <1>7, <1>8 DEF GoodLoad
<1> QED BY <1>1, <1>9, LoadInv

(* The columns a legacy transition writes: the status, and no step. *)
LEMMA LegacyPatch ==
  ASSUME NEW from, NEW status \in WorkOrderStatus, NEW p \in Payload
  PROVE  LET d == legacyUpdateData(from, status, p) IN
         /\ DOMAIN d \subseteq ColumnNames \ {"hasProcess", "currentStep"}
         /\ d["status"] = status
<1> DEFINE given(columns) == [c \in columns \cap DOMAIN p |-> p[c]]
           cleared == {"completionNotes", "actualEndTime", "actualStartTime"} \cup
                        (IF from = "COMPLETED_NEGATIVE" THEN {"negativeReason"} ELSE {})
           effects ==
        CASE status = "ASSIGNED" -> given({"assignedTo"})
          [] status = "CREATED" /\ from = "ASSIGNED" -> [assignedTo |-> None]
          [] status = "CREATED" /\ from \in {"COMPLETED_NEGATIVE", "COMPLETED_POSITIVE"} ->
               Over([assignedTo |-> None], Flags(cleared, FALSE))
          [] status = "DISPATCHED" -> [dispatchedAt |-> TRUE]
          [] status = "IN_PROGRESS" -> [actualStartTime |-> TRUE]
          [] status \in {"COMPLETED_POSITIVE", "COMPLETED_NEGATIVE"} ->
               Over([actualEndTime |-> TRUE], given({"completionNotes", "negativeReason"}))
          [] OTHER -> <<>>
<1>1. legacyUpdateData(from, status, p) = Over([status |-> status], effects)
  BY DEF legacyUpdateData
<1>2. DOMAIN effects \subseteq ColumnNames \ {"hasProcess", "currentStep", "status"}
  <2>1. CASE status = "ASSIGNED"
    BY <2>1 DEF ColumnNames
  <2>2. CASE status = "CREATED"
    <3> DEFINE f == [assignedTo |-> None]
               g == Flags(cleared, FALSE)
    <3>3. DOMAIN f = {"assignedTo"} /\ DOMAIN g = cleared
      BY DEF Flags
    <3>4. DOMAIN Over(f, g) = DOMAIN f \cup DOMAIN g
      <4> HIDE DEF f, g
      <4> QED BY OverAt
    <3>1. DOMAIN Over([assignedTo |-> None], Flags(cleared, FALSE)) = {"assignedTo"} \cup cleared
      BY <3>3, <3>4
    <3>2. DOMAIN effects \subseteq {"assignedTo"} \cup cleared
      BY <2>2, <3>1, NothingGiven
    <3> QED BY <3>2 DEF ColumnNames
  <2>3. CASE status = "DISPATCHED"
    BY <2>3 DEF ColumnNames
  <2>4. CASE status = "IN_PROGRESS"
    BY <2>4 DEF ColumnNames
  <2>5. CASE status \in {"COMPLETED_POSITIVE", "COMPLETED_NEGATIVE"}
    <3>1. DOMAIN Over([actualEndTime |-> TRUE], given({"completionNotes", "negativeReason"}))
            \subseteq {"actualEndTime", "completionNotes", "negativeReason"}
      <4> DEFINE f == [actualEndTime |-> TRUE]
                 g == given({"completionNotes", "negativeReason"})
      <4>1. DOMAIN f = {"actualEndTime"} /\ DOMAIN g \subseteq {"completionNotes", "negativeReason"}
        OBVIOUS
      <4>2. DOMAIN Over(f, g) = DOMAIN f \cup DOMAIN g
        <5> HIDE DEF f, g
        <5> QED BY OverAt
      <4> QED BY <4>1, <4>2
    <3>2. effects = Over([actualEndTime |-> TRUE], given({"completionNotes", "negativeReason"}))
      BY <2>5
    <3> QED BY <3>1, <3>2 DEF ColumnNames
  <2>6. CASE status \notin {"ASSIGNED", "CREATED", "DISPATCHED", "IN_PROGRESS",
                            "COMPLETED_POSITIVE", "COMPLETED_NEGATIVE"}
    BY <2>6, NothingGiven
  <2> QED BY <2>1, <2>2, <2>3, <2>4, <2>5, <2>6
<1> DEFINE s == [status |-> status]
<1>3. DOMAIN s = {"status"} /\ s["status"] = status
  OBVIOUS
<1> HIDE DEF effects, s
<1>4. /\ DOMAIN Over(s, effects) = DOMAIN s \cup DOMAIN effects
      /\ \A c \in DOMAIN s : Over(s, effects)[c] = s[c]
  BY OverAt
<1> QED BY <1>1, <1>2, <1>3, <1>4 DEF s, ColumnNames

(* The legacy path. *)
LEMMA LegacyStep ==
  ASSUME WorkInv, NEW u \in User, NEW w \in WorkOrder, NEW status \in WorkOrderStatus,
         NEW p \in Payload, Exists(w), legacyTransition(u, w, status, p)
  PROVE  WorkInv'
<1> DEFINE d == legacyUpdateData(row[w].status, status, p)
           tags == Forcing(<<row[w].status, status>> \notin VALID_TRANSITIONS)
<1>1. /\ Load(u, w, tags, d)
      /\ \/ call[u] = Idle /\ ~row[w].hasProcess
         \/ call[u].at = "checked" /\ call[u].wo = w
  BY DEF legacyTransition
<1>2. tags \subseteq {"forced"}
  BY DEF Forcing
<1>3. DOMAIN d \subseteq ColumnNames \ {"hasProcess", "currentStep"} /\ d["status"] = status
  BY LegacyPatch
<1> HIDE DEF d, tags
<1>4. PatchOK(d)
  BY <1>3 DEF PatchOK
<1>5. /\ "legacy" \in past[w]
      /\ \/ call[u] # Idle /\ call[u].stale = TRUE
         \/ row[w].hasProcess = FALSE
  <2>1. CASE call[u] = Idle /\ ~row[w].hasProcess
    BY <2>1 DEF WorkInv, Types, RowOK, ProcessInv
  <2>2. CASE call[u].at = "checked" /\ call[u].wo = w
    BY <2>2 DEF WorkInv, CallInv, CheckedInv, Idle
  <2> QED BY <1>1, <2>1, <2>2
<1>6. \/ "forced" \in tags \cup past[w]
      \/ /\ "legacy" \in past[w]
         /\ \/ call[u] # Idle /\ call[u].stale = TRUE
            \/ row[w].currentStep = None
  BY <1>5 DEF WorkInv, ProcessInv
<1>7. GoodLoad(u, w, tags, d)
  BY <1>1, <1>2, <1>3, <1>4, <1>5, <1>6 DEF GoodLoad
<1> QED BY <1>1, <1>7, LoadInv

(* The handlers of the office. *)
LEMMA AssignAndDispatchStep ==
  ASSUME WorkInv, NEW u \in User, NEW w \in WorkOrder, NEW t \in Technician,
         Exists(w), assignAndDispatch(u, w, t)
  PROVE  WorkInv'
<1> DEFINE f == [status |-> "DISPATCHED", assignedTo |-> t, dispatchedAt |-> TRUE]
           g == IF row[w].hasProcess THEN [currentStep |-> Dispatch] ELSE <<>>
           d == Over(f, g)
           n == Over(d, row[w])
<1>1. Load(u, w, {}, d) /\ call[u] = Idle /\ u \in Office
  BY DEF assignAndDispatch
<1>2. /\ DOMAIN f = {"status", "assignedTo", "dispatchedAt"}
      /\ f["status"] = "DISPATCHED" /\ f["assignedTo"] = t /\ f["dispatchedAt"] = TRUE
  OBVIOUS
<1>3. /\ row[w].hasProcess = TRUE => DOMAIN g = {"currentStep"} /\ g["currentStep"] = Dispatch
      /\ row[w].hasProcess = FALSE => DOMAIN g = {}
      /\ row[w].hasProcess \in BOOLEAN
  BY NothingGiven DEF WorkInv, Types, RowOK
<1> HIDE DEF f, g
<1>4. /\ DOMAIN d = DOMAIN f \cup DOMAIN g
      /\ \A c \in DOMAIN f : d[c] = f[c]
      /\ \A c \in DOMAIN g \ DOMAIN f : d[c] = g[c]
  BY OverAt
<1> HIDE DEF d
<1>5. PatchOK(d)
  <2>1. DOMAIN d \subseteq ColumnNames \ {"hasProcess"} /\ "status" \in DOMAIN d
    BY <1>2, <1>3, <1>4 DEF ColumnNames
  <2>2. d["status"] = "DISPATCHED"
    BY <1>2, <1>4
  <2>3. "currentStep" \in DOMAIN d => d["currentStep"] = Dispatch
    BY <1>2, <1>3, <1>4
  <2>4. Dispatch \in Step /\ "DISPATCHED" \in WorkOrderStatus
    BY DEF Step, WorkOrderStatus
  <2> QED BY <2>1, <2>2, <2>3, <2>4, StatusOf DEF PatchOK
<1>6. "currentStep" \in DOMAIN d <=> row[w].hasProcess = TRUE
  BY <1>2, <1>3, <1>4
<1>7. row[w].hasProcess = FALSE => /\ "legacy" \in past[w]
                                   /\ "forced" \in past[w] \/ row[w].currentStep = None
  BY DEF WorkInv, ProcessInv
<1>8. ASSUME past[w] = {}
      PROVE  Recorded(n)
  <2>1. DOMAIN d \subseteq ColumnNames /\ DOMAIN row[w] = ColumnNames
    BY <1>5 DEF PatchOK, WorkInv, Types, RowOK
  <2>2. \A c \in ColumnNames : c \in DOMAIN d => n[c] = d[c]
    BY <2>1, Laid
  <2> HIDE DEF n
  <2>3. n["status"] = "DISPATCHED" /\ n["assignedTo"] = t /\ n["dispatchedAt"] = TRUE
    BY <1>2, <1>4, <2>2 DEF ColumnNames
  <2> QED BY <2>3, Steps DEF Recorded
<1>9. u \notin Technician
  BY <1>1, TechnicianAssumption DEF Office
<1>10. GoodLoad(u, w, {}, d)
  BY <1>1, <1>3, <1>5, <1>6, <1>7, <1>8, <1>9 DEF GoodLoad
<1> QED BY <1>1, <1>10, LoadInv

LEMMA ReassignStep ==
  ASSUME WorkInv, NEW u \in User, NEW w \in WorkOrder, NEW t \in Technician,
         Exists(w), reassign(u, w, t)
  PROVE  WorkInv'
<1> DEFINE f == [status |-> "ASSIGNED", assignedTo |-> t]
           cleared == {"dispatchedAt", "actualStartTime", "actualEndTime", "completionNotes",
                       "negativeReason"}
           g == Flags(cleared, FALSE)
           d == Over(f, g)
<1>1. Load(u, w, {"forced"}, d) /\ call[u] = Idle /\ u \in Office
  BY DEF reassign
<1>2. DOMAIN f = {"status", "assignedTo"} /\ f["status"] = "ASSIGNED"
  OBVIOUS
<1>3. DOMAIN g = cleared
  BY DEF Flags
<1> HIDE DEF f, g
<1>4. /\ DOMAIN d = DOMAIN f \cup DOMAIN g
      /\ \A c \in DOMAIN f : d[c] = f[c]
  BY OverAt
<1> HIDE DEF d
<1>5. DOMAIN d \subseteq ColumnNames \ {"hasProcess", "currentStep"} /\ d["status"] = "ASSIGNED"
  BY <1>2, <1>3, <1>4 DEF ColumnNames
<1>6. PatchOK(d)
  BY <1>5 DEF PatchOK, WorkOrderStatus
<1>7. u \notin Technician
  BY <1>1, TechnicianAssumption DEF Office
<1>8. GoodLoad(u, w, {"forced"}, d)
  BY <1>1, <1>5, <1>6, <1>7 DEF GoodLoad
<1> QED BY <1>1, <1>8, LoadInv

(* An edit that names neither the status nor what it requires leaves a row recorded. *)
LEMMA EditRecords ==
  ASSUME NEW r, RowOK(r), Recorded(r), NEW e,
         DOMAIN e \subseteq {"completionNotes", "negativeReason", "templateData"},
         \/ DOMAIN e \subseteq {"templateData"}
         \/ r.status \in TECHNICIAN_OPEN_STATUSES
  PROVE  Recorded(Over(e, r))
<1> DEFINE n == Over(e, r)
<1> SUFFICES Recorded(n)
  OBVIOUS
<1>1. DOMAIN r = ColumnNames /\ DOMAIN e \subseteq ColumnNames
  BY DEF RowOK, ColumnNames
<1>2. \A c \in ColumnNames : c \notin DOMAIN e => n[c] = r[c]
  BY <1>1, Laid
<1> HIDE DEF n
<1>3. /\ n["status"] = r["status"] /\ n["assignedTo"] = r["assignedTo"]
      /\ n["dispatchedAt"] = r["dispatchedAt"] /\ n["actualStartTime"] = r["actualStartTime"]
      /\ n["actualEndTime"] = r["actualEndTime"]
  BY <1>2 DEF ColumnNames
<1>4. CASE DOMAIN e \subseteq {"templateData"}
  <2>1. n["completionNotes"] = r["completionNotes"] /\ n["negativeReason"] = r["negativeReason"]
    BY <1>2, <1>4 DEF ColumnNames
  <2> QED BY <1>3, <2>1 DEF Recorded
<1>5. CASE r.status \in TECHNICIAN_OPEN_STATUSES
  BY <1>3, <1>5 DEF Recorded, TECHNICIAN_OPEN_STATUSES
<1> QED BY <1>4, <1>5

(* Fields and notes edited by a technician, any field by the office. *)
LEMMA EditColumns ==
  ASSUME NEW u \in User, NEW e \in Edits(u)
  PROVE  /\ DOMAIN e \subseteq {"completionNotes", "negativeReason", "templateData", "assignedTo"}
         /\ u \notin Office => "assignedTo" \notin DOMAIN e
<1>1. CASE \E column \in {"completionNotes", "negativeReason"}, value \in BOOLEAN :
             e = [c \in {column} |-> value]
  BY <1>1
<1>2. CASE \E F \in SUBSET Field \ {{}} : e = [templateData |-> F]
  BY <1>2
<1>3. CASE u \in Office /\ \E t \in Technician \cup {None} : e = [assignedTo |-> t]
  BY <1>3
<1> QED BY <1>1, <1>2, <1>3 DEF Edits

LEMMA UpdateStep ==
  ASSUME WorkInv, NEW u \in User, NEW w \in WorkOrder, NEW e \in Edits(u),
         Exists(w), update(u, w, e)
  PROVE  WorkInv'
<1> DEFINE tags == Forcing(u \in Office /\ DOMAIN e # {"templateData"})
<1>1. Load(u, w, tags, e) /\ call[u] = Idle /\ u # "portal" /\ MayMutate(u, w)
  BY DEF update
<1>2. /\ tags \subseteq {"forced"}
      /\ tags = {} => u \notin Office \/ DOMAIN e = {"templateData"}
  BY DEF Forcing
<1>3. /\ DOMAIN e \subseteq {"completionNotes", "negativeReason", "templateData", "assignedTo"}
      /\ u \notin Office => "assignedTo" \notin DOMAIN e
  BY EditColumns
<1>4. PatchOK(e) /\ "status" \notin DOMAIN e /\ "currentStep" \notin DOMAIN e
  BY <1>3 DEF PatchOK, ColumnNames
<1>5. u \notin Office => u \in Technician
  BY <1>1 DEF User
<1>6. u \in Technician => row[w].assignedTo = u /\ row[w].status \in TECHNICIAN_OPEN_STATUSES
  BY <1>1 DEF MayMutate, Role
<1>7. ASSUME past[w] = {}, tags = {}
      PROVE  Recorded(Over(e, row[w]))
  <2>1. RowOK(row[w]) /\ Recorded(row[w])
    BY <1>7, Untouched DEF WorkInv, Types
  <2>2. \/ DOMAIN e \subseteq {"templateData"}
        \/ /\ row[w].status \in TECHNICIAN_OPEN_STATUSES
           /\ DOMAIN e \subseteq {"completionNotes", "negativeReason", "templateData"}
    BY <1>2, <1>3, <1>5, <1>6, <1>7
  <2> QED BY <2>1, <2>2, EditRecords
<1> HIDE DEF tags
<1>8. GoodLoad(u, w, tags, e)
  BY <1>1, <1>2, <1>4, <1>6, <1>7 DEF GoodLoad
<1> QED BY <1>1, <1>8, LoadInv

(* Signatures and notes write no column of the model. *)
LEMMA TouchStep ==
  ASSUME WorkInv, NEW u \in User, NEW w \in WorkOrder, Exists(w), touch(u, w)
  PROVE  WorkInv'
<1> DEFINE e == <<>>
<1>1. Load(u, w, {}, e) /\ call[u] = Idle /\ MayMutate(u, w)
  BY DEF touch
<1>2. DOMAIN e = {}
  BY NothingGiven
<1> HIDE DEF e
<1>3. PatchOK(e)
  BY <1>2 DEF PatchOK
<1>4. u \in Technician => row[w].assignedTo = u /\ row[w].status \in TECHNICIAN_OPEN_STATUSES
  BY <1>1 DEF MayMutate, Role
<1>5. ASSUME past[w] = {}
      PROVE  Recorded(Over(e, row[w]))
  BY <1>2, <1>5, Untouched, EditRecords DEF WorkInv, Types
<1>6. GoodLoad(u, w, {}, e)
  BY <1>1, <1>2, <1>3, <1>4, <1>5 DEF GoodLoad
<1> QED BY <1>1, <1>6, LoadInv

(* The first read of the legacy path, and its refusal. *)
LEMMA CheckLockStep ==
  ASSUME WorkInv, NEW u \in User, NEW w \in WorkOrder, Exists(w), legacyCheckLock(u, w)
  PROVE  WorkInv'
<1> DEFINE d == [at |-> "checked", wo |-> w, stale |-> FALSE]
<1>1. /\ DOMAIN call = User /\ call' = [call EXCEPT ![u] = d] /\ row' = row /\ past' = past
      /\ row[w].hasProcess = FALSE
  BY DEF WorkInv, Types, RowOK, legacyCheckLock
<1>2. CheckedOK(d) /\ d # Idle /\ d.at = "checked" /\ d.wo = w
  BY DEF CheckedOK, Idle
<1> HIDE DEF d
<1>3. DOMAIN call' = User /\ call'[u] = d /\ \A v \in User \ {u} : call'[v] = call[v]
  BY <1>1
<1>4. Types'
  BY <1>1, <1>2, <1>3 DEF WorkInv, Types, Exists
<1>5. ProcessInv' /\ StatusInv'
  BY <1>1 DEF WorkInv, ProcessInv, StatusInv, Exists
<1>6. "legacy" \in past[w]
  BY <1>1 DEF WorkInv, ProcessInv
<1>7. CallInv'
  BY <1>1, <1>2, <1>3, <1>6 DEF WorkInv, CallInv, Exists, CheckedInv, WritingInv
<1>8. RecordInv'
  BY <1>1, <1>2, <1>3 DEF WorkInv, RecordInv, Exists, Undisturbed
<1>9. OwnInv'
  BY <1>1, <1>2, <1>3 DEF WorkInv, OwnInv, Undisturbed, User
<1> QED BY <1>4, <1>5, <1>7, <1>8, <1>9 DEF WorkInv

LEMMA RefusedStep ==
  ASSUME WorkInv, NEW u \in User, legacyRefused(u)
  PROVE  WorkInv'
<1>1. DOMAIN call = User /\ call' = [call EXCEPT ![u] = Idle] /\ row' = row /\ past' = past
  BY DEF WorkInv, Types, legacyRefused
<1>2. Idle.at = "idle"
  BY DEF Idle
<1>3. DOMAIN call' = User /\ call'[u] = Idle /\ \A v \in User \ {u} : call'[v] = call[v]
  BY <1>1
<1>4. Types'
  BY <1>1, <1>3 DEF WorkInv, Types, Exists
<1>5. ProcessInv' /\ StatusInv'
  BY <1>1 DEF WorkInv, ProcessInv, StatusInv, Exists
<1>6. CallInv'
  BY <1>1, <1>3 DEF WorkInv, CallInv, Exists, CheckedInv, WritingInv
<1>7. RecordInv' /\ OwnInv'
  BY <1>1, <1>2, <1>3 DEF WorkInv, RecordInv, OwnInv, Exists, Undisturbed, User
<1> QED BY <1>4, <1>5, <1>6, <1>7 DEF WorkInv

(* The update by id, over whatever row it finds. *)
LEMMA WriteStep ==
  ASSUME WorkInv, NEW u \in User, Write(u)
  PROVE  WorkInv'
<1> DEFINE p == call[u].patch
           w == call[u].wo
           raced == IF call[u].stale THEN {"raced"} ELSE {}
           history == past[w] \cup call[u].tags \cup raced
           old == row[w]
           r == Over(p, old)
<1>1. /\ WritingOK(call[u]) /\ call[u] # Idle /\ call[u].at = "writing"
      /\ w \in WorkOrder /\ Exists(w) /\ WritingInv(u)
  <2>1. call[u].at = "writing"
    BY DEF Write
  <2>2. WritingOK(call[u]) /\ call[u] # Idle
    BY <2>1, CallKinds DEF WorkInv, Types, Idle
  <2> QED BY <2>1, <2>2 DEF WorkInv, CallInv, WritingOK
<1>2. Overtakes(w, r, history)
  <2>1. row' = [row EXCEPT ![w] = r] /\ past' = [past EXCEPT ![w] = history]
    BY DEF Write, WorkInv, Types
  <2>2. call' = [v \in User |-> IF v = u THEN Idle
                                ELSE IF v \in Overtaken(w) THEN [call[v] EXCEPT !.stale = TRUE]
                                ELSE call[v]]
    BY DEF Write
  <2>3. ASSUME NEW v \in User
        PROVE  \/ call'[v] = Idle
               \/ call[v] # Idle /\ call[v].wo = w /\ call'[v] = [call[v] EXCEPT !.stale = TRUE]
               \/ call[v] # Idle /\ call[v].wo # w /\ call'[v] = call[v]
    <3>1. CASE v = u
      BY <2>2, <3>1
    <3>2. CASE v # u /\ v \in Overtaken(w)
      BY <2>2, <3>2 DEF Overtaken, Busy
    <3>3. CASE v # u /\ v \notin Overtaken(w)
      BY <2>2, <3>3 DEF Overtaken, Busy
    <3> QED BY <3>1, <3>2, <3>3
  <2>4. DOMAIN call' = User
    BY <2>2
  <2> HIDE DEF r, history, w
  <2> QED BY <2>1, <2>3, <2>4 DEF Overtakes
<1>3. raced \subseteq {"raced"} /\ (call[u].stale = TRUE => "raced" \in raced)
  OBVIOUS
<1>4. /\ RowOK(old) /\ PatchOK(p)
      /\ call[u].tags \subseteq {"forced"} /\ call[u].stale \in BOOLEAN
      /\ past[w] \subseteq {"forced", "raced", "legacy"}
  BY <1>1 DEF WorkInv, Types, WritingOK
<1>5. /\ old.hasProcess = FALSE => "legacy" \in past[w]
      /\ old.currentStep = None => old.hasProcess = FALSE
      /\ old.hasProcess = FALSE /\ old.currentStep # None => "forced" \in past[w]
  BY <1>1 DEF WorkInv, ProcessInv
<1>6. /\ old.currentStep # None /\ "forced" \notin past[w] /\ ~({"raced", "legacy"} \subseteq past[w])
           => old.status = LegacyStatus(old.currentStep)
  BY <1>1 DEF WorkInv, StatusInv
<1>7. /\ "status" \in DOMAIN p /\ "currentStep" \notin DOMAIN p =>
           \/ "forced" \in call[u].tags \cup past[w]
           \/ /\ "legacy" \in past[w]
              /\ call[u].stale = TRUE \/ old.currentStep = None
      /\ "currentStep" \in DOMAIN p =>
           \/ "forced" \in call[u].tags \cup past[w]
           \/ old.hasProcess = TRUE
  BY <1>1 DEF WritingInv
<1>8. history = {} => Recorded(r)
  <2> SUFFICES ASSUME history = {}
               PROVE  Recorded(r)
    OBVIOUS
  <2>1. past[w] = {} /\ call[u].tags = {} /\ ~(call[u].stale = TRUE)
    BY <1>3
  <2>2. Undisturbed(u)
    BY <1>1, <2>1 DEF Undisturbed
  <2> QED BY <2>1, <2>2 DEF WorkInv, RecordInv
<1>9. /\ DOMAIN r = ColumnNames
      /\ \A c \in ColumnNames : c \in DOMAIN p => r[c] = p[c]
      /\ \A c \in ColumnNames : c \notin DOMAIN p => r[c] = old[c]
  BY <1>4, Laid DEF RowOK, PatchOK
<1>10. past[w] \subseteq history /\ call[u].tags \subseteq history /\ raced \subseteq history
       /\ history \subseteq {"forced", "raced", "legacy"}
  BY <1>3, <1>4
<1> HIDE DEF p, w, raced, history, old, r
<1>11. r.hasProcess = old.hasProcess
  BY <1>4, <1>9 DEF PatchOK, ColumnNames
<1>12. /\ "currentStep" \in DOMAIN p => /\ r.currentStep = p["currentStep"] /\ r.currentStep \in Step
                                        /\ r.status = LegacyStatus(r.currentStep)
       /\ "currentStep" \notin DOMAIN p => r.currentStep = old.currentStep
       /\ "status" \in DOMAIN p => r.status \in WorkOrderStatus
       /\ "status" \notin DOMAIN p => r.status = old.status
  BY <1>4, <1>9 DEF PatchOK, ColumnNames
<1>13. RowOK(r)
  BY <1>4, <1>9, <1>11, <1>12 DEF RowOK
<1>14. r.hasProcess = FALSE => "legacy" \in history
  BY <1>5, <1>10, <1>11
<1>15. r.currentStep = None => r.hasProcess = FALSE
  BY <1>5, <1>11, <1>12, Steps
<1>16. r.hasProcess = FALSE /\ r.currentStep # None => "forced" \in history
  BY <1>5, <1>7, <1>10, <1>11, <1>12
<1>17. ASSUME r.currentStep # None, "forced" \notin history, ~({"raced", "legacy"} \subseteq history)
       PROVE  r.status = LegacyStatus(r.currentStep)
  <2>1. CASE "currentStep" \in DOMAIN p
    BY <1>12, <2>1
  <2>2. CASE "currentStep" \notin DOMAIN p /\ "status" \notin DOMAIN p
    BY <1>6, <1>10, <1>12, <1>17, <2>2
  <2>3. CASE "currentStep" \notin DOMAIN p /\ "status" \in DOMAIN p
    <3>1. "legacy" \in history /\ call[u].stale = TRUE
      BY <1>7, <1>10, <1>12, <1>17, <2>3
    <3> QED BY <1>3, <1>10, <1>17, <3>1
  <2> QED BY <2>1, <2>2, <2>3
<1>18. row[w] = old
  BY DEF old
<1> QED BY <1>1, <1>2, <1>8, <1>10, <1>11, <1>13, <1>14, <1>15, <1>16, <1>17, <1>18, OvertakesInv

(* A creation: no handler can have read the row yet. *)
LEMMA CreateStep ==
  ASSUME WorkInv, NEW u \in User, NEW w \in WorkOrder, NEW t \in Technician \cup {None},
         NEW process \in BOOLEAN, Create(u, w, t, process)
  PROVE  WorkInv'
<1> DEFINE step == CASE u = "portal" -> Requested
                     [] u # "portal" /\ t = None -> Initial
                     [] OTHER -> Assigned
           linked == IF process THEN step ELSE None
           r == Columns(LegacyStatus(step), linked, t)
           history == IF process THEN {} ELSE {"legacy"}
<1>1. /\ ~Exists(w) /\ call' = call
      /\ row' = [row EXCEPT ![w] = r] /\ past' = [past EXCEPT ![w] = history]
  BY DEF Create
<1>2. step \in {Requested, Initial, Assigned} /\ (step = Assigned => t # None)
  <2> USE DEF Requested, Initial, Assigned
  <2>1. CASE u = "portal"
    BY <2>1
  <2>2. CASE u # "portal" /\ t = None
    BY <2>2
  <2>3. CASE u # "portal" /\ t # None
    BY <2>3
  <2> QED BY <2>1, <2>2, <2>3
<1>3. /\ history \subseteq {"legacy"}
      /\ process = TRUE => linked = step
      /\ process = FALSE => linked = None /\ "legacy" \in history
      /\ history = {} => process = TRUE
  OBVIOUS
<1> HIDE DEF step, linked, history
<1>4. step \in Step /\ step # None /\ LegacyStatus(step) \in WorkOrderStatus
  BY <1>2, Steps DEF Step
<1>5. /\ DOMAIN r = ColumnNames
      /\ r["status"] = LegacyStatus(step) /\ r["currentStep"] = linked /\ r["assignedTo"] = t
      /\ r["dispatchedAt"] = FALSE /\ r["actualStartTime"] = FALSE /\ r["actualEndTime"] = FALSE
      /\ r["hasProcess"] = (linked # None)
  BY DEF Columns, ColumnNames
<1> HIDE DEF r
<1>6. /\ process = TRUE => r.hasProcess = TRUE /\ r.currentStep = step
      /\ process = FALSE => r.hasProcess = FALSE /\ r.currentStep = None
  BY <1>3, <1>4, <1>5
<1>7. RowOK(r)
  BY <1>4, <1>5, <1>6 DEF RowOK
<1>8. Recorded(r)
  BY <1>2, <1>5, StatusOf DEF Recorded
<1>9. /\ row'[w] = r /\ past'[w] = history /\ DOMAIN row' = WorkOrder
      /\ past' \in [WorkOrder -> SUBSET {"forced", "raced", "legacy"}]
      /\ \A x \in WorkOrder \ {w} : row'[x] = row[x] /\ past'[x] = past[x]
  BY <1>1, <1>3 DEF WorkInv, Types
<1>10. \A x \in WorkOrder \ {w} : Exists(x)' <=> Exists(x)
  BY <1>9 DEF Exists
<1>11. Exists(w)'
  BY <1>7, <1>9, RowsExist DEF Exists
<1>12. \A v \in User : call[v] # Idle => /\ call[v].wo \in WorkOrder \ {w}
                                          /\ Exists(call[v].wo)
  <2> TAKE v \in User
  <2>1. call[v] # Idle => call[v].wo \in WorkOrder /\ Exists(call[v].wo)
    BY DEF WorkInv, Types, CallInv, CheckedOK, WritingOK
  <2> QED BY <1>1, <2>1
<1>13. Types'
  BY <1>1, <1>7, <1>9, <1>10 DEF WorkInv, Types
<1>14. ProcessInv'
  BY <1>3, <1>4, <1>6, <1>9, <1>10 DEF WorkInv, ProcessInv
<1>15. StatusInv'
  BY <1>5, <1>6, <1>9, <1>10 DEF WorkInv, StatusInv
<1>16. CallInv'
  <2> SUFFICES ASSUME NEW v \in User, call[v] # Idle
               PROVE  (Exists(call[v].wo) /\ CheckedInv(v) /\ WritingInv(v))'
    BY <1>1 DEF CallInv
  <2>1. /\ call[v].wo \in WorkOrder \ {w} /\ row'[call[v].wo] = row[call[v].wo]
        /\ past'[call[v].wo] = past[call[v].wo]
    BY <1>9, <1>12
  <2>2. Exists(call[v].wo) /\ CheckedInv(v) /\ WritingInv(v)
    BY DEF WorkInv, CallInv
  <2> QED BY <1>1, <2>1, <2>2 DEF Exists, CheckedInv, WritingInv
<1>17. ASSUME NEW v \in User, Undisturbed(v)'
       PROVE  /\ Undisturbed(v)
              /\ row'[call[v].wo] = row[call[v].wo]
  <2>1. call[v] # Idle
    BY <1>1, <1>17 DEF Undisturbed, Idle
  <2> QED BY <1>1, <1>9, <1>12, <1>17, <2>1 DEF Undisturbed
<1>18. RecordInv'
  <2>1. \A x \in WorkOrder : Exists(x)' /\ past'[x] = {} => Recorded(row'[x])
    BY <1>8, <1>9, <1>10 DEF WorkInv, RecordInv
  <2>2. \A v \in User : (Undisturbed(v) /\ call[v].tags = {} =>
                           Recorded(Over(call[v].patch, row[call[v].wo])))'
    BY <1>1, <1>17 DEF WorkInv, RecordInv
  <2> QED BY <2>1, <2>2 DEF RecordInv
<1>19. OwnInv'
  BY <1>1, <1>17 DEF WorkInv, OwnInv, User
<1> QED BY <1>13, <1>14, <1>15, <1>16, <1>18, <1>19 DEF WorkInv

(* The linking of rows to the process, when an instance boots. *)
LEMMA BackfillStep ==
  ASSUME WorkInv, NEW w \in WorkOrder, backfillWorkOrders(w)
  PROVE  WorkInv'
<1> DEFINE old == row[w]
           step == CHOOSE s \in Step : LegacyStatus(s) = old.status
           r == [old EXCEPT !.hasProcess = TRUE, !.currentStep = step]
<1>1. /\ Exists(w) /\ old.currentStep = None /\ RowOK(old)
      /\ past' = past
      /\ call' = [v \in User |-> IF v \in Overtaken(w) THEN [call[v] EXCEPT !.stale = TRUE] ELSE call[v]]
      /\ row' = [row EXCEPT ![w].hasProcess = TRUE, ![w].currentStep = step]
  BY DEF backfillWorkOrders, WorkInv, Types
<1>2. step \in Step /\ LegacyStatus(step) = old.status
  BY <1>1, StatusOfSomeStep DEF RowOK
<1> HIDE DEF step
<1>3. row' = [row EXCEPT ![w] = r]
  BY <1>1 DEF WorkInv, Types
<1>4. past' = [past EXCEPT ![w] = past[w]]
  BY <1>1 DEF WorkInv, Types
<1>5. Overtakes(w, r, past[w])
  <2>1. ASSUME NEW v \in User
        PROVE  \/ call'[v] = Idle
               \/ call[v] # Idle /\ call[v].wo = w /\ call'[v] = [call[v] EXCEPT !.stale = TRUE]
               \/ call[v] # Idle /\ call[v].wo # w /\ call'[v] = call[v]
    BY <1>1 DEF Overtaken, Busy
  <2>2. DOMAIN call' = User
    BY <1>1
  <2> HIDE DEF r
  <2> QED BY <1>3, <1>4, <2>1, <2>2 DEF Overtakes
<1>6. /\ DOMAIN r = ColumnNames /\ r.hasProcess = TRUE /\ r.currentStep = step
      /\ r.status = old.status
  BY <1>1 DEF RowOK, ColumnNames
<1>7. "legacy" \in past[w] /\ past[w] \subseteq {"forced", "raced", "legacy"}
  BY <1>1 DEF WorkInv, ProcessInv, Types
<1> HIDE DEF r, old
<1>8. RowOK(r)
  BY <1>1, <1>2, <1>6 DEF RowOK
<1> QED BY <1>1, <1>2, <1>5, <1>6, <1>7, <1>8, Steps, OvertakesInv

-----------------------------------------------------------------------------
(* The invariant *)

LEMMA InitInv ==
  ASSUME Init
  PROVE  WorkInv
<1>1. /\ DOMAIN row = WorkOrder /\ \A w \in WorkOrder : ~Exists(w)
      /\ past \in [WorkOrder -> SUBSET {"forced", "raced", "legacy"}]
      /\ DOMAIN call = User /\ \A u \in User : call[u] = Idle
  BY DEF Init, Exists
<1>2. Idle.at = "idle"
  BY DEF Idle
<1>3. \A u \in User : ~Undisturbed(u)
  BY <1>1, <1>2 DEF Undisturbed
<1> QED BY <1>1, <1>3 DEF WorkInv, Types, ProcessInv, CallInv, StatusInv, RecordInv, OwnInv, User

LEMMA NextInv ==
  ASSUME WorkInv, [Next]_vars
  PROVE  WorkInv'
<1>1. ASSUME NEW u \in User, NEW w \in WorkOrder, Handle(u, w)
      PROVE  WorkInv'
  <2>1. Exists(w)
    BY <1>1 DEF Handle
  <2>2. CASE \E p \in Payload, s \in Step : executeTransition(u, w, s, p)
    BY <2>1, <2>2, EngineStep
  <2>3. CASE \E p \in Payload, s \in WorkOrderStatus : legacyTransition(u, w, s, p)
    BY <2>1, <2>3, LegacyStep
  <2>4. CASE legacyCheckLock(u, w)
    BY <2>1, <2>4, CheckLockStep
  <2>5. CASE \E t \in Technician : assignAndDispatch(u, w, t)
    BY <2>1, <2>5, AssignAndDispatchStep
  <2>6. CASE \E t \in Technician : reassign(u, w, t)
    BY <2>1, <2>6, ReassignStep
  <2>7. CASE \E e \in Edits(u) : update(u, w, e)
    BY <2>1, <2>7, UpdateStep
  <2>8. CASE touch(u, w)
    BY <2>1, <2>8, TouchStep
  <2> QED BY <1>1, <2>2, <2>3, <2>4, <2>5, <2>6, <2>7, <2>8 DEF Handle
<1>2. ASSUME NEW u \in User, NEW w \in WorkOrder,
             NEW t \in Technician \cup {None}, NEW process \in BOOLEAN, Create(u, w, t, process)
      PROVE  WorkInv'
  BY <1>2, CreateStep
<1>3. ASSUME NEW u \in User, Write(u)
      PROVE  WorkInv'
  BY <1>3, WriteStep
<1>4. ASSUME NEW u \in User, legacyRefused(u)
      PROVE  WorkInv'
  BY <1>4, RefusedStep
<1>5. ASSUME NEW w \in WorkOrder, backfillWorkOrders(w)
      PROVE  WorkInv'
  BY <1>5, BackfillStep
<1>6. CASE UNCHANGED vars
  BY <1>6 DEF vars, WorkInv, Types, ProcessInv, CallInv, CheckedInv, WritingInv, StatusInv, RecordInv,
     OwnInv, Undisturbed, Exists
<1> QED BY <1>1, <1>2, <1>3, <1>4, <1>5, <1>6 DEF Next

LEMMA Invariance == Spec => []WorkInv
<1>1. Init => WorkInv
  BY InitInv
<1>2. WorkInv /\ [Next]_vars => WorkInv'
  BY NextInv
<1> QED BY <1>1, <1>2, PTL DEF Spec

(* StatusMatchesStep: on a row that nobody forced, the status column and the process step tell the
   same story, whichever handlers overwrote each other, but for a row that a boot linked to the
   process under a legacy transition. *)
THEOREM StatusAndStepAgree == Spec => []StatusMatchesStep
<1>1. WorkInv => StatusMatchesStep
  BY DEF WorkInv, StatusInv, StatusMatchesStep
<1> QED BY <1>1, Invariance, PTL

(* ExecutionIsRecorded: a row of the process that was neither forced nor raced carries what its
   status requires, and nothing of a previous execution once reopened. *)
THEOREM StatusIsBacked == Spec => []ExecutionIsRecorded
<1>1. ASSUME WorkInv, NEW w \in WorkOrder, Exists(w), past[w] = {}
      PROVE  LET r == row[w] IN
             /\ r.status \in {"ASSIGNED", "DISPATCHED", "EN_ROUTE", "IN_PROGRESS", "COMPLETED_POSITIVE"} =>
                  r.assignedTo # None
             /\ r.status \in {"EN_ROUTE", "IN_PROGRESS", "COMPLETED_POSITIVE"} => r.dispatchedAt
             /\ r.status \in {"IN_PROGRESS", "COMPLETED_POSITIVE"} => r.actualStartTime
             /\ r.status = "COMPLETED_POSITIVE" => r.completionNotes
             /\ r.status \in {"COMPLETED_NEGATIVE", "CANCELLED"} => r.negativeReason
             /\ r.status \in {"REQUESTED", "CREATED"} =>
                  ~r.dispatchedAt /\ ~r.actualStartTime /\ ~r.actualEndTime
  <2>1. Recorded(row[w])
    BY <1>1, Untouched
  <2> QED BY <2>1 DEF Recorded
<1>2. WorkInv => ExecutionIsRecorded
  BY <1>1 DEF ExecutionIsRecorded
<1> QED BY <1>2, Invariance, PTL

(* TechniciansActOnOpenWork: where nobody forced the row and no write of another fell between his
   read and his write, a technician changes only an open work order of his own. *)
THEOREM OwnOpenWorkOnly == Spec => TechniciansActOnOpenWork
<1>1. ASSUME WorkInv, [Next]_vars
      PROVE  [\A u \in Technician, w \in WorkOrder :
                /\ call[u].at = "writing" /\ call[u].wo = w /\ call'[u] = Idle
                /\ past[w] = {} /\ ~call[u].stale
                => row[w].assignedTo = u /\ row[w].status \in TECHNICIAN_OPEN_STATUSES]_vars
  <2> SUFFICES ASSUME NEW u \in Technician, NEW w \in WorkOrder,
                      call[u].at = "writing", call[u].wo = w, past[w] = {}, ~call[u].stale
               PROVE  row[w].assignedTo = u /\ row[w].status \in TECHNICIAN_OPEN_STATUSES
    OBVIOUS
  <2>1. Undisturbed(u)
    BY DEF Undisturbed
  <2> QED BY <1>1, <2>1 DEF WorkInv, OwnInv
<1> QED BY <1>1, Invariance, PTL DEF Spec, TechniciansActOnOpenWork

(* Some payload fills what a rule requires, as long as there is a technician to assign. *)
LEMMA Fillable ==
  ASSUME Technician # {}, NEW t \in DEFAULT_PROCESS_TRANSITIONS
  PROVE  \E p \in Payload : t.required \ {"reopenReason"} \subseteq DOMAIN p
<1>1. /\ \E p \in Payload : DOMAIN p = {"negativeReason"}
      /\ \E p \in Payload : DOMAIN p = {"completionNotes"}
      /\ \E p \in Payload : DOMAIN p = {"assignedTo"}
  <2>1. [negativeReason |-> TRUE] \in Payload /\ [completionNotes |-> TRUE] \in Payload
    BY DEF Payload
  <2>2. PICK x \in Technician : TRUE
    OBVIOUS
  <2>3. [assignedTo |-> x] \in Payload
    BY DEF Payload
  <2>4. /\ DOMAIN [negativeReason |-> TRUE] = {"negativeReason"}
        /\ DOMAIN [completionNotes |-> TRUE] = {"completionNotes"}
        /\ DOMAIN [assignedTo |-> x] = {"assignedTo"}
    OBVIOUS
  <2> QED BY <2>1, <2>3, <2>4
<1>2. t.required \in {{}, {"negativeReason"}, {"completionNotes"}, {"assignedTo"}, {"reopenReason"}}
  BY DEF DEFAULT_PROCESS_TRANSITIONS, Rule
<1> QED BY <1>1, <1>2

(* What the process settings offer to a role, the engine accepts. *)
LEMMA EngineAgrees ==
  ASSUME Technician # {}, NEW u \in User \ {"portal"}, NEW w, OwnOrOffice(u, w),
         NEW step \in EngineOffers(u, w)
  PROVE  \E p \in Payload : EngineAccepts(u, w, step, p)
<1> DEFINE rules == Configured(row[w].currentStep, step)
<1>1. CASE rules = {}
  <2>1. Role(u) = "admin"
    BY <1>1 DEF EngineOffers, Configured
  <2>2. <<>> \in Payload
    BY DEF Payload
  <2> QED BY <1>1, <2>1, <2>2 DEF EngineAccepts
<1>2. CASE rules # {}
  <2>1. PICK t \in rules : Role(u) \in t.roles \cup {"admin"}
    BY <1>2 DEF EngineOffers, Configured
  <2>2. PICK p \in Payload : t.required \ {"reopenReason"} \subseteq DOMAIN p
    BY <2>1, Fillable DEF Configured
  <2> QED BY <2>1, <2>2 DEF EngineAccepts
<1> QED BY <1>1, <1>2

(* What the hard-coded state machine offers to a role, the service accepts. *)
LEMMA LegacyAgrees ==
  ASSUME Technician # {}, NEW u \in User \ {"portal"}, NEW w, OwnOrOffice(u, w),
         NEW status \in LegacyOffers(u, w)
  PROVE  \E p \in Payload : LegacyAccepts(u, w, status, p)
<1> DEFINE from == row[w].status
<1>1. /\ <<from, status>> \in VALID_TRANSITIONS
      /\ from \notin {"REQUESTED", "CANCELLED"}
      /\ from \in {"CREATED", "ASSIGNED", "COMPLETED_NEGATIVE"} => Role(u) \in Office
      /\ from = "COMPLETED_POSITIVE" => Role(u) = "admin"
  <2>1. CASE from \in {"REQUESTED", "CANCELLED"}
    BY <2>1 DEF LegacyOffers
  <2>2. CASE from \in {"CREATED", "ASSIGNED", "COMPLETED_NEGATIVE"}
    BY <2>2 DEF LegacyOffers
  <2>3. CASE from = "COMPLETED_POSITIVE"
    BY <2>3 DEF LegacyOffers
  <2>4. CASE from \notin {"REQUESTED", "CANCELLED", "CREATED", "ASSIGNED", "COMPLETED_NEGATIVE",
                          "COMPLETED_POSITIVE"}
    BY <2>4 DEF LegacyOffers
  <2> QED BY <2>1, <2>2, <2>3, <2>4
<1>2. \E p \in Payload : /\ status = "ASSIGNED" => "assignedTo" \in DOMAIN p
                         /\ status = "COMPLETED_NEGATIVE" => "negativeReason" \in DOMAIN p
  <2>1. PICK x \in Technician : TRUE
    OBVIOUS
  <2>2. /\ [negativeReason |-> TRUE] \in Payload /\ [assignedTo |-> x] \in Payload
        /\ "negativeReason" \in DOMAIN [negativeReason |-> TRUE]
        /\ "assignedTo" \in DOMAIN [assignedTo |-> x]
    BY DEF Payload
  <2> QED BY <2>2
<1>3. "technician" \notin Office
  BY DEF Office
<1> HIDE DEF from
<1> QED BY <1>1, <1>2, <1>3 DEF LegacyAccepts, from

(* OfferedIsAccepted: what the screens offer the server accepts with some payload, whatever races
   and bypasses did to the row. The two lists come from different code: of the rules and of the
   labels, each by role. *)
THEOREM OffersAreKept ==
  ASSUME Technician # {}
  PROVE  Spec => []OfferedIsAccepted
<1>1. OfferedIsAccepted
  BY EngineAgrees, LegacyAgrees DEF OfferedIsAccepted
<1> QED BY <1>1, PTL
=============================================================================
