-------------------------- MODULE RecurringSpawner --------------------------
(***************************************************************************)
(* RecurringSpawnerService and RecurringWorkOrdersService: one recurring   *)
(* work order, the administrators who edit it, and the sweeps that spawn   *)
(* work orders from it, one sweep at a time in each replica.  Between the  *)
(* statements of a sweep, and between those of an edit, others run.        *)
(***************************************************************************)
EXTENDS Schedule, FiniteSets

CONSTANTS
  Replica,
  Interval,      \* the intervals in use
  DaysOfWeek,    \* the lists of weekdays in use
  DaysOfMonth,   \* the lists of days of the month in use
  Start,         \* the start dates in use
  End,           \* the end dates in use, NoDate for none
  FirstDay,      \* the day the row is created
  LastDay,       \* bound: the day time ends
  MaxEdits,      \* bound: edits of the row
  MaxMisses      \* bound: creations of a work order that fail

VARIABLES
  recurring,     \* the row; its spawnedCount is kept less the work orders that exist
  today,
  sweep,         \* sweep[r]: the row read by the sweep of replica r, and how far it went
  editing,       \* the edits of the schedule that are computed and not yet written
  spawned,       \* history: the latest occurrence a work order was created for
  missed,        \* history: the occurrences whose creation failed
  overlap,       \* history: "sweeps" once two replicas held the row at once, "edit" once an edit was
                 \* written that a sweep's UPDATE overtook
  edits

recurringVars == <<recurring, today, sweep, editing, spawned, missed, overlap, edits>>

(* validate of RecurringWorkOrdersService. *)
ASSUME RecurringAssumption ==
  /\ Interval \subseteq Nat \ {0}
  /\ DaysOfWeek \subseteq SUBSET (0..6) /\ DaysOfMonth \subseteq SUBSET (1..31)
  /\ Start \subseteq Nat /\ End \subseteq Nat \cup {NoDate} /\ FirstDay \in Nat

-----------------------------------------------------------------------------
Patterns ==
  {Pattern("DAILY", i, {}) : i \in Interval}
  \cup {Pattern("WEEKLY", i, days) : i \in Interval, days \in DaysOfWeek}
  \cup {Pattern("MONTHLY", i, days) : i \in Interval, days \in DaysOfMonth}
  \cup {Pattern("YEARLY", i, {}) : i \in Interval}

NotSweeping == [at |-> "idle"]

(* create: a schedule without a first run is refused. *)
RecurringInit ==
  /\ \E p \in Patterns, start \in Start, end \in End :
       /\ end # NoDate => end >= start
       /\ computeFirstRun(p, start, FirstDay) # NoDate
       /\ recurring = [isActive |-> TRUE, pattern |-> p, startDate |-> start, endDate |-> end,
                       nextRunAt |-> computeFirstRun(p, start, FirstDay), spawnedCount |-> 0]
  /\ today = FirstDay
  /\ sweep = [r \in Replica |-> NotSweeping]
  /\ editing = {}
  /\ spawned = NoDate
  /\ missed = {} /\ overlap = {}
  /\ edits = 0

(* Bound: a sweep sees midnight once. *)
Tick ==
  /\ today < LastDay
  /\ \A r \in Replica : sweep[r] # NotSweeping => sweep[r].now = today
  /\ today' = today + 1
  /\ UNCHANGED <<recurring, sweep, editing, spawned, missed, overlap, edits>>

Edit == edits < MaxEdits /\ edits' = edits + 1

(* update with isActive alone, as the list of the web sends it: the next run stays. *)
Pause ==
  /\ Edit
  /\ recurring' = [recurring EXCEPT !.isActive = ~@]
  /\ UNCHANGED <<today, sweep, editing, spawned, missed, overlap>>

(* update with a schedule, which the form of the web sends whole: the next run is computed, *)
ReadToUpdate ==
  /\ Edit
  /\ \E p \in Patterns, start \in Start, end \in End :
       LET first == computeFirstRun(p, start, today) IN
       /\ end # NoDate => end >= start
       /\ first # NoDate
       /\ editing' = editing \cup {[pattern |-> p, startDate |-> start, endDate |-> end,
                                    nextRunAt |-> first, overtaken |-> FALSE]}
  /\ UNCHANGED <<recurring, today, sweep, spawned, missed, overlap>>

(* and written by id in a later statement, whatever happened to the row. *)
update(e) ==
  /\ editing' = editing \ {e}
  /\ recurring' = [recurring EXCEPT !.pattern = e.pattern, !.startDate = e.startDate,
                                    !.endDate = e.endDate, !.nextRunAt = e.nextRunAt]
  /\ overlap' = IF e.overtaken THEN overlap \cup {"edit"} ELSE overlap
  /\ UNCHANGED <<today, sweep, spawned, missed, edits>>

-----------------------------------------------------------------------------
(* The rows runOnce selects. *)
Due ==
  /\ recurring.isActive /\ recurring.nextRunAt <= today
  /\ recurring.endDate # NoDate => recurring.endDate >= today

Reading ==
  [at |-> "read", row |-> recurring, now |-> today,
   next |-> computeNextRun(recurring.pattern, today, recurring.nextRunAt)]

(* Mutant of ReadDue: a row whose count is not that of its work orders is left out. *)
ReadDueUnlessMissed(r) ==
  /\ sweep[r] = NotSweeping /\ Due /\ recurring.spawnedCount = 0
  /\ sweep' = [sweep EXCEPT ![r] = Reading]
  /\ UNCHANGED <<recurring, today, editing, spawned, missed, overlap, edits>>

(* runOnce: a due row is read, and advanceNextRunAfterSpawn computes its next run. *)
ReadDue(r) ==
  /\ sweep[r] = NotSweeping /\ Due
  /\ sweep' = [sweep EXCEPT ![r] = Reading]
  /\ overlap' = IF \E q \in Replica : sweep[q] # NotSweeping THEN overlap \cup {"sweeps"} ELSE overlap
  /\ UNCHANGED <<recurring, today, editing, spawned, missed, edits>>

(* Mutant of AdvanceRow: the next run follows from the occurrence, also when it is past. *)
AdvanceRowFromDue(r) ==
  /\ sweep[r].at = "read" /\ sweep[r].next # NoDate
  /\ recurring' = [recurring EXCEPT
       !.nextRunAt = computeNextRun(sweep[r].row.pattern, sweep[r].row.nextRunAt, sweep[r].row.nextRunAt),
       !.spawnedCount = @ + 1]
  /\ sweep' = [sweep EXCEPT ![r].at = "advanced"]
  /\ editing' = {[e EXCEPT !.overtaken = TRUE] : e \in editing}
  /\ UNCHANGED <<today, spawned, missed, overlap, edits>>

(* spawnOne: the next run is set and the spawn counted, by id, before the work order exists; *)
AdvanceRow(r) ==
  /\ sweep[r].at = "read" /\ sweep[r].next # NoDate
  /\ recurring' = [recurring EXCEPT !.nextRunAt = sweep[r].next, !.spawnedCount = @ + 1]
  /\ sweep' = [sweep EXCEPT ![r].at = "advanced"]
  /\ editing' = {[e EXCEPT !.overtaken = TRUE] : e \in editing}
  /\ UNCHANGED <<today, spawned, missed, overlap, edits>>

(* a schedule that bails out throws, and the row stays as it is. *)
BailOut(r) ==
  /\ sweep[r].at = "read" /\ sweep[r].next = NoDate
  /\ sweep' = [sweep EXCEPT ![r] = NotSweeping]
  /\ UNCHANGED <<recurring, today, editing, spawned, missed, overlap, edits>>

CreateWorkOrder(r) ==
  /\ sweep[r].at = "advanced"
  /\ sweep' = [sweep EXCEPT ![r] = NotSweeping]
  /\ spawned' = sweep[r].row.nextRunAt
  /\ recurring' = [recurring EXCEPT !.spawnedCount = @ - 1]
  /\ UNCHANGED <<today, editing, missed, overlap, edits>>

(* It fails, or the process dies. *)
MissWorkOrder(r) ==
  /\ sweep[r].at = "advanced" /\ Cardinality(missed) < MaxMisses
  /\ sweep' = [sweep EXCEPT ![r] = NotSweeping]
  /\ missed' = missed \cup {sweep[r].row.nextRunAt}
  /\ UNCHANGED <<recurring, today, editing, spawned, overlap, edits>>

-----------------------------------------------------------------------------
(* A sweep comes every five minutes, and its statements return. *)
Spawns(r) == ReadDue(r) \/ AdvanceRow(r) \/ CreateWorkOrder(r)

RecurringNext ==
  \/ Tick \/ Pause \/ ReadToUpdate
  \/ \E e \in editing : update(e)
  \/ \E r \in Replica : Spawns(r) \/ BailOut(r) \/ MissWorkOrder(r)

-----------------------------------------------------------------------------
(* Properties *)

Fits(row) == FitsEveryMonth(row.pattern, row.nextRunAt)

(* The next run the spawner sets is the first occurrence of the schedule it read that is still to
   come: no listed day of an interval is skipped and none is invented, however late the sweep. *)
NextRunIsNextOccurrence ==
  [][\A r \in Replica :
       sweep[r].at = "read" /\ sweep'[r].at = "advanced"
       /\ Fits(sweep[r].row)
       => IsNextOccurrence(recurring'.nextRunAt, sweep[r].row.pattern,
                           sweep[r].row.nextRunAt, sweep[r].now)]_recurringVars

(* An occurrence spawns one work order at most, and the occurrences come in order, whatever is paused
   or edited while a sweep is at work.  Two interleavings break this, and are excepted: sweeps of two
   replicas that hold the row at once, and an edit whose next run was computed before a sweep's
   UPDATE of next_run_at and written after it. *)
OneWorkOrderPerOccurrence ==
  [][\A r \in Replica :
       CreateWorkOrder(r) /\ spawned # NoDate /\ overlap = {}
       => sweep[r].row.nextRunAt > spawned]_recurringVars

(* A due row that no sweep and no edit has in hand gets the work order of its occurrence, unless the
   creation fails, a pause or an edit comes, or the end date passes before a sweep has advanced it. *)
DueIsSpawned ==
  \A n \in FirstDay..LastDay :
    /\ Due /\ Fits(recurring) /\ recurring.nextRunAt = n
    /\ editing = {} /\ \A r \in Replica : sweep[r] = NotSweeping
    ~> \/ spawned = n \/ n \in missed
       \/ editing # {} \/ ~recurring.isActive
       \/ recurring.nextRunAt = n /\ recurring.endDate # NoDate /\ recurring.endDate < today

(* schedule.ts: "the returned Date is always >= now", with a day the month does not have clamped
   to its last day. Clamped to the day it stands on, the date does not move on, and the computation
   throws: it does not hold. *)
ScheduleAdvances == \A r \in Replica : sweep[r].at = "read" => sweep[r].next # NoDate
=============================================================================
