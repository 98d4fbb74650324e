------------------------------ MODULE MCSweeps ------------------------------
(***************************************************************************)
(* The backend's cron sweeps for TLC.  They share no state and no two of   *)
(* them touch the same rows, so interleaving them adds nothing: a          *)
(* behaviour runs one of them.                                             *)
(***************************************************************************)
EXTENDS RecurringSpawner, WebhookDispatch, Reminders, SlaCheck

CONSTANT Active  \* the sweeps to check

VARIABLE active

vars == <<active, recurringVars, webhookVars, reminderVars, slaVars>>

(* The initial states of a sweep that does not run are cut down to one. *)
Init ==
  /\ active \in Active
  /\ RecurringInit /\ WebhookInit /\ RemindersInit /\ SlaInit
  /\ active # "recurring" =>
       recurring.pattern = Pattern("DAILY", 1, {}) /\ recurring.endDate = NoDate
  /\ active # "reminders" => reachable = Channel

Next ==
  \/ active = "recurring" /\ RecurringNext /\ UNCHANGED <<active, webhookVars, reminderVars, slaVars>>
  \/ active = "webhooks"  /\ WebhookNext   /\ UNCHANGED <<active, recurringVars, reminderVars, slaVars>>
  \/ active = "reminders" /\ RemindersNext /\ UNCHANGED <<active, recurringVars, webhookVars, slaVars>>
  \/ active = "sla"       /\ SlaNext       /\ UNCHANGED <<active, recurringVars, webhookVars, reminderVars>>

(* The crons recur and their awaits settle; nobody else is expected to act. *)
Spec ==
  /\ Init /\ [][Next]_vars
  /\ \A r \in Replica : WF_recurringVars(active = "recurring" /\ Spawns(r))
  /\ \A d \in Delivery : WF_webhookVars(active = "webhooks" /\ claim(d))
  /\ WF_webhookVars(active = "webhooks" /\ \E s \in sending : deliverOne(s))
  /\ \A p \in ReminderReplica : WF_reminderVars(active = "reminders" /\ Sweeps(p))
=============================================================================
