----------------------------- MODULE Reminders -----------------------------
(***************************************************************************)
(* The reminders of one work order: RemindersService writes them, and the  *)
(* sweeps of RemindersDispatcher, in any number of replicas, claim those   *)
(* that are due and send them one after the other.                         *)
(***************************************************************************)
EXTENDS Naturals, FiniteSets

CONSTANTS
  Reminder,
  ReminderReplica,
  Channel,    \* inApp, email, sms
  MaxFaults   \* bound: sweeps that die, statements that fail

DEFAULT_CHANNELS == {"inApp", "email"}

ASSUME ChannelAssumption == DEFAULT_CHANNELS \subseteq Channel

VARIABLES
  reminder,   \* reminder[r]: its row, or NoReminder
  due,        \* reminders whose sendAt has passed
  reachable,  \* the channels with a recipient: assigned technician, client's e-mail and phone
  canceller,  \* reminders whose cancellation has read the row and not yet updated it
  dispatcher, \* dispatcher[p]: what the sweep of replica p holds
  received,   \* history: received[r], the channels r went out on, and twice if it did
  stranded    \* history: reminders a fault left behind

reminderVars == <<reminder, due, reachable, canceller, dispatcher, received, stranded>>

NoReminder == [status |-> "none", channels |-> {}]
Asleep == [todo |-> {}, r |-> {}, outcome |-> "none"]

RemindersInit ==
  /\ reminder = [r \in Reminder |-> NoReminder]
  /\ due = {} /\ canceller = {} /\ stranded = {}
  /\ reachable \in SUBSET Channel
  /\ dispatcher = [p \in ReminderReplica |-> Asleep]
  /\ received = [r \in Reminder |-> [once |-> {}, twice |-> {}]]

-----------------------------------------------------------------------------
Written(R, channels) ==
  reminder' = [r \in Reminder |-> IF r \in R THEN [status |-> "pending", channels |-> channels]
                                  ELSE reminder[r]]

(* create: by hand, in the future, on some channels. scheduleDefaultsForWorkOrder: 24 hours and 1
   hour ahead of the date of a new work order, as far as they have not passed. *)
create ==
  /\ \E R \in SUBSET {r \in Reminder : reminder[r] = NoReminder} :
       \/ Cardinality(R) = 1 /\ \E channels \in SUBSET Channel \ {{}} : Written(R, channels)
       \/ Cardinality(R) = 2 /\ Written(R, DEFAULT_CHANNELS)
  /\ UNCHANGED <<due, reachable, canceller, dispatcher, received, stranded>>

FallsDue(r) ==
  /\ reminder[r] # NoReminder /\ r \notin due
  /\ due' = due \cup {r}
  /\ UNCHANGED <<reminder, reachable, canceller, dispatcher, received, stranded>>

(* The work order is unassigned, the client's e-mail or phone removed. *)
LosesRecipient(c) ==
  /\ c \in reachable /\ reachable' = reachable \ {c}
  /\ UNCHANGED <<reminder, due, canceller, dispatcher, received, stranded>>

(* cancel: the check, and in a second statement the update by id. *)
ReadToCancel(r) ==
  /\ reminder[r].status = "pending" /\ canceller' = canceller \cup {r}
  /\ UNCHANGED <<reminder, due, reachable, dispatcher, received, stranded>>

cancel(r) ==
  /\ r \in canceller /\ canceller' = canceller \ {r}
  /\ reminder' = [reminder EXCEPT ![r].status = "cancelled"]
  /\ UNCHANGED <<due, reachable, dispatcher, received, stranded>>

-----------------------------------------------------------------------------
DueReminders == {r \in due : reminder[r].status = "pending"}

(* Mutant of runOnce: the due rows are selected, not claimed. *)
runOnceUnclaimed(p) ==
  /\ dispatcher[p] = Asleep /\ DueReminders # {}
  /\ dispatcher' = [dispatcher EXCEPT ![p].todo = DueReminders]
  /\ UNCHANGED <<reminder, due, reachable, canceller, received, stranded>>

(* runOnce: the claim, one UPDATE with FOR UPDATE SKIP LOCKED. *)
runOnce(p) ==
  /\ dispatcher[p] = Asleep /\ DueReminders # {}
  /\ dispatcher' = [dispatcher EXCEPT ![p].todo = DueReminders]
  /\ reminder' = [r \in Reminder |-> IF r \in DueReminders THEN [reminder[r] EXCEPT !.status = "dispatching"]
                                     ELSE reminder[r]]
  /\ UNCHANGED <<due, reachable, canceller, received, stranded>>

Sent(r, channels) ==
  received' = [received EXCEPT ![r] = [once |-> @.once \cup channels,
                                       twice |-> @.twice \cup (@.once \cap channels)]]

(* dispatchOne: some of the channels with a recipient work; one is enough. *)
dispatchOne(p) ==
  /\ dispatcher[p].r = {}
  /\ \E r \in dispatcher[p].todo, channels \in SUBSET reachable :
       /\ channels \subseteq reminder[r].channels
       /\ Sent(r, channels)
       /\ dispatcher' = [dispatcher EXCEPT ![p] =
            [todo |-> @.todo \ {r}, r |-> {r}, outcome |-> IF channels = {} THEN "failed" ELSE "sent"]]
  /\ UNCHANGED <<reminder, due, reachable, canceller, stranded>>

(* Mutant of Mark: a failed row is left as it is. *)
MarkSentOnly(p) ==
  \E r \in dispatcher[p].r :
    /\ reminder' = IF dispatcher[p].outcome = "sent" THEN [reminder EXCEPT ![r].status = "sent"] ELSE reminder
    /\ dispatcher' = [dispatcher EXCEPT ![p] = [Asleep EXCEPT !.todo = dispatcher[p].todo]]
    /\ UNCHANGED <<due, reachable, canceller, received, stranded>>

(* The row is marked sent or failed, whatever it became meanwhile. *)
Mark(p) ==
  \E r \in dispatcher[p].r :
    /\ reminder' = [reminder EXCEPT ![r].status = dispatcher[p].outcome]
    /\ dispatcher' = [dispatcher EXCEPT ![p] = [Asleep EXCEPT !.todo = dispatcher[p].todo]]
    /\ UNCHANGED <<due, reachable, canceller, received, stranded>>

(* The statement that marks it sent fails: the catch marks it failed. *)
MarkFails(p) ==
  /\ dispatcher[p].outcome = "sent" /\ Cardinality(stranded) < MaxFaults
  /\ dispatcher' = [dispatcher EXCEPT ![p].outcome = "failed"]
  /\ stranded' = stranded \cup dispatcher[p].r
  /\ UNCHANGED <<reminder, due, reachable, canceller, received>>

(* The process dies, or the statement in the catch fails: the batch stays 'dispatching'. *)
SweepDies(p) ==
  /\ dispatcher[p] # Asleep /\ Cardinality(stranded) < MaxFaults
  /\ dispatcher' = [dispatcher EXCEPT ![p] = Asleep]
  /\ stranded' = stranded \cup dispatcher[p].todo \cup dispatcher[p].r
  /\ UNCHANGED <<reminder, due, reachable, canceller, received>>

-----------------------------------------------------------------------------
(* A sweep comes every five minutes and its awaits settle. *)
Sweeps(p) == runOnce(p) \/ dispatchOne(p) \/ Mark(p)

RemindersNext ==
  \/ create
  \/ \E r \in Reminder : FallsDue(r) \/ ReadToCancel(r) \/ cancel(r)
  \/ \E c \in Channel : LosesRecipient(c)
  \/ \E p \in ReminderReplica : Sweeps(p) \/ MarkFails(p) \/ SweepDies(p)

-----------------------------------------------------------------------------
(* Properties *)

(* However many replicas sweep, a reminder goes out at most once on a channel. *)
SentOnce == \A r \in Reminder : received[r].twice = {}

(* A reminder that is due is sent, fails or is cancelled, unless a fault strands it. *)
RemindersEnd ==
  \A r \in Reminder :
    r \in due /\ reminder[r].status = "pending"
      ~> reminder[r].status \in {"sent", "failed", "cancelled"} \/ r \in stranded
=============================================================================
