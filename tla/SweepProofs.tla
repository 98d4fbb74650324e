----------------------------- MODULE SweepProofs -----------------------------
(***************************************************************************)
(* Theorems about the cron sweeps: reminders, webhook deliveries, SLA      *)
(* breaches and recurring work orders, for any number of rows, replicas    *)
(* and bounds.                                                             *)
(***************************************************************************)
EXTENDS Reminders, WebhookDispatch, SlaCheck, RecurringSpawner, WellFoundedInduction, TLAPS

RemindersSpec == RemindersInit /\ [][RemindersNext]_reminderVars

(* The rows of reminders and what the sweeps of the replicas hold. *)
RemindersType ==
  /\ reminder \in [Reminder -> [status : {"none", "pending", "dispatching", "sent", "failed", "cancelled"},
                                channels : SUBSET Channel]]
  /\ dispatcher \in [ReminderReplica -> [todo : SUBSET Reminder, r : SUBSET Reminder,
                                         outcome : {"none", "sent", "failed"}]]
  /\ received \in [Reminder -> [once : SUBSET Channel, twice : SUBSET Channel]]
  /\ due \subseteq Reminder /\ canceller \subseteq Reminder
  /\ reachable \subseteq Channel

(* A reminder that a replica has claimed and not sent is claimed by no other, and went out on no
   channel yet; one that waits is claimed by none. *)
ClaimsExclude ==
  /\ \A r \in Reminder : reminder[r].status \in {"none", "pending"} => received[r].once = {}
  /\ \A p \in ReminderReplica : \A r \in dispatcher[p].todo :
       reminder[r].status \notin {"none", "pending"} /\ received[r].once = {}
  /\ \A p, q \in ReminderReplica : p # q => dispatcher[p].todo \cap dispatcher[q].todo = {}
  /\ \A p \in ReminderReplica : dispatcher[p].r # {} => dispatcher[p].outcome # "none"

RemindersInv == RemindersType /\ ClaimsExclude /\ SentOnce

LEMMA RemindersInitInv == RemindersInit => RemindersInv
BY ChannelAssumption DEF RemindersInit, RemindersInv, RemindersType, ClaimsExclude, SentOnce, NoReminder, Asleep

LEMMA RemindersStepInv == RemindersInv /\ [RemindersNext]_reminderVars => RemindersInv'
<1> SUFFICES ASSUME RemindersType, ClaimsExclude, SentOnce, [RemindersNext]_reminderVars PROVE RemindersInv'
  BY DEF RemindersInv
<1> DEFINE Row == [status : {"none", "pending", "dispatching", "sent", "failed", "cancelled"}, channels : SUBSET Channel]
           Sweep == [todo : SUBSET Reminder, r : SUBSET Reminder, outcome : {"none", "sent", "failed"}]
<1> USE DEF RemindersInv, ClaimsExclude, SentOnce
<1>1. ASSUME create PROVE RemindersInv'
  BY <1>1, ChannelAssumption DEF RemindersType, create, Written, NoReminder
<1>2. ASSUME NEW r \in Reminder, FallsDue(r) PROVE RemindersInv'
  BY <1>2 DEF RemindersType, FallsDue
<1>3. ASSUME NEW r \in Reminder, ReadToCancel(r) PROVE RemindersInv'
  BY <1>3 DEF RemindersType, ReadToCancel
<1>4. ASSUME NEW r \in Reminder, cancel(r) PROVE RemindersInv'
  <2>1. /\ reminder' \in [Reminder -> Row]
        /\ \A q \in Reminder : reminder'[q].status = IF q = r THEN "cancelled" ELSE reminder[q].status
    BY <1>4 DEF cancel, RemindersType
  <2> QED BY <1>4, <2>1 DEF cancel, RemindersType
<1>5. ASSUME NEW c \in Channel, LosesRecipient(c) PROVE RemindersInv'
  BY <1>5 DEF RemindersType, LosesRecipient
<1>6. ASSUME NEW p \in ReminderReplica, runOnce(p) PROVE RemindersInv'
  <2>1. /\ reminder' \in [Reminder -> Row]
        /\ \A q \in Reminder : reminder'[q].status = IF q \in DueReminders THEN "dispatching"
                                                      ELSE reminder[q].status
    BY <1>6 DEF runOnce, RemindersType
  <2>2. /\ dispatcher' \in [ReminderReplica -> Sweep]
        /\ \A q \in ReminderReplica \ {p} : dispatcher'[q] = dispatcher[q]
        /\ dispatcher'[p] = [todo |-> DueReminders, r |-> {}, outcome |-> "none"]
    <3>1. DueReminders \in SUBSET Reminder
      BY DEF DueReminders, RemindersType
    <3>2. dispatcher[p].r = {} /\ dispatcher[p].outcome = "none"
      BY <1>6 DEF runOnce, Asleep
    <3>3. dispatcher' = [dispatcher EXCEPT ![p].todo = DueReminders]
      BY <1>6 DEF runOnce
    <3> QED BY <3>1, <3>2, <3>3 DEF RemindersType
  <2>3. RemindersType' /\ SentOnce'
    BY <1>6, <2>1, <2>2 DEF runOnce, RemindersType
  <2>4. ClaimsExclude'
    BY <1>6, <2>1, <2>2 DEF runOnce, DueReminders, RemindersType
  <2> QED BY <2>3, <2>4
<1>7. ASSUME NEW p \in ReminderReplica, dispatchOne(p) PROVE RemindersInv'
  BY <1>7 DEF RemindersType, dispatchOne, Sent
<1>8. ASSUME NEW p \in ReminderReplica, Mark(p) PROVE RemindersInv'
  <2>1. PICK r \in dispatcher[p].r :
          /\ reminder' = [reminder EXCEPT ![r].status = dispatcher[p].outcome]
          /\ dispatcher' = [dispatcher EXCEPT ![p] = [Asleep EXCEPT !.todo = dispatcher[p].todo]]
          /\ UNCHANGED <<due, reachable, canceller, received>>
    BY <1>8 DEF Mark
  <2>2. dispatcher[p].outcome \in {"sent", "failed"}
    BY <2>1 DEF RemindersType
  <2>3. /\ reminder' \in [Reminder -> Row]
        /\ \A q \in Reminder : reminder'[q].status = IF q = r THEN dispatcher[p].outcome ELSE reminder[q].status
    BY <2>1, <2>2 DEF RemindersType
  <2>4. /\ dispatcher' \in [ReminderReplica -> Sweep]
        /\ \A q \in ReminderReplica \ {p} : dispatcher'[q] = dispatcher[q]
        /\ dispatcher'[p] = [todo |-> dispatcher[p].todo, r |-> {}, outcome |-> "none"]
    BY <2>1 DEF Asleep, RemindersType
  <2> QED BY <2>1, <2>2, <2>3, <2>4 DEF RemindersType
<1>9. ASSUME NEW p \in ReminderReplica, MarkFails(p) PROVE RemindersInv'
  BY <1>9 DEF RemindersType, MarkFails
<1>10. ASSUME NEW p \in ReminderReplica, SweepDies(p) PROVE RemindersInv'
  BY <1>10 DEF RemindersType, SweepDies, Asleep
<1>11. CASE UNCHANGED reminderVars
  BY <1>11 DEF RemindersType, reminderVars
<1> QED
  BY <1>1, <1>2, <1>3, <1>4, <1>5, <1>6, <1>7, <1>8, <1>9, <1>10, <1>11 DEF RemindersNext, Sweeps

(* However many replicas sweep, and whatever dies or is cancelled meanwhile, a reminder goes out at
   most once on a channel. *)
THEOREM RemindersGoOutOnce == RemindersSpec => []SentOnce
<1>1. RemindersInv => SentOnce
  BY DEF RemindersInv
<1> QED BY <1>1, RemindersInitInv, RemindersStepInv, PTL DEF RemindersSpec

-----------------------------------------------------------------------------
WebhookSpec == WebhookInit /\ [][WebhookNext]_webhookVars

(* The rows of webhook_deliveries, the sendings and the retries by hand.  The number that tells two
   sendings of a delivery apart is left untyped. *)
WebhookType ==
  /\ delivery \in [Delivery -> [status : {"none", "pending", "dispatching", "succeeded", "abandoned"},
                                attempts : Nat]]
  /\ \A s \in sending : /\ s = [delivery |-> s.delivery, attempt |-> s.attempt, at |-> s.at, nr |-> s.nr]
                         /\ s.delivery \in Delivery /\ s.attempt \in Nat
  /\ \A r \in retrier : r.delivery \in Delivery /\ r.status # "succeeded"
  /\ receiver = [done |-> receiver.done, again |-> receiver.again, unwritten |-> receiver.unwritten]

(* The sendings of d that may still post it, or write to its row. *)
Active(d) == {s \in sending : s.delivery = d /\ s.at \notin {"bump", "limit"}}

(* Unless a retry by hand raced with a sending of it, or an accepted answer was left unwritten: one
   sending at a time, only while the row is 'dispatching', and once the receiver accepted it, none
   but the one that is about to write so. *)
OneSending ==
  \A d \in Delivery \ (raced \cup receiver.unwritten) :
    /\ \A s, t \in Active(d) : s = t
    /\ Active(d) # {} => delivery[d].status = "dispatching"
    /\ d \in receiver.done => delivery[d].status = "succeeded" \/ \E s \in Active(d) : s.at = "accepted"

WebhookInv == WebhookType /\ OneSending /\ SuccessIsFinal

LEMMA WebhookInitInv == WebhookInit => WebhookInv
BY DEF WebhookInit, WebhookInv, WebhookType, OneSending, SuccessIsFinal, Active, NoDelivery

LEMMA WebhookStepInv == WebhookInv /\ [WebhookNext]_webhookVars => WebhookInv'
<1> SUFFICES ASSUME WebhookType, OneSending, SuccessIsFinal, [WebhookNext]_webhookVars PROVE WebhookInv'
  BY DEF WebhookInv
<1> USE DEF WebhookInv, webhookHistory
<1>1. ASSUME NEW d \in Delivery, FanOut(d) PROVE WebhookInv'
  <2>1. WebhookType' /\ delivery'[d].status = "pending" /\ \A e \in Delivery \ {d} : delivery'[e] = delivery[e]
    BY <1>1 DEF FanOut, WebhookType
  <2> QED BY <1>1, <2>1 DEF FanOut, OneSending, Active, NoDelivery, SuccessIsFinal
<1>2. ASSUME NEW d \in Delivery, claim(d) PROVE WebhookInv'
  <2>1. /\ delivery'[d].status = "dispatching" /\ \A e \in Delivery \ {d} : delivery'[e] = delivery[e]
        /\ WebhookType'
    BY <1>2 DEF claim, WebhookType, Sending
  <2>2. Active(d)' \subseteq Active(d) \cup {Sending(d)} /\ \A e \in Delivery \ {d} : Active(e)' = Active(e)
    BY <1>2 DEF claim, Active, Sending
  <2> QED BY <1>2, <2>1, <2>2 DEF claim, OneSending, SuccessIsFinal
<1>3. ASSUME NEW d \in Delivery, ReadToRetry(d) PROVE WebhookInv'
  BY <1>3 DEF ReadToRetry, WebhookType, OneSending, Active, SuccessIsFinal
<1>4. ASSUME NEW r \in retrier, retryDelivery(r) PROVE WebhookInv'
  <2>1. /\ WebhookType' /\ r.delivery \in Delivery /\ r.status # "succeeded"
        /\ \A e \in Delivery \ {r.delivery} : delivery'[e] = delivery[e]
    BY <1>4 DEF retryDelivery, WebhookType
  <2>2. r.delivery \notin raced' => Active(r.delivery) = {} /\ delivery[r.delivery].status # "succeeded"
    BY <1>4, <2>1 DEF retryDelivery, Active
  <2>3. raced \subseteq raced' /\ sending' = sending /\ receiver' = receiver
    BY <1>4 DEF retryDelivery
  <2> QED BY <2>1, <2>2, <2>3 DEF OneSending, Active, SuccessIsFinal
<1>5. ASSUME updateEndpoint PROVE WebhookInv'
  BY <1>5 DEF updateEndpoint, Administers, WebhookType, OneSending, Active, SuccessIsFinal
<1>6. ASSUME NEW s \in sending, deliverOne(s) PROVE WebhookInv'
  <2>1. s.delivery \in Delivery /\ s.attempt \in Nat
    BY DEF WebhookType
  <2>2. CASE Post(s)
    <3>1. WebhookType'
      <4>1. PICK outcome \in {"accepted", "failed"} : sending' = (sending \ {s}) \cup {[s EXCEPT !.at = outcome]}
        BY <2>2 DEF Post, Moves
      <4>2. [s EXCEPT !.at = outcome] = [delivery |-> s.delivery, attempt |-> s.attempt, at |-> outcome, nr |-> s.nr]
        BY DEF WebhookType
      <4> QED BY <2>1, <2>2, <4>1, <4>2 DEF Post, WebhookType
    <3>2. s \in Active(s.delivery)
      BY <2>2 DEF Post, Active
    <3>3. PICK outcome \in {"accepted", "failed"} :
            /\ sending' = (sending \ {s}) \cup {[s EXCEPT !.at = outcome]}
            /\ receiver'.done = IF outcome = "accepted" THEN receiver.done \cup {s.delivery} ELSE receiver.done
      BY <2>2 DEF Post, Moves, WebhookType
    <3>4. [s EXCEPT !.at = outcome].delivery = s.delivery /\ [s EXCEPT !.at = outcome].at = outcome
      BY DEF WebhookType
    <3>5. /\ Active(s.delivery)' = (Active(s.delivery) \ {s}) \cup {[s EXCEPT !.at = outcome]}
          /\ \A e \in Delivery \ {s.delivery} : Active(e)' = Active(e)
      BY <3>2, <3>3, <3>4 DEF Active
    <3>6. /\ receiver'.again = receiver.again \cup ({s.delivery} \cap receiver.done)
          /\ receiver'.unwritten = receiver.unwritten /\ UNCHANGED <<delivery, raced>>
      BY <2>2 DEF Post, WebhookType, webhookHistory
    <3>7. s.delivery \notin raced \cup receiver.unwritten => s.delivery \notin receiver.done
      <4>1. s.at = "ready"
        BY <2>2 DEF Post
      <4> QED BY <2>1, <3>2, <4>1 DEF OneSending
    <3>8. OneSending'
      <4> SUFFICES ASSUME NEW e \in Delivery, e \notin raced \cup receiver.unwritten
                   PROVE  /\ \A t, u \in Active(e)' : t = u
                          /\ Active(e)' # {} => delivery'[e].status = "dispatching"
                          /\ e \in receiver'.done => \/ delivery'[e].status = "succeeded"
                                                     \/ \E t \in Active(e)' : t.at = "accepted"
        BY <3>6 DEF OneSending
      <4>1. CASE e = s.delivery
        BY <2>1, <3>2, <3>3, <3>4, <3>5, <3>6, <3>7, <4>1 DEF OneSending
      <4>2. CASE e # s.delivery
        BY <3>3, <3>5, <3>6, <4>2 DEF OneSending
      <4> QED BY <4>1, <4>2
    <3>9. SuccessIsFinal'
      BY <3>6, <3>7 DEF SuccessIsFinal
    <3> QED BY <3>1, <3>8, <3>9
  <2>3. CASE markSuccess(s)
    <3>1. WebhookType'
      <4>1. delivery[s.delivery].attempts + 1 \in Nat
        BY <2>1 DEF WebhookType
      <4>2. delivery' \in [Delivery -> [status : {"none", "pending", "dispatching", "succeeded", "abandoned"},
                                       attempts : Nat]]
        BY <2>1, <2>3, <4>1 DEF markSuccess, WebhookType
      <4>3. receiver' = receiver
        BY <2>3 DEF markSuccess
      <4> QED BY <2>3, <4>2, <4>3 DEF markSuccess, Ends, WebhookType
    <3>2. s \in Active(s.delivery) /\ \A e \in Delivery : Active(e)' = Active(e) \ {s}
      BY <2>3 DEF markSuccess, Ends, Active
    <3>3. /\ delivery'[s.delivery].status = "succeeded"
          /\ \A e \in Delivery \ {s.delivery} : delivery'[e] = delivery[e] /\ Active(e)' = Active(e)
      BY <2>3, <2>1 DEF markSuccess, WebhookType, Ends, Active
    <3> QED BY <2>1, <2>3, <3>1, <3>2, <3>3 DEF markSuccess, OneSending, SuccessIsFinal, WebhookType
  <2>4. CASE markFailed(s)
    <3>1. WebhookType'
      BY <2>4, <2>1 DEF markFailed, Moves, WebhookType
    <3>2. s \in Active(s.delivery) /\ s.at # "accepted"
      BY <2>4 DEF markFailed, Active
    <3>3. \A e \in Delivery : Active(e)' = Active(e) \ {s}
      BY <2>4 DEF markFailed, Moves, Active, WebhookType
    <3>4. /\ \A e \in Delivery \ {s.delivery} : delivery'[e] = delivery[e]
          /\ receiver' = receiver /\ raced' = raced
      BY <2>4 DEF markFailed, WebhookType
    <3> QED BY <2>1, <3>1, <3>2, <3>3, <3>4 DEF OneSending, SuccessIsFinal
  <2>5. CASE markAbandoned(s)
    <3>1. WebhookType'
      BY <2>5, <2>1 DEF markAbandoned, Ends, WebhookType
    <3>2. s \in Active(s.delivery) /\ s.at # "accepted"
      BY <2>5 DEF markAbandoned, Active
    <3>3. \A e \in Delivery : Active(e)' = Active(e) \ {s}
      BY <2>5 DEF markAbandoned, Ends, Active
    <3>4. /\ \A e \in Delivery \ {s.delivery} : delivery'[e] = delivery[e]
          /\ receiver' = receiver /\ raced' = raced
      BY <2>5 DEF markAbandoned, WebhookType
    <3> QED BY <2>1, <3>1, <3>2, <3>3, <3>4 DEF OneSending, SuccessIsFinal
  <2>6. CASE bumpEndpointFailure(s) \/ Disable(s)
    <3>1. WebhookType'
      BY <2>6 DEF bumpEndpointFailure, Disable, Moves, Ends, WebhookType
    <3>2. \A e \in Delivery : Active(e)' = Active(e)
      BY <2>6 DEF bumpEndpointFailure, Disable, Moves, Ends, Active, WebhookType
    <3> QED BY <2>6, <3>1, <3>2 DEF bumpEndpointFailure, Disable, OneSending, SuccessIsFinal
  <2> QED BY <1>6, <2>2, <2>3, <2>4, <2>5, <2>6 DEF deliverOne
<1>7. ASSUME NEW s \in sending, Orphan(s) PROVE WebhookInv'
  <2>1. WebhookType' /\ \A e \in Delivery : Active(e)' = Active(e) \ {s}
    BY <1>7 DEF Orphan, Ends, Active, WebhookType
  <2>2. /\ UNCHANGED <<delivery, raced>> /\ receiver'.done = receiver.done /\ receiver'.again = receiver.again
        /\ receiver.unwritten \subseteq receiver'.unwritten
        /\ s.at = "accepted" => s.delivery \in receiver'.unwritten
    BY <1>7 DEF Orphan, WebhookType
  <2>3. \A e \in Delivery \ receiver'.unwritten : (\E t \in Active(e) : t.at = "accepted")
                                                 => \E t \in Active(e)' : t.at = "accepted"
    BY <2>1, <2>2 DEF Active
  <2>4. OneSending'
    BY <2>1, <2>2, <2>3 DEF OneSending
  <2> QED BY <2>1, <2>2, <2>4 DEF SuccessIsFinal
<1>8. CASE UNCHANGED webhookVars
  BY <1>8 DEF webhookVars, WebhookType, OneSending, Active, SuccessIsFinal
<1> QED BY <1>1, <1>2, <1>3, <1>4, <1>5, <1>6, <1>7, <1>8 DEF WebhookNext

(* However many deliveries, replicas and workers: what the receiver answered with a 2xx is not sent to
   it again, unless a retry by hand raced with a sending of it, or the process died or a statement
   failed between that answer and markSuccess. *)
THEOREM WebhooksAcceptedOnce == WebhookSpec => []SuccessIsFinal
<1>1. WebhookInv => SuccessIsFinal
  BY DEF WebhookInv
<1> QED BY <1>1, WebhookInitInv, WebhookStepInv, PTL DEF WebhookSpec

-----------------------------------------------------------------------------
SlaSpec == SlaInit /\ [][SlaNext]_slaVars

Lists == [todo : SUBSET SlaWorkOrder, updated : SUBSET SlaWorkOrder]

(* What a scan holds, and what was announced. *)
SlaType ==
  /\ late \subseteq SlaWorkOrder
  /\ scan \in [SlaScan -> Lists]
  /\ announced \in [SlaWorkOrder -> Nat]
  /\ deaths \in Nat

Has(p) == scan[p].todo \cup scan[p].updated

(* A scan has updated at most one row it has not announced.  Unless two scans listed a work order:
   one scan has it, which did not announce it, and does not find it marked when it updates it. *)
ListIsFresh ==
  \A p \in SlaScan :
    /\ scan[p].updated \subseteq breached
    /\ \A v, w \in scan[p].updated : v = w
    /\ \A w \in scan[p].todo \ relisted : w \notin breached
    /\ \A w \in Has(p) \ relisted : announced[w] = 0 /\ \A q \in SlaScan \ {p} : w \notin Has(q)

SlaInv == SlaType /\ ListIsFresh /\ BreachIsAnnouncedOnce

LEMMA SlaInitInv == SlaInit => SlaInv
BY DEF SlaInit, SlaInv, SlaType, Lists, ListIsFresh, Has, BreachIsAnnouncedOnce, NoScan

LEMMA SlaStepInv == SlaInv /\ [SlaNext]_slaVars => SlaInv'
<1> SUFFICES ASSUME SlaType, ListIsFresh, BreachIsAnnouncedOnce, [SlaNext]_slaVars PROVE SlaInv'
  BY DEF SlaInv
<1> USE DEF SlaInv
<1>1. ASSUME NEW w \in SlaWorkOrder, TargetPasses(w) \/ Closes(w) \/ Reopens(w) PROVE SlaInv'
  BY <1>1 DEF TargetPasses, Closes, Reopens, SlaType, ListIsFresh, Has, BreachIsAnnouncedOnce
<1>2. ASSUME NEW p \in SlaScan, List(p) PROVE SlaInv'
  <2>1. PICK todo \in SUBSET Overdue : /\ scan' = [scan EXCEPT ![p].todo = todo]
                                       /\ relisted' = relisted \cup (todo \cap ListedByOthers(p))
    BY <1>2 DEF List
  <2>2. todo \in SUBSET SlaWorkOrder /\ todo \cap breached = {}
    BY DEF Overdue, SlaType
  <2>3. /\ scan' \in [SlaScan -> Lists] /\ scan'[p].todo = todo /\ scan'[p].updated = {}
        /\ \A q \in SlaScan \ {p} : scan'[q] = scan[q]
    BY <1>2, <2>1, <2>2 DEF List, NoScan, SlaType, Lists
  <2>4. \A q \in SlaScan \ {p} : todo \cap scan[q].todo \subseteq relisted'
    BY <2>1 DEF ListedByOthers
  <2>5. \A q \in SlaScan \ {p} : todo \cap scan[q].updated = {}
    BY <2>2 DEF ListIsFresh
  <2>6. \A w \in todo : announced[w] = 0 \/ w \in relisted
    BY <2>2 DEF BreachIsAnnouncedOnce, SlaType
  <2>7. relisted \subseteq relisted' /\ UNCHANGED <<late, breached, announced, deaths>>
    BY <1>2, <2>1 DEF List
  <2>8. ListIsFresh'
    BY <2>2, <2>3, <2>4, <2>5, <2>6, <2>7 DEF ListIsFresh, Has
  <2>9. BreachIsAnnouncedOnce'
    BY <2>3, <2>7, <1>2 DEF List, NoScan, BreachIsAnnouncedOnce
  <2> QED BY <2>3, <2>7, <2>8, <2>9 DEF SlaType
<1>3. ASSUME NEW p \in SlaScan, Update(p) PROVE SlaInv'
  <2>1. PICK w \in scan[p].todo : /\ scan[p].updated = {} /\ breached' = breached \cup {w}
                                  /\ scan' = [scan EXCEPT ![p] = [todo |-> @.todo \ {w}, updated |-> {w}]]
                                  /\ UNCHANGED <<late, announced, relisted, deaths>>
    BY <1>3 DEF Update
  <2>2. w \in SlaWorkOrder
    BY DEF SlaType, Lists
  <2>3. /\ scan' \in [SlaScan -> Lists] /\ scan'[p].todo = scan[p].todo \ {w} /\ scan'[p].updated = {w}
        /\ \A q \in SlaScan \ {p} : scan'[q] = scan[q]
    BY <2>1, <2>2 DEF SlaType, Lists
  <2>4. \A q \in SlaScan : Has(q)' = Has(q)
    BY <2>1, <2>3 DEF Has
  <2>5. \A q \in SlaScan \ {p} : w \notin relisted => w \notin scan[q].todo
    BY <2>1 DEF ListIsFresh, Has
  <2>6. ListIsFresh'
    BY <2>1, <2>3, <2>4, <2>5 DEF ListIsFresh
  <2>7. BreachIsAnnouncedOnce'
    BY <2>1, <2>2, <2>3 DEF BreachIsAnnouncedOnce, SlaType
  <2> QED BY <2>1, <2>3, <2>6, <2>7 DEF SlaType
<1>4. ASSUME NEW p \in SlaScan, Emit(p) PROVE SlaInv'
  <2>1. PICK w \in scan[p].updated : /\ announced' = [announced EXCEPT ![w] = IF @ < 2 THEN @ + 1 ELSE @]
                                     /\ scan' = [scan EXCEPT ![p].updated = {}]
                                     /\ UNCHANGED <<late, breached, relisted, deaths>>
    BY <1>4 DEF Emit
  <2>2. w \in SlaWorkOrder /\ w \in breached /\ scan[p].updated = {w}
    BY DEF SlaType, Lists, ListIsFresh
  <2>3. /\ announced' \in [SlaWorkOrder -> Nat] /\ announced'[w] >= 1
        /\ announced[w] = 0 => announced'[w] = 1
        /\ \A v \in SlaWorkOrder \ {w} : announced'[v] = announced[v]
    BY <2>1, <2>2 DEF SlaType
  <2>4. w \in relisted \/ announced[w] = 0
    BY <2>2 DEF ListIsFresh, Has
  <2>5. /\ scan' \in [SlaScan -> Lists] /\ scan'[p].todo = scan[p].todo /\ scan'[p].updated = {}
        /\ \A q \in SlaScan \ {p} : scan'[q] = scan[q]
    BY <2>1 DEF SlaType, Lists
  <2>6. ListIsFresh'
    <3> SUFFICES ASSUME NEW q \in SlaScan
                 PROVE  /\ scan'[q].updated \subseteq breached'
                        /\ \A v, x \in scan'[q].updated : v = x
                        /\ \A x \in scan'[q].todo \ relisted' : x \notin breached'
                        /\ \A x \in Has(q)' \ relisted' : /\ announced'[x] = 0
                                                          /\ \A r \in SlaScan \ {q} : x \notin Has(r)'
      BY DEF ListIsFresh
    <3>1. scan'[q].updated \subseteq scan[q].updated /\ scan'[q].todo = scan[q].todo
      BY <2>5
    <3>2. \A r \in SlaScan : Has(r)' \subseteq Has(r) /\ Has(r) \subseteq SlaWorkOrder
      BY <2>5 DEF Has, SlaType, Lists
    <3>3. w \notin relisted => w \notin Has(q)'
      <4>1. w \in Has(p) /\ (w \notin relisted => w \notin scan[p].todo)
        BY <2>2 DEF Has, ListIsFresh
      <4> QED BY <2>5, <3>2, <4>1 DEF ListIsFresh, Has
    <3> QED BY <2>1, <2>3, <3>1, <3>2, <3>3 DEF ListIsFresh
  <2>7. BreachIsAnnouncedOnce'
    <3> SUFFICES ASSUME NEW v \in SlaWorkOrder
                 PROVE  /\ announced'[v] > (IF v \in breached' THEN 1 ELSE 0) => v \in relisted'
                        /\ v \in breached' /\ deaths' = 0 /\ (\A q \in SlaScan : v \notin scan'[q].updated)
                           => announced'[v] >= 1
      BY DEF BreachIsAnnouncedOnce
    <3>1. CASE v = w
      BY <2>1, <2>2, <2>3, <2>4, <3>1
    <3>2. CASE v # w
      <4>1. \A q \in SlaScan : v \in scan[q].updated => v \in scan'[q].updated
        BY <2>2, <2>5, <3>2
      <4> QED BY <2>1, <2>3, <3>2, <4>1 DEF BreachIsAnnouncedOnce
    <3> QED BY <3>1, <3>2
  <2> QED BY <2>1, <2>3, <2>5, <2>6, <2>7 DEF SlaType
<1>5. ASSUME NEW p \in SlaScan, UpdateFails(p) PROVE SlaInv'
  <2>1. PICK w \in scan[p].todo : /\ scan' = [scan EXCEPT ![p].todo = @ \ {w}]
                                  /\ breached' \in {breached, breached \cup {w}}
    BY <1>5 DEF UpdateFails
  <2>2. /\ deaths' \in Nat \ {0} /\ UNCHANGED <<late, announced, relisted>>
    BY <1>5 DEF UpdateFails, SlaType
  <2>3. /\ scan' \in [SlaScan -> Lists] /\ scan'[p].todo = scan[p].todo \ {w}
        /\ scan'[p].updated = scan[p].updated
        /\ \A q \in SlaScan \ {p} : scan'[q] = scan[q]
    BY <2>1 DEF SlaType, Lists
  <2>4. \A q \in SlaScan \ {p} : w \notin relisted => w \notin scan[q].todo
    BY DEF ListIsFresh, Has
  <2>5. \A q \in SlaScan : Has(q)' \subseteq Has(q)
    BY <2>3 DEF Has
  <2>6. ListIsFresh'
    BY <2>1, <2>2, <2>3, <2>4, <2>5 DEF ListIsFresh
  <2>7. BreachIsAnnouncedOnce'
    BY <2>1, <2>2 DEF BreachIsAnnouncedOnce, SlaType
  <2> QED BY <2>2, <2>3, <2>6, <2>7 DEF SlaType
<1>6. CASE Dies
  <2>1. PICK dead \in SUBSET SlaScan : scan' = [p \in SlaScan |-> IF p \in dead THEN NoScan ELSE scan[p]]
    BY <1>6 DEF Dies
  <2>2. deaths' \in Nat \ {0} /\ UNCHANGED <<late, breached, announced, relisted>>
    BY <1>6 DEF Dies, SlaType
  <2>3. /\ scan' \in [SlaScan -> Lists]
        /\ \A q \in SlaScan : scan'[q].todo \subseteq scan[q].todo /\ scan'[q].updated \subseteq scan[q].updated
    BY <2>1 DEF NoScan, SlaType, Lists
  <2>4. \A q \in SlaScan : Has(q)' \subseteq Has(q)
    BY <2>3 DEF Has
  <2>5. ListIsFresh'
    BY <2>2, <2>3, <2>4 DEF ListIsFresh
  <2>6. BreachIsAnnouncedOnce'
    BY <2>2 DEF BreachIsAnnouncedOnce
  <2> QED BY <2>2, <2>3, <2>5, <2>6 DEF SlaType
<1>7. CASE UNCHANGED slaVars
  BY <1>7 DEF slaVars, SlaType, ListIsFresh, Has, BreachIsAnnouncedOnce
<1> QED BY <1>1, <1>2, <1>3, <1>4, <1>5, <1>6, <1>7 DEF SlaNext, Scans

(* A breach is announced once for any number of work orders, scans and backends, whatever is closed,
   reopened or late while the lists are worked through, unless a scan listed the work order while
   another had it still to update; and it is announced unless something failed. *)
THEOREM BreachesAnnouncedOnce == SlaSpec => []BreachIsAnnouncedOnce
<1>1. SlaInv => BreachIsAnnouncedOnce
  BY DEF SlaInv
<1> QED BY <1>1, SlaInitInv, SlaStepInv, PTL DEF SlaSpec

-----------------------------------------------------------------------------
(* Recurring work orders: the calendar *)

(* The days of a year before a month of it. *)
LEMMA YearStarts ==
  ASSUME NEW y \in Nat, NEW k \in 0..11
  PROVE  /\ (12 * y + k) \div 12 = y
         /\ (12 * y + k) % 12 = k
  BY SMT

LEMMA Months ==
  ASSUME NEW m \in Nat
  PROVE  \E y \in Nat, k \in 0..11 : m = 12 * y + k
<1>1. m \div 12 \in Nat /\ m % 12 \in 0..11 /\ m = 12 * (m \div 12) + (m % 12)
  BY SMT
<1> QED BY <1>1

Before(k) == <<0, 31, 59, 90, 120, 151, 181, 212, 243, 273, 304, 334>>[k + 1]

LEMMA BeforeIs ==
  /\ Before(0) = 0 /\ Before(1) = 31 /\ Before(2) = 59 /\ Before(3) = 90 /\ Before(4) = 120
  /\ Before(5) = 151 /\ Before(6) = 181 /\ Before(7) = 212 /\ Before(8) = 243 /\ Before(9) = 273
  /\ Before(10) = 304 /\ Before(11) = 334
  BY DEF Before

LEMMA StartOf ==
  ASSUME NEW y \in Nat, NEW k \in 0..11
  PROVE  MonthStart(12 * y + k) =
           365 * y + (y + 2) \div 4 + Before(k) + (IF (2023 + y) % 4 = 0 /\ k >= 2 THEN 1 ELSE 0)
  BY YearStarts DEF MonthStart, IsLeap, Before

(* A month has from 28 to 31 days, and the next one starts when it ends. *)
LEMMA MonthLength ==
  ASSUME NEW m \in Nat
  PROVE  /\ MonthStart(m) \in Nat
         /\ MonthStart(m + 1) = MonthStart(m) + DaysInMonth(m)
         /\ DaysInMonth(m) \in 28..31
         /\ 28 * m <= MonthStart(m) /\ MonthStart(m) <= 31 * m
<1>1. PICK y \in Nat, k \in 0..11 : m = 12 * y + k
  BY Months
<1>2. m \div 12 = y /\ m % 12 = k
  BY <1>1, YearStarts
<1> DEFINE quarter == (y + 2) \div 4
           leap == (2023 + y) % 4 = 0
<1>3. /\ quarter \in Nat /\ 4 * quarter <= y + 2
      /\ (y + 3) \div 4 = quarter + (IF leap THEN 1 ELSE 0)
  BY SMT
<1>4. DaysInMonth(m) = CASE k = 1 -> IF leap THEN 29 ELSE 28
                         [] k \in {3, 5, 8, 10} -> 30
                         [] OTHER -> 31
  BY <1>2 DEF DaysInMonth, IsLeap
<1>5. MonthStart(m) = 365 * y + quarter + Before(k) + (IF leap /\ k >= 2 THEN 1 ELSE 0)
  BY <1>1, StartOf
<1>6. MonthStart(m + 1) =
        IF k = 11 THEN 365 * (y + 1) + (y + 3) \div 4
        ELSE 365 * y + quarter + Before(k + 1) + (IF leap /\ k + 1 >= 2 THEN 1 ELSE 0)
  <2>1. CASE k = 11
    <3> DEFINE z == y + 1
               j == 0
    <3>1. m + 1 = 12 * z + j /\ z \in Nat /\ j \in 0..11 /\ z + 2 = y + 3 /\ ~(j >= 2)
      BY <1>1, <2>1
    <3> HIDE DEF z, j
    <3>2. MonthStart(12 * z + j) =
            365 * z + (z + 2) \div 4 + Before(j) + (IF (2023 + z) % 4 = 0 /\ j >= 2 THEN 1 ELSE 0)
      BY <3>1, StartOf
    <3>3. MonthStart(m + 1) = 365 * z + (y + 3) \div 4 + Before(j)
      BY <3>1, <3>2, BeforeIs DEF j
    <3>4. Before(j) = 0
      BY BeforeIs DEF j
    <3>5. (y + 3) \div 4 \in Nat
      OBVIOUS
    <3> QED BY <2>1, <3>1, <3>3, <3>4, <3>5 DEF z
  <2>2. CASE k # 11
    <3> DEFINE j == k + 1
    <3>1. m + 1 = 12 * y + j /\ j \in 0..11
      BY <1>1, <2>2
    <3> HIDE DEF j
    <3>2. MonthStart(12 * y + j) =
            365 * y + (y + 2) \div 4 + Before(j) + (IF (2023 + y) % 4 = 0 /\ j >= 2 THEN 1 ELSE 0)
      BY <3>1, StartOf
    <3> QED BY <2>2, <3>1, <3>2 DEF j
  <2> QED BY <2>1, <2>2
<1>7. leap \in BOOLEAN
  OBVIOUS
<1> HIDE DEF quarter, leap
<1>8. k \in {0, 1, 2, 3, 4, 5, 6, 7, 8, 9, 10, 11}
  OBVIOUS
<1>9. /\ MonthStart(m) \in Nat
      /\ MonthStart(m + 1) = MonthStart(m) + DaysInMonth(m)
      /\ DaysInMonth(m) \in 28..31
  BY <1>3, <1>4, <1>5, <1>6, <1>7, <1>8, BeforeIs
<1>10. 28 * m <= MonthStart(m) /\ MonthStart(m) <= 31 * m
  <2>1. 28 * k <= Before(k) /\ Before(k) <= 31 * k /\ Before(k) \in Nat
    BY <1>8, BeforeIs
  <2>2. leap => y > 0
    BY DEF leap
  <2> QED BY <1>1, <1>3, <1>5, <1>7, <2>1, <2>2
<1> QED BY <1>9, <1>10

(* A set of numbers has a least one. *)
LEMMA Least ==
  ASSUME NEW S, S \subseteq Nat, S # {}
  PROVE  \E n \in S : \A m \in S : n <= m
<1>1. PICK n \in S : \A m \in S : <<m, n>> \notin OpToRel(<, Nat)
  BY NatLessThanWellFounded, WFMin, Zenon
<1>2. \A m \in S : ~(m < n)
  BY <1>1 DEF OpToRel
<1>3. \A m \in S : m \in Nat
  OBVIOUS
<1> QED BY <1>2, <1>3

LEMMA LeastIs ==
  ASSUME NEW S, S \subseteq Nat, S # {}
  PROVE  Min(S) \in S /\ \A m \in S : Min(S) <= m
  BY Least DEF Min

(* Months start in order. *)
LEMMA MonthsInOrder ==
  ASSUME NEW a \in Nat, NEW b \in Nat, a <= b
  PROVE  MonthStart(a) <= MonthStart(b)
<1> DEFINE Bad == {n \in Nat : n >= a /\ MonthStart(a) > MonthStart(n)}
<1>1. CASE Bad = {}
  <2>1. ~(MonthStart(a) > MonthStart(b))
    BY <1>1
  <2> QED BY <2>1, MonthLength
<1>2. CASE Bad # {}
  <2>1. PICK n \in Bad : \A m \in Bad : n <= m
    BY <1>2, Least
  <2>2. n \in Nat /\ n > a /\ MonthStart(a) > MonthStart(n)
    <3>1. n \in Nat /\ n >= a /\ MonthStart(a) > MonthStart(n)
      OBVIOUS
    <3>2. MonthStart(a) \in Nat
      BY MonthLength
    <3> QED BY <3>1, <3>2
  <2> DEFINE p == n - 1
  <2>3. p \in Nat /\ p >= a /\ p + 1 = n /\ ~(n <= p)
    BY <2>2
  <2>4. p \notin Bad
    BY <2>1, <2>3
  <2>5. ~(MonthStart(a) > MonthStart(p))
    BY <2>3, <2>4
  <2> HIDE DEF p, Bad
  <2>6. /\ MonthStart(p) \in Nat /\ MonthStart(a) \in Nat /\ DaysInMonth(p) \in 28..31
        /\ MonthStart(n) = MonthStart(p) + DaysInMonth(p)
    BY <2>3, MonthLength
  <2> QED BY <2>2, <2>5, <2>6
<1> QED BY <1>1, <1>2

(* The month of a date. *)
LEMMA MonthOfDate ==
  ASSUME NEW date \in Nat
  PROVE  /\ MonthOf(date) \in Nat
         /\ MonthStart(MonthOf(date)) <= date
         /\ date < MonthStart(MonthOf(date) + 1)
         /\ DayOfMonth(date) \in 1..DaysInMonth(MonthOf(date))
<1> DEFINE After == {m \in Nat : MonthStart(m) > date}
<1>1. date + 1 \in After
  <2>1. date + 1 \in Nat
    OBVIOUS
  <2>2. 28 * (date + 1) <= MonthStart(date + 1) /\ MonthStart(date + 1) \in Nat
    BY <2>1, MonthLength
  <2>3. MonthStart(date + 1) > date
    BY <2>2
  <2> QED BY <2>1, <2>3
<1>2. PICK n \in After : \A m \in After : n <= m
  BY <1>1, Least
<1>3. n \in Nat /\ MonthStart(n) > date
  OBVIOUS
<1>4. n # 0
  <2>1. 0 \in Nat
    OBVIOUS
  <2>2. MonthStart(0) <= 31 * 0 /\ MonthStart(0) \in Nat
    BY <2>1, MonthLength
  <2> QED BY <1>3, <2>2
<1> DEFINE p == n - 1
<1>5. p \in Nat /\ p + 1 = n /\ ~(n <= p)
  BY <1>3, <1>4
<1>6. ~(MonthStart(p) > date)
  BY <1>2, <1>5
<1> HIDE DEF p, After
<1>7. /\ MonthStart(p) \in Nat /\ 28 * p <= MonthStart(p) /\ MonthStart(p) <= date
      /\ date < MonthStart(p + 1)
  BY <1>3, <1>5, <1>6, MonthLength
<1>8. MonthStart(p + 1) <= 31 * (p + 1)
  BY <1>5, MonthLength
<1>9. p \in (date \div 31) .. (date \div 28)
  <2>1. MonthStart(p + 1) \in Nat
    BY <1>5, MonthLength
  <2>2. 28 * p <= date
    BY <1>5, <1>7
  <2>3. date < 31 * (p + 1)
    BY <1>5, <1>7, <1>8, <2>1
  <2> QED BY <1>5, <2>2, <2>3
<1>10. /\ MonthOf(date) \in (date \div 31) .. (date \div 28)
       /\ MonthStart(MonthOf(date)) <= date /\ date < MonthStart(MonthOf(date) + 1)
  BY <1>7, <1>9 DEF MonthOf
<1>11. MonthOf(date) \in Nat
  <2>1. date \div 31 \in Nat /\ date \div 28 \in Nat
    BY SMT
  <2> QED BY <1>10, <2>1
<1>12. DayOfMonth(date) \in 1..DaysInMonth(MonthOf(date))
  <2> DEFINE k == MonthOf(date)
  <2>1. k \in Nat /\ MonthStart(k) <= date /\ date < MonthStart(k + 1)
        /\ DayOfMonth(date) = date - MonthStart(k) + 1
    BY <1>10, <1>11 DEF DayOfMonth
  <2> HIDE DEF k
  <2>2. /\ MonthStart(k) \in Nat /\ DaysInMonth(k) \in 28..31
        /\ MonthStart(k + 1) = MonthStart(k) + DaysInMonth(k)
    BY <2>1, MonthLength
  <2>3. DayOfMonth(date) \in 1..DaysInMonth(k)
    BY <2>1, <2>2
  <2> QED BY <2>3 DEF k
<1> QED BY <1>10, <1>11, <1>12

(* A date on or after the start of a month is of that month or a later one. *)
LEMMA MonthNotBefore ==
  ASSUME NEW date \in Nat, NEW m \in Nat, date >= MonthStart(m)
  PROVE  MonthOf(date) >= m
<1> DEFINE k == MonthOf(date)
<1>1. k \in Nat /\ date < MonthStart(k + 1)
  BY MonthOfDate
<1> HIDE DEF k
<1>2. MonthStart(m) \in Nat /\ MonthStart(k + 1) \in Nat
  BY <1>1, MonthLength
<1>3. ~(k + 1 <= m)
  BY <1>1, <1>2, MonthsInOrder
<1> QED BY <1>1, <1>3 DEF k

(* What Patterns says of a pattern. *)
IsPattern(p) ==
  /\ p.frequency \in Frequencies
  /\ p.interval \in Nat \ {0}
  /\ p.frequency = "WEEKLY" => p.days \subseteq 0..6
  /\ p.frequency = "MONTHLY" => p.days \subseteq 1..31
  /\ p.frequency \in {"DAILY", "YEARLY"} => p.days = {}

(* A day of a month is a date of it. *)
LEMMA DateIs ==
  ASSUME NEW month \in Nat, NEW day \in Nat \ {0}
  PROVE  Date(month, day) \in Nat /\ Date(month, day) >= MonthStart(month)
<1>1. MonthStart(month) \in Nat
  BY MonthLength
<1> QED BY <1>1 DEF Date

(* A day of the month of a date is a date, and it is not before the date unless the day is. *)
LEMMA WithDay ==
  ASSUME NEW date \in Nat, NEW day \in Nat \ {0}
  PROVE  /\ withDay(date, day) \in Nat
         /\ withDay(date, day) >= MonthStart(MonthOf(date))
         /\ day >= DayOfMonth(date) => withDay(date, day) >= date
<1> DEFINE month == MonthOf(date)
           own == DayOfMonth(date)
<1>1. /\ month \in Nat /\ own \in 1..DaysInMonth(month) /\ own = date - MonthStart(month) + 1
      /\ withDay(date, day) = Date(month, IF day > DaysInMonth(month) THEN DaysInMonth(month) ELSE day)
  BY MonthOfDate DEF withDay, DayOfMonth
<1> HIDE DEF month, own
<1>2. MonthStart(month) \in Nat /\ DaysInMonth(month) \in 28..31
  BY <1>1, MonthLength
<1>3. withDay(date, day) = MonthStart(month) + (IF day > DaysInMonth(month) THEN DaysInMonth(month) ELSE day) - 1
  BY <1>1 DEF Date
<1>4. /\ withDay(date, day) \in Nat /\ withDay(date, day) >= MonthStart(month)
      /\ day >= own => withDay(date, day) >= date
  BY <1>1, <1>2, <1>3
<1> QED BY <1>4 DEF month, own

(* Months later is later. *)
LEMMA MonthsLater ==
  ASSUME NEW date \in Nat, NEW n \in Nat
  PROVE  AddMonths(date, n) \in Nat /\ AddMonths(date, n) >= MonthStart(MonthOf(date) + n)
<1> DEFINE month == MonthOf(date)
           own == DayOfMonth(date)
<1>1. /\ month \in Nat /\ own \in 1..DaysInMonth(month)
      /\ AddMonths(date, n) = Date(month + n, own)
  BY MonthOfDate DEF AddMonths
<1> HIDE DEF month, own
<1>2. DaysInMonth(month) \in 28..31
  BY <1>1, MonthLength
<1>3. month + n \in Nat /\ own \in Nat \ {0}
  BY <1>1, <1>2
<1> QED BY <1>1, <1>3, DateIs DEF month

(* One step of a pattern ends on a date. *)
LEMMA AdvanceIsDate ==
  ASSUME NEW date \in Nat, NEW p, IsPattern(p)
  PROVE  advance(date, p) \in Nat
<1>1. p.interval \in Nat \ {0} /\ p.frequency \in {"DAILY", "WEEKLY", "MONTHLY", "YEARLY"}
  BY DEF IsPattern, Frequencies
<1>2. DayOfWeek(date) \in 0..6 /\ date - DayOfWeek(date) \in Nat
  BY SMT DEF DayOfWeek
<1>3. CASE p.frequency = "WEEKLY" /\ p.days # {}
  <2> DEFINE later == Later(p.days, DayOfWeek(date))
             days == p.days
  <2>1. /\ later \subseteq Nat /\ days \subseteq Nat /\ days # {}
        /\ advance(date, p) = date - DayOfWeek(date) + (IF later # {} THEN Min(later) ELSE 7 * p.interval + Min(days))
    BY <1>3 DEF advance, IsPattern, Later
  <2> HIDE DEF later, days
  <2>2. (later # {} => Min(later) \in Nat) /\ Min(days) \in Nat
    BY <2>1, LeastIs
  <2> QED BY <1>1, <1>2, <2>1, <2>2
<1>4. CASE p.frequency = "MONTHLY" /\ p.days # {}
  <2> DEFINE later == Later(p.days, DayOfMonth(date))
             days == p.days
             next == AddMonths(date, p.interval)
  <2>1. /\ later \subseteq Nat \ {0} /\ days \subseteq Nat \ {0} /\ days # {}
        /\ advance(date, p) = IF later # {} THEN withDay(date, Min(later)) ELSE withDay(next, Min(days))
    BY <1>4 DEF advance, IsPattern, Later
  <2>2. next \in Nat
    BY <1>1, MonthsLater
  <2> HIDE DEF later, days, next
  <2>3. (later # {} => Min(later) \in Nat \ {0}) /\ Min(days) \in Nat \ {0}
    <3>1. later \subseteq Nat /\ days \subseteq Nat
      BY <2>1
    <3> QED BY <2>1, <3>1, LeastIs
  <2>4. withDay(next, Min(days)) \in Nat
    BY <2>2, <2>3, WithDay
  <2>5. later # {} => withDay(date, Min(later)) \in Nat
    BY <2>3, WithDay
  <2> QED BY <2>1, <2>4, <2>5
<1>5. CASE p.frequency = "DAILY"
  BY <1>1, <1>5 DEF advance
<1>6. CASE p.frequency = "WEEKLY" /\ p.days = {}
  BY <1>1, <1>6 DEF advance
<1>7. CASE p.frequency = "MONTHLY" /\ p.days = {}
  <2>1. advance(date, p) = AddMonths(date, p.interval)
    BY <1>7 DEF advance
  <2> QED BY <1>1, <2>1, MonthsLater
<1>8. CASE p.frequency = "YEARLY"
  <2>1. advance(date, p) = AddMonths(date, 12 * p.interval)
    BY <1>8 DEF advance
  <2>2. 12 * p.interval \in Nat
    BY <1>1
  <2> QED BY <2>1, <2>2, MonthsLater
<1> QED BY <1>1, <1>3, <1>4, <1>5, <1>6, <1>7, <1>8

(* A date aligned to a pattern is a date, not before it. *)
LEMMA AlignedIsNotBefore ==
  ASSUME NEW date \in Nat, NEW p, IsPattern(p)
  PROVE  alignToPattern(date, p) \in Nat /\ alignToPattern(date, p) >= date
<1>1. DayOfWeek(date) \in 0..6 /\ date - DayOfWeek(date) \in Nat
  BY SMT DEF DayOfWeek
<1>2. CASE p.frequency = "WEEKLY" /\ p.days # {} /\ DayOfWeek(date) \notin p.days
  <2> DEFINE later == Later(p.days, DayOfWeek(date))
             days == p.days
  <2>1. /\ later \subseteq Nat /\ days \subseteq Nat /\ days # {}
        /\ \A x \in later : x > DayOfWeek(date)
        /\ alignToPattern(date, p) = date - DayOfWeek(date) + (IF later # {} THEN Min(later) ELSE 7 + Min(days))
    BY <1>2 DEF alignToPattern, IsPattern, Later
  <2> HIDE DEF later, days
  <2>2. (later # {} => Min(later) \in later) /\ Min(days) \in Nat
    BY <2>1, LeastIs
  <2>3. later # {} => Min(later) \in Nat /\ Min(later) > DayOfWeek(date)
    BY <2>1, <2>2
  <2> QED BY <1>1, <2>1, <2>2, <2>3
<1>3. CASE p.frequency = "MONTHLY" /\ p.days # {} /\ DayOfMonth(date) \notin p.days
  <2> DEFINE later == Later(p.days, DayOfMonth(date))
             days == p.days
             next == AddMonths(date, 1)
             month == MonthOf(date)
  <2>1. /\ later \subseteq Nat \ {0} /\ days \subseteq Nat \ {0} /\ days # {}
        /\ \A x \in later : x > DayOfMonth(date)
        /\ alignToPattern(date, p) = IF later # {} THEN withDay(date, Min(later)) ELSE withDay(next, Min(days))
    BY <1>3 DEF alignToPattern, IsPattern, Later
  <2>2. next \in Nat /\ next >= MonthStart(month + 1) /\ month \in Nat /\ date < MonthStart(month + 1)
    BY MonthsLater, MonthOfDate
  <2>3. DayOfMonth(date) \in Nat
    <3>1. DaysInMonth(month) \in 28..31
      BY <2>2, MonthLength
    <3> QED BY <3>1, MonthOfDate
  <2> HIDE DEF later, days, next, month
  <2>4. (later # {} => Min(later) \in later) /\ Min(days) \in days
    <3>1. later \subseteq Nat /\ days \subseteq Nat
      BY <2>1
    <3> QED BY <2>1, <3>1, LeastIs
  <2>5. later # {} => Min(later) \in Nat \ {0} /\ Min(later) > DayOfMonth(date)
    BY <2>1, <2>4
  <2>6. later # {} => withDay(date, Min(later)) \in Nat /\ withDay(date, Min(later)) >= date
    <3> DEFINE day == Min(later)
    <3> SUFFICES ASSUME later # {} PROVE withDay(date, day) \in Nat /\ withDay(date, day) >= date
      OBVIOUS
    <3>1. day \in Nat \ {0} /\ day > DayOfMonth(date)
      BY <2>5
    <3> HIDE DEF day
    <3>2. day >= DayOfMonth(date)
      BY <2>3, <3>1
    <3> QED BY <3>1, <3>2, WithDay
  <2>7. withDay(next, Min(days)) \in Nat /\ withDay(next, Min(days)) >= date
    <3> DEFINE day == Min(days)
               k == MonthOf(next)
               first == month + 1
    <3>1. day \in Nat \ {0} /\ first \in Nat
      <4>1. day \in Nat \ {0}
        BY <2>1, <2>4
      <4>2. first \in Nat
        BY <2>2
      <4> QED BY <4>1, <4>2
    <3>2. k \in Nat /\ k >= first
      BY <2>2, <3>1, MonthOfDate, MonthNotBefore
    <3>3. withDay(next, day) \in Nat /\ withDay(next, day) >= MonthStart(k)
      BY <2>2, <3>1, WithDay
    <3> HIDE DEF day, k
    <3>4. MonthStart(k) \in Nat /\ MonthStart(first) \in Nat /\ MonthStart(first) <= MonthStart(k)
      <4> HIDE DEF first
      <4> QED BY <3>1, <3>2, MonthLength, MonthsInOrder
    <3>5. withDay(next, day) >= date
      BY <2>2, <3>3, <3>4
    <3> QED BY <3>3, <3>5 DEF day
  <2> QED BY <2>1, <2>6, <2>7
<1>4. CASE /\ ~(p.frequency = "WEEKLY" /\ p.days # {} /\ DayOfWeek(date) \notin p.days)
           /\ ~(p.frequency = "MONTHLY" /\ p.days # {} /\ DayOfMonth(date) \notin p.days)
  BY <1>4 DEF alignToPattern
<1> QED BY <1>2, <1>3, <1>4

-----------------------------------------------------------------------------

(* The function computeNextRun is built from, from n advances on. *)
From(g, p, now, n) ==
  g = [s \in Nat \X (n..Safety) |->
        IF s[1] > now THEN s[1] ELSE IF s[2] = Safety THEN NoDate ELSE g[<<advance(s[1], p), s[2] + 1>>]]

LEMMA FromAt ==
  ASSUME NEW g, NEW p, NEW now, NEW n, From(g, p, now, n), NEW date \in Nat, NEW k \in n..Safety
  PROVE  g[<<date, k>>] =
           IF date > now THEN date ELSE IF k = Safety THEN NoDate ELSE g[<<advance(date, p), k + 1>>]
<1> DEFINE G(s) == IF s[1] > now THEN s[1] ELSE IF s[2] = Safety THEN NoDate
                   ELSE g[<<advance(s[1], p), s[2] + 1>>]
<1>1. g = [s \in Nat \X (n..Safety) |-> G(s)]
  BY DEF From
<1>2. <<date, k>> \in Nat \X (n..Safety)
  OBVIOUS
<1> DEFINE at == <<date, k>>
<1>3. at[1] = date /\ at[2] = k
  OBVIOUS
<1> HIDE DEF G, at
<1>4. g[at] = G(at)
  BY <1>1, <1>2 DEF at
<1> QED BY <1>3, <1>4 DEF G, at

(* The advances are counted, so there is such a function. *)
LEMMA FromExists ==
  ASSUME NEW p, IsPattern(p), NEW now \in Nat
  PROVE  \E g : From(g, p, now, 0)
<1> DEFINE Built == {n \in 0..Safety : \E g : From(g, p, now, n)}
<1>1. Safety \in Nat
  BY ScheduleAssumption
<1>2. Safety \in Built
  <2> DEFINE G(g, s) == IF s[1] > now THEN s[1] ELSE IF s[2] = Safety THEN NoDate
                        ELSE g[<<advance(s[1], p), s[2] + 1>>]
             H(s) == IF s[1] > now THEN s[1] ELSE NoDate
             g == [s \in Nat \X (Safety..Safety) |-> H(s)]
  <2>1. \A s \in Nat \X (Safety..Safety) : s[2] = Safety
    BY <1>1
  <2>2. \A s \in Nat \X (Safety..Safety) : H(s) = G(g, s)
    BY <2>1
  <2>3. g = [s \in Nat \X (Safety..Safety) |-> G(g, s)]
    <3> DEFINE f == g
    <3>1. f = [s \in Nat \X (Safety..Safety) |-> H(s)] /\ \A s \in Nat \X (Safety..Safety) : H(s) = G(f, s)
      BY <2>2
    <3> HIDE DEF f, G, H
    <3>2. f = [s \in Nat \X (Safety..Safety) |-> G(f, s)]
      BY <3>1, Zenon
    <3> QED BY <3>2 DEF f
  <2>4. From(g, p, now, Safety)
    BY <2>3 DEF From
  <2>5. Safety \in 0..Safety
    BY <1>1
  <2> HIDE DEF g
  <2> QED BY <2>4, <2>5
<1>3. PICK n \in Built : \A m \in Built : n <= m
  <2>1. Built \subseteq Nat /\ Built # {}
    BY <1>1, <1>2
  <2> HIDE DEF Built
  <2> QED BY <2>1, Least
<1>4. n \in 0..Safety /\ \E g : From(g, p, now, n)
  OBVIOUS
<1>5. CASE n = 0
  BY <1>4, <1>5
<1>6. CASE n # 0
  <2> DEFINE m == n - 1
  <2>1. n \in 0..Safety /\ m \in 0..Safety /\ m + 1 = n /\ ~(n <= m) /\ m # Safety
    BY <1>1, <1>4, <1>6
  <2>2. PICK g : From(g, p, now, n)
    BY <1>4
  <2> HIDE DEF m
  <2> DEFINE H(s) == IF s[2] = m THEN (IF s[1] > now THEN s[1] ELSE g[<<advance(s[1], p), n>>]) ELSE g[s]
             G(f, s) == IF s[1] > now THEN s[1] ELSE IF s[2] = Safety THEN NoDate
                        ELSE f[<<advance(s[1], p), s[2] + 1>>]
             h == [s \in Nat \X (m..Safety) |-> H(s)]
             f == h
  <2>3. f = [s \in Nat \X (m..Safety) |-> H(s)]
    OBVIOUS
  <2> HIDE DEF h, f
  <2>4. /\ \A k \in m..Safety : k # m => k \in n..Safety
        /\ \A k \in n..Safety : k \in m..Safety /\ k # m
        /\ \A k \in m..Safety : k # Safety => k + 1 \in n..Safety
    BY <1>1, <2>1
  <2>5. \A date \in Nat, k \in n..Safety : f[<<date, k>>] = g[<<date, k>>]
    <3> SUFFICES ASSUME NEW date \in Nat, NEW k \in n..Safety PROVE f[<<date, k>>] = g[<<date, k>>]
      OBVIOUS
    <3> DEFINE at == <<date, k>>
    <3>1. at \in Nat \X (m..Safety) /\ at[2] = k /\ k # m
      BY <2>4
    <3> HIDE DEF at, H
    <3>2. f[at] = H(at)
      BY <2>3, <3>1
    <3>3. H(at) = g[at]
      BY <3>1 DEF H
    <3> QED BY <3>2, <3>3 DEF at
  <2>6. \A date \in Nat : advance(date, p) \in Nat
    BY AdvanceIsDate
  <2>7. \A s \in Nat \X (m..Safety) : H(s) = G(f, s)
    <3> SUFFICES ASSUME NEW s \in Nat \X (m..Safety) PROVE H(s) = G(f, s)
      OBVIOUS
    <3>1. s[1] \in Nat /\ s[2] \in m..Safety /\ s = <<s[1], s[2]>>
      OBVIOUS
    <3> DEFINE next == advance(s[1], p)
    <3>2. next \in Nat
      BY <2>6, <3>1
    <3>3. s[2] # Safety => f[<<next, s[2] + 1>>] = g[<<next, s[2] + 1>>]
      BY <2>4, <2>5, <3>1, <3>2
    <3>4. CASE s[2] = m
      BY <2>1, <3>3, <3>4
    <3>5. CASE s[2] # m
      <4>1. s[2] \in n..Safety
        BY <2>4, <3>1, <3>5
      <4>2. g[<<s[1], s[2]>>] =
              IF s[1] > now THEN s[1] ELSE IF s[2] = Safety THEN NoDate ELSE g[<<next, s[2] + 1>>]
        BY <2>2, <3>1, <4>1, FromAt
      <4>3. g[s] = g[<<s[1], s[2]>>]
        BY <3>1
      <4> QED BY <3>3, <3>5, <4>2, <4>3
    <3> QED BY <3>4, <3>5
  <2>8. f = [s \in Nat \X (m..Safety) |-> G(f, s)]
    <3> HIDE DEF G, H
    <3> QED BY <2>3, <2>7, Zenon
  <2>9. From(f, p, now, m)
    BY <2>8 DEF From
  <2>10. m \in Built
    BY <2>1, <2>9
  <2> QED BY <1>3, <2>1, <2>10
<1> QED BY <1>5, <1>6

(* What the computation answers is a date after now, or that it bailed out. *)
LEMMA FromIsLater ==
  ASSUME NEW p, IsPattern(p), NEW now \in Nat, NEW g, From(g, p, now, 0), NEW date \in Nat
  PROVE  g[<<date, 0>>] = NoDate \/ (g[<<date, 0>>] \in Nat /\ g[<<date, 0>>] > now)
<1> DEFINE Ok(n) == \A d \in Nat : g[<<d, n>>] = NoDate \/ (g[<<d, n>>] \in Nat /\ g[<<d, n>>] > now)
           Good == {n \in 0..Safety : Ok(n)}
<1>1. Safety \in Nat
  BY ScheduleAssumption
<1>2. \A d \in Nat, k \in 0..Safety :
        g[<<d, k>>] = IF d > now THEN d ELSE IF k = Safety THEN NoDate ELSE g[<<advance(d, p), k + 1>>]
  <2> SUFFICES ASSUME NEW d \in Nat, NEW k \in 0..Safety
               PROVE  g[<<d, k>>] = IF d > now THEN d ELSE IF k = Safety THEN NoDate
                                    ELSE g[<<advance(d, p), k + 1>>]
    OBVIOUS
  <2> QED BY FromAt
<1>3. Safety \in 0..Safety /\ Ok(Safety)
  <2>1. Safety \in 0..Safety
    BY <1>1
  <2>2. \A d \in Nat : g[<<d, Safety>>] = IF d > now THEN d ELSE NoDate
    BY <1>2, <2>1
  <2> QED BY <2>1, <2>2
<1>4. PICK n \in Good : \A m \in Good : n <= m
  <2>1. Good \subseteq Nat /\ Good # {}
    <3> HIDE DEF Ok
    <3> QED BY <1>1, <1>3
  <2> HIDE DEF Good
  <2> QED BY <2>1, Least
<1>5. n \in 0..Safety /\ Ok(n)
  OBVIOUS
<1>6. n = 0
  <2> SUFFICES ASSUME n # 0 PROVE FALSE
    OBVIOUS
  <2> DEFINE m == n - 1
  <2>1. m \in 0..Safety /\ m + 1 = n /\ ~(n <= m) /\ m # Safety
    <3> HIDE DEF Ok
    <3> QED BY <1>1, <1>5
  <2> HIDE DEF m
  <2>2. \A d \in Nat : g[<<d, m>>] = IF d > now THEN d ELSE g[<<advance(d, p), n>>]
    BY <1>2, <2>1
  <2>3. \A d \in Nat : advance(d, p) \in Nat
    BY AdvanceIsDate
  <2>4. Ok(m)
    BY <1>5, <2>2, <2>3
  <2>5. m \in Good
    BY <2>1, <2>4
  <2> QED BY <1>4, <2>1, <2>5
<1> QED BY <1>5, <1>6

(* The next run of a schedule is after now, unless the computation bails out. *)
LEMMA NextRunIsLater ==
  ASSUME NEW p, IsPattern(p), NEW now \in Nat, NEW after \in Nat
  PROVE  \/ computeNextRun(p, now, after) = NoDate
         \/ computeNextRun(p, now, after) \in Nat /\ computeNextRun(p, now, after) > now
<1> DEFINE f == CHOOSE g : From(g, p, now, 0)
<1>1. From(f, p, now, 0)
  BY FromExists, Zenon
<1>2. computeNextRun(p, now, after) = f[<<alignToPattern(after, p), 0>>]
  BY DEF computeNextRun, From
<1>3. alignToPattern(after, p) \in Nat
  BY AlignedIsNotBefore
<1> HIDE DEF f
<1> QED BY <1>1, <1>2, <1>3, FromIsLater

-----------------------------------------------------------------------------
(* The dates of a month *)

LEMMA MonthIs ==
  ASSUME NEW date \in Nat, NEW m \in Nat, MonthStart(m) <= date, date < MonthStart(m + 1)
  PROVE  MonthOf(date) = m
<1> DEFINE k == MonthOf(date)
<1>1. k \in Nat /\ MonthStart(k) <= date
  BY MonthOfDate
<1>2. k >= m
  BY MonthNotBefore
<1> HIDE DEF k
<1>3. ~(m + 1 <= k)
  <2> DEFINE n == m + 1
  <2>1. n \in Nat
    OBVIOUS
  <2>2. MonthStart(n) \in Nat /\ MonthStart(k) \in Nat
    BY <1>1, <2>1, MonthLength
  <2> HIDE DEF n
  <2>3. n <= k => MonthStart(n) <= MonthStart(k)
    BY <1>1, <2>1, MonthsInOrder
  <2>4. date < MonthStart(n)
    BY DEF n
  <2>5. ~(n <= k)
    BY <1>1, <2>2, <2>3, <2>4
  <2> QED BY <2>5 DEF n
<1>4. k = m
  BY <1>1, <1>2, <1>3 DEF k
<1> QED BY <1>4 DEF k

(* A day up to the 28th is in every month. *)
LEMMA DayOfEveryMonth ==
  ASSUME NEW m \in Nat, NEW day \in 1..28
  PROVE  /\ Date(m, day) \in Nat /\ MonthOf(Date(m, day)) = m /\ DayOfMonth(Date(m, day)) = day
<1> DEFINE date == Date(m, day)
<1>1. /\ MonthStart(m) \in Nat /\ DaysInMonth(m) \in 28..31
      /\ MonthStart(m + 1) = MonthStart(m) + DaysInMonth(m) /\ date = MonthStart(m) + day - 1
  BY MonthLength DEF Date
<1> HIDE DEF date
<1>2. date \in Nat /\ MonthStart(m) <= date /\ date < MonthStart(m + 1)
  BY <1>1
<1>3. MonthOf(date) = m
  BY <1>2, MonthIs
<1>4. DayOfMonth(date) = day
  BY <1>1, <1>3 DEF DayOfMonth
<1> QED BY <1>2, <1>3, <1>4 DEF date

LEMMA WithDayIs ==
  ASSUME NEW date \in Nat, NEW day \in 1..28
  PROVE  /\ withDay(date, day) \in Nat /\ MonthOf(withDay(date, day)) = MonthOf(date)
         /\ DayOfMonth(withDay(date, day)) = day
<1> DEFINE m == MonthOf(date)
<1>1. m \in Nat
  BY MonthOfDate
<1>2. withDay(date, day) = Date(m, IF day > DaysInMonth(m) THEN DaysInMonth(m) ELSE day)
  BY DEF withDay
<1> HIDE DEF m
<1>3. DaysInMonth(m) \in 28..31
  BY <1>1, MonthLength
<1>4. withDay(date, day) = Date(m, day)
  BY <1>2, <1>3
<1>5. /\ withDay(date, day) \in Nat /\ MonthOf(withDay(date, day)) = m
      /\ DayOfMonth(withDay(date, day)) = day
  BY <1>1, <1>4, DayOfEveryMonth
<1> QED BY <1>5 DEF m

LEMMA AddMonthsIs ==
  ASSUME NEW date \in Nat, NEW n \in Nat, DayOfMonth(date) <= 28
  PROVE  /\ AddMonths(date, n) \in Nat /\ MonthOf(AddMonths(date, n)) = MonthOf(date) + n
         /\ DayOfMonth(AddMonths(date, n)) = DayOfMonth(date)
<1> DEFINE m == MonthOf(date)
           day == DayOfMonth(date)
           k == m + n
<1>1. m \in Nat /\ day \in 1..DaysInMonth(m) /\ day <= 28 /\ AddMonths(date, n) = Date(k, day)
  BY MonthOfDate DEF AddMonths
<1> HIDE DEF m, day
<1>2. DaysInMonth(m) \in 28..31
  BY <1>1, MonthLength
<1>3. day \in 1..28 /\ k \in Nat
  BY <1>1, <1>2
<1> HIDE DEF k
<1>4. AddMonths(date, n) \in Nat /\ MonthOf(AddMonths(date, n)) = k /\ DayOfMonth(AddMonths(date, n)) = day
  <2> DEFINE date1 == Date(k, day)
  <2>1. date1 \in Nat /\ MonthOf(date1) = k /\ DayOfMonth(date1) = day
    BY <1>3, DayOfEveryMonth
  <2>2. AddMonths(date, n) = date1
    BY <1>1 DEF k
  <2> HIDE DEF date1
  <2> QED BY <2>1, <2>2
<1> QED BY <1>4 DEF k, m, day

(* The dates of a month come in the order of its days, and months in theirs. *)
LEMMA DatesInOrder ==
  ASSUME NEW d \in Nat, NEW e \in Nat, d < e
  PROVE  \/ MonthOf(d) < MonthOf(e)
         \/ MonthOf(d) = MonthOf(e) /\ DayOfMonth(d) < DayOfMonth(e)
<1> DEFINE j == MonthOf(d)
           k == MonthOf(e)
<1>1. j \in Nat /\ k \in Nat /\ MonthStart(j) <= d
  BY MonthOfDate
<1>2. DayOfMonth(d) = d - MonthStart(j) + 1 /\ DayOfMonth(e) = e - MonthStart(k) + 1
  BY DEF DayOfMonth
<1>3. MonthStart(j) \in Nat
  <2> HIDE DEF j
  <2> QED BY <1>1, MonthLength
<1>4. k >= j
  <2>1. e >= MonthStart(j)
    <3> HIDE DEF j, k
    <3> QED BY <1>1, <1>3
  <2> HIDE DEF j
  <2> QED BY <1>1, <2>1, MonthNotBefore
<1> HIDE DEF j, k
<1>5. j < k \/ (j = k /\ DayOfMonth(d) < DayOfMonth(e))
  BY <1>1, <1>2, <1>3, <1>4
<1> QED BY <1>5 DEF j, k

LEMMA WeekIs ==
  ASSUME NEW w \in Nat, NEW day \in 0..6
  PROVE  (7 * w + day) \div 7 = w /\ (7 * w + day) % 7 = day
BY SMT

LEMMA WeekOf ==
  ASSUME NEW d \in Nat
  PROVE  d \div 7 \in Nat /\ DayOfWeek(d) \in 0..6 /\ d = 7 * (d \div 7) + DayOfWeek(d)
BY SMT DEF DayOfWeek

LEMMA WeeksInOrder ==
  ASSUME NEW d \in Nat, NEW e \in Nat, d < e
  PROVE  d \div 7 < e \div 7 \/ (d \div 7 = e \div 7 /\ DayOfWeek(d) < DayOfWeek(e))
<1> DEFINE v == d \div 7
           w == e \div 7
<1>1. /\ v \in Nat /\ DayOfWeek(d) \in 0..6 /\ d = 7 * v + DayOfWeek(d)
      /\ w \in Nat /\ DayOfWeek(e) \in 0..6 /\ e = 7 * w + DayOfWeek(e)
  BY WeekOf
<1> HIDE DEF v, w
<1>2. v < w \/ (v = w /\ DayOfWeek(d) < DayOfWeek(e))
  BY <1>1
<1> QED BY <1>2 DEF v, w

-----------------------------------------------------------------------------
(* Remainders *)

LEMMA Remainder ==
  ASSUME NEW n \in Nat \ {0}, NEW j \in Nat, NEW r \in 0..(n - 1)
  PROVE  (n * j + r) % n = r
BY SMT

LEMMA OneMore ==
  ASSUME NEW a \in Nat, NEW n \in Nat \ {0}, a % n = 0
  PROVE  /\ (a + n) % n = 0
         /\ \A b \in 1..(n - 1) : (a + b) % n # 0
<1> DEFINE k == a \div n
           j == k + 1
<1>1. a = n * k /\ k \in Nat
  BY SMT
<1> HIDE DEF k
<1>2. (a + n) % n = 0
  <2>1. n * j = n * k + n /\ j \in Nat /\ n * j \in Nat
    BY <1>1
  <2>2. a + n = n * j + 0
    BY <1>1, <2>1
  <2> HIDE DEF j
  <2>3. 0 \in 0..(n - 1)
    OBVIOUS
  <2> QED BY <2>1, <2>2, <2>3, Remainder
<1>3. ASSUME NEW b \in 1..(n - 1) PROVE (a + b) % n # 0
  <2>1. b \in 0..(n - 1) /\ b # 0
    OBVIOUS
  <2>2. (n * k + b) % n = b
    BY <1>1, <2>1, Remainder
  <2> QED BY <1>1, <2>1, <2>2
<1> QED BY <1>2, <1>3

-----------------------------------------------------------------------------
(* Dates as periods and days in them: weeks and weekdays, months and days of the month *)

Ordered(period, day) ==
  /\ period \in [Nat -> Nat] /\ day \in [Nat -> Nat]
  /\ \A d, e \in Nat : d < e => period[d] < period[e] \/ (period[d] = period[e] /\ day[d] < day[e])

LEMMA NotBefore ==
  ASSUME NEW period, NEW day, Ordered(period, day), NEW d \in Nat, NEW e \in Nat,
         period[d] < period[e] \/ (period[d] = period[e] /\ day[d] < day[e])
  PROVE  d < e
<1>1. period[d] \in Nat /\ period[e] \in Nat /\ day[d] \in Nat /\ day[e] \in Nat
  BY DEF Ordered
<1>2. e < d => period[e] < period[d] \/ (period[e] = period[d] /\ day[e] < day[d])
  BY DEF Ordered
<1>3. d # e
  BY <1>1
<1>4. ~(e < d)
  BY <1>1, <1>2
<1> QED BY <1>3, <1>4

(* A listed day in a period that is a multiple of length away from that of base. *)
OnPattern(period, day, days, length, base, d) ==
  day[d] \in days /\ period[base] <= period[d] /\ (period[d] - period[base]) % length = 0

OneStep(period, day, days, length, d, next) ==
  IF Later(days, day[d]) # {} THEN period[next] = period[d] /\ day[next] = Min(Later(days, day[d]))
  ELSE period[next] = period[d] + length /\ day[next] = Min(days)

(* One step of a pattern goes to the next listed day of its period, or to the first one of the
   period that comes length periods later: no listed day in between is in a period of its own. *)
LEMMA NextInPeriods ==
  ASSUME NEW period, NEW day, Ordered(period, day), NEW days, days \subseteq Nat, days # {},
         NEW length \in Nat \ {0}, NEW base \in Nat, NEW d \in Nat, NEW next \in Nat,
         OnPattern(period, day, days, length, base, d), OneStep(period, day, days, length, d, next)
  PROVE  /\ next > d /\ OnPattern(period, day, days, length, base, next)
         /\ \A e \in Nat : d < e /\ e < next => ~OnPattern(period, day, days, length, base, e)
<1> USE DEF OnPattern, OneStep
<1> DEFINE later == Later(days, day[d])
           a == period[d] - period[base]
<1>1. /\ period[d] \in Nat /\ period[base] \in Nat /\ period[next] \in Nat
      /\ day[d] \in Nat /\ day[next] \in Nat
  BY DEF Ordered
<1>2. later \subseteq Nat /\ \A x \in later : x \in days /\ x > day[d]
  BY DEF Later
<1>3. \A x \in days : x > day[d] => x \in later
  BY DEF Later
<1>4. a \in Nat /\ a % length = 0
  BY <1>1
<1>5. ASSUME NEW e \in Nat, d < e, e < next
      PROVE  /\ period[e] \in Nat /\ day[e] \in Nat
             /\ period[d] < period[e] \/ (period[d] = period[e] /\ day[d] < day[e])
             /\ period[e] < period[next] \/ (period[e] = period[next] /\ day[e] < day[next])
  BY <1>5 DEF Ordered
<1>6. CASE later # {}
  <2>1. period[next] = period[d] /\ day[next] = Min(later)
    BY <1>6
  <2> HIDE DEF later
  <2>2. day[next] \in later /\ \A x \in later : day[next] <= x
    BY <1>2, <1>6, <2>1, LeastIs
  <2>3. next > d
    BY <1>1, <1>2, <2>1, <2>2, NotBefore
  <2>4. ASSUME NEW e \in Nat, d < e, e < next, day[e] \in days PROVE FALSE
    <3>1. period[e] = period[d] /\ day[d] < day[e] /\ day[e] < day[next] /\ day[e] \in Nat
      BY <1>1, <1>5, <2>1, <2>4
    <3>2. day[e] \in later
      BY <1>1, <1>3, <2>4, <3>1
    <3>3. day[next] <= day[e]
      BY <2>2, <3>2
    <3> QED BY <1>1, <3>1, <3>3
  <2> QED BY <1>2, <2>1, <2>2, <2>3, <2>4
<1>7. CASE later = {}
  <2>1. period[next] = period[d] + length /\ day[next] = Min(days)
    BY <1>7
  <2>2. day[next] \in days /\ \A x \in days : day[next] <= x
    BY <2>1, LeastIs
  <2>3. next > d
    BY <1>1, <2>1, NotBefore
  <2>4. period[next] - period[base] = a + length
    BY <1>1, <2>1
  <2> HIDE DEF later
  <2>5. ASSUME NEW e \in Nat, d < e, e < next, day[e] \in days PROVE (period[e] - period[base]) % length # 0
    <3> DEFINE b == period[e] - period[d]
    <3>1. period[e] # period[d]
      BY <1>1, <1>3, <1>5, <1>7, <2>5
    <3>2. period[e] # period[next]
      <4>1. day[next] <= day[e]
        BY <2>2, <2>5
      <4> QED BY <1>1, <1>5, <2>5, <4>1
    <3>3. b \in 1..(length - 1) /\ period[e] - period[base] = a + b
      BY <1>1, <1>5, <2>1, <2>5, <3>1, <3>2
    <3> HIDE DEF a, b
    <3> QED BY <1>4, <3>3, OneMore
  <2>6. (a + length) % length = 0
    <3> HIDE DEF a
    <3> QED BY <1>4, OneMore
  <2>7. period[base] <= period[next]
    BY <1>1, <2>1
  <2> QED BY <2>2, <2>3, <2>4, <2>5, <2>6, <2>7
<1> QED BY <1>6, <1>7

(* The first listed day from a day on. *)
LEMMA FirstInPeriods ==
  ASSUME NEW period, NEW day, Ordered(period, day), NEW days, days \subseteq Nat, days # {},
         NEW d \in Nat, NEW first \in Nat,
         IF day[d] \in days THEN first = d
         ELSE IF Later(days, day[d]) # {} THEN period[first] = period[d] /\ day[first] = Min(Later(days, day[d]))
         ELSE period[first] = period[d] + 1 /\ day[first] = Min(days)
  PROVE  /\ first >= d /\ day[first] \in days
         /\ \A e \in Nat : d <= e /\ e < first => day[e] \notin days
<1>1. CASE day[d] \in days
  BY <1>1
<1>2. CASE day[d] \notin days
  <2> DEFINE later == Later(days, day[d])
  <2>1. /\ period[d] \in Nat /\ period[first] \in Nat /\ day[d] \in Nat /\ day[first] \in Nat
    BY DEF Ordered
  <2>2. later \subseteq Nat /\ (\A x \in later : x \in days /\ x > day[d])
        /\ \A x \in days : x > day[d] => x \in later
    BY DEF Later
  <2>3. ASSUME NEW e \in Nat, d < e, e < first
        PROVE  /\ period[e] \in Nat /\ day[e] \in Nat
               /\ period[d] < period[e] \/ (period[d] = period[e] /\ day[d] < day[e])
               /\ period[e] < period[first] \/ (period[e] = period[first] /\ day[e] < day[first])
    BY <2>3 DEF Ordered
  <2>4. ASSUME first > d, day[first] \in days, \A e \in Nat : d < e /\ e < first => day[e] \notin days
        PROVE  /\ first >= d /\ day[first] \in days
               /\ \A e \in Nat : d <= e /\ e < first => day[e] \notin days
    <3>1. \A e \in Nat : d <= e => e = d \/ d < e
      OBVIOUS
    <3> QED BY <1>2, <2>4, <3>1
  <2>5. CASE later # {}
    <3>1. period[first] = period[d] /\ day[first] = Min(later)
      BY <1>2, <2>5
    <3> HIDE DEF later
    <3>2. day[first] \in later /\ \A x \in later : day[first] <= x
      BY <2>2, <2>5, <3>1, LeastIs
    <3>3. first > d
      BY <2>1, <2>2, <3>1, <3>2, NotBefore
    <3>4. ASSUME NEW e \in Nat, d < e, e < first PROVE day[e] \notin days
      <4>1. day[d] < day[e] /\ day[e] < day[first] /\ day[e] \in Nat
        BY <2>1, <2>3, <3>1, <3>4
      <4>2. ASSUME day[e] \in days PROVE FALSE
        <5>1. day[first] <= day[e]
          BY <2>1, <2>2, <3>2, <4>1, <4>2
        <5> QED BY <2>1, <4>1, <5>1
      <4> QED BY <4>2
    <3> QED BY <2>2, <2>4, <3>2, <3>3, <3>4
  <2>6. CASE later = {}
    <3>1. period[first] = period[d] + 1 /\ day[first] = Min(days)
      BY <1>2, <2>6
    <3>2. day[first] \in days /\ \A x \in days : day[first] <= x
      BY <3>1, LeastIs
    <3>3. first > d
      BY <2>1, <3>1, NotBefore
    <3> HIDE DEF later
    <3>4. ASSUME NEW e \in Nat, d < e, e < first PROVE day[e] \notin days
      <4>1. ASSUME day[e] \in days PROVE FALSE
        <5>1. period[e] # period[d]
          BY <2>1, <2>2, <2>3, <2>6, <3>4, <4>1
        <5>2. period[e] # period[first]
          <6>1. day[first] <= day[e]
            BY <3>2, <4>1
          <6> QED BY <2>1, <2>3, <3>4, <6>1
        <5> QED BY <2>1, <2>3, <3>1, <3>4, <5>1, <5>2
      <4> QED BY <4>1
    <3> QED BY <2>4, <3>2, <3>3, <3>4
  <2> QED BY <2>5, <2>6
<1> QED BY <1>1, <1>2

-----------------------------------------------------------------------------
(* A pattern in its periods *)

PeriodOf(p) == [d \in Nat |-> Period(p, d)]

DayIn(p) == [d \in Nat |-> IF p.frequency = "DAILY" THEN 0
                           ELSE IF p.frequency = "WEEKLY" THEN DayOfWeek(d) ELSE DayOfMonth(d)]

(* The days listed in each period: without a list, that of the anchor. *)
DaysOf(p, anchor) == IF p.frequency = "DAILY" THEN {0} ELSE IF p.days = {} THEN {DayIn(p)[anchor]} ELSE p.days

LEMMA DayOfMonthIs ==
  ASSUME NEW d \in Nat
  PROVE  MonthOf(d) \in Nat /\ DayOfMonth(d) \in 1..31 /\ DaysInMonth(MonthOf(d)) \in 28..31
<1> DEFINE m == MonthOf(d)
<1>1. m \in Nat /\ DayOfMonth(d) \in 1..DaysInMonth(m)
  BY MonthOfDate
<1> HIDE DEF m
<1>2. DaysInMonth(m) \in 28..31
  BY <1>1, MonthLength
<1>3. m \in Nat /\ DayOfMonth(d) \in 1..31 /\ DaysInMonth(m) \in 28..31
  BY <1>1, <1>2
<1> QED BY <1>3 DEF m

LEMMA DayInIs ==
  ASSUME NEW p, IsPattern(p), NEW d \in Nat
  PROVE  /\ p.frequency = "DAILY"  => PeriodOf(p)[d] = d /\ DayIn(p)[d] = 0
         /\ p.frequency = "WEEKLY" => PeriodOf(p)[d] = d \div 7 /\ DayIn(p)[d] = DayOfWeek(d)
         /\ p.frequency \in {"MONTHLY", "YEARLY"} => PeriodOf(p)[d] = MonthOf(d) /\ DayIn(p)[d] = DayOfMonth(d)
BY DEF PeriodOf, DayIn, Period

LEMMA PeriodsInOrder ==
  ASSUME NEW p, IsPattern(p)
  PROVE  Ordered(PeriodOf(p), DayIn(p))
<1>1. p.frequency \in {"DAILY", "WEEKLY", "MONTHLY", "YEARLY"}
  BY DEF IsPattern, Frequencies
<1>2. ASSUME NEW d \in Nat PROVE PeriodOf(p)[d] \in Nat /\ DayIn(p)[d] \in Nat
  <2>1. CASE p.frequency = "DAILY"
    BY <2>1, DayInIs
  <2>2. CASE p.frequency = "WEEKLY"
    BY <2>2, DayInIs, WeekOf
  <2>3. CASE p.frequency \in {"MONTHLY", "YEARLY"}
    BY <2>3, DayInIs, DayOfMonthIs
  <2> QED BY <1>1, <2>1, <2>2, <2>3
<1>3. PeriodOf(p) \in [Nat -> Nat] /\ DayIn(p) \in [Nat -> Nat]
  <2>1. PeriodOf(p) = [d \in Nat |-> PeriodOf(p)[d]] /\ DayIn(p) = [d \in Nat |-> DayIn(p)[d]]
    BY DEF PeriodOf, DayIn
  <2> QED BY <1>2, <2>1
<1>4. ASSUME NEW d \in Nat, NEW e \in Nat, d < e
      PROVE  \/ PeriodOf(p)[d] < PeriodOf(p)[e]
             \/ PeriodOf(p)[d] = PeriodOf(p)[e] /\ DayIn(p)[d] < DayIn(p)[e]
  <2>1. CASE p.frequency = "DAILY"
    BY <1>4, <2>1, DayInIs
  <2>2. CASE p.frequency = "WEEKLY"
    BY <1>4, <2>2, DayInIs, WeeksInOrder
  <2>3. CASE p.frequency \in {"MONTHLY", "YEARLY"}
    BY <1>4, <2>3, DayInIs, DatesInOrder
  <2> QED BY <1>1, <2>1, <2>2, <2>3
<1> QED BY <1>3, <1>4 DEF Ordered

LEMMA DaysOfIs ==
  ASSUME NEW p, IsPattern(p), NEW anchor \in Nat, FitsEveryMonth(p, anchor)
  PROVE  /\ DaysOf(p, anchor) \subseteq Nat /\ DaysOf(p, anchor) # {}
         /\ p.frequency = "WEEKLY" => DaysOf(p, anchor) \subseteq 0..6
         /\ p.frequency \in {"MONTHLY", "YEARLY"} => DaysOf(p, anchor) \subseteq 1..28
<1>1. p.frequency \in {"DAILY", "WEEKLY", "MONTHLY", "YEARLY"}
  BY DEF IsPattern, Frequencies
<1>2. CASE p.frequency = "DAILY"
  BY <1>2 DEF DaysOf
<1>3. CASE p.frequency = "WEEKLY"
  <2>1. DayIn(p)[anchor] \in 0..6
    BY <1>3, DayInIs, WeekOf
  <2>2. p.days \subseteq 0..6
    BY <1>3 DEF IsPattern
  <2>3. DaysOf(p, anchor) \subseteq 0..6 /\ DaysOf(p, anchor) # {}
    BY <1>3, <2>1, <2>2 DEF DaysOf
  <2> QED BY <1>3, <2>3
<1>4. CASE p.frequency \in {"MONTHLY", "YEARLY"}
  <2>1. DayIn(p)[anchor] = DayOfMonth(anchor) /\ DayOfMonth(anchor) \in 1..31
    BY <1>4, DayInIs, DayOfMonthIs
  <2>2. DayIn(p)[anchor] \in 1..28
    BY <1>4, <2>1 DEF FitsEveryMonth
  <2>3. p.days \subseteq 1..28
    BY <1>4 DEF IsPattern, FitsEveryMonth
  <2>4. DaysOf(p, anchor) \subseteq 1..28 /\ DaysOf(p, anchor) # {}
    BY <1>4, <2>2, <2>3 DEF DaysOf
  <2> QED BY <1>4, <2>4
<1> QED BY <1>1, <1>2, <1>3, <1>4

(* A date is listed when its day is. *)
LEMMA ListedIs ==
  ASSUME NEW p, IsPattern(p), NEW anchor \in Nat, FitsEveryMonth(p, anchor), NEW d \in Nat
  PROVE  Listed(p, anchor, d) <=> DayIn(p)[d] \in DaysOf(p, anchor)
<1>1. p.frequency \in {"DAILY", "WEEKLY", "MONTHLY", "YEARLY"}
  BY DEF IsPattern, Frequencies
<1>2. CASE p.frequency = "DAILY"
  BY <1>2, DayInIs DEF Listed, DaysOf
<1>3. CASE p.frequency = "WEEKLY"
  BY <1>3, DayInIs DEF Listed, DaysOf
<1>4. CASE p.frequency \in {"MONTHLY", "YEARLY"}
  <2> DEFINE days == DaysOf(p, anchor)
             m == MonthOf(d)
  <2>1. Listed(p, anchor, d) <=> DayOfMonth(d) \in {ClampedDay(m, x) : x \in days}
    BY <1>4, DayInIs DEF Listed, DaysOf
  <2>2. \A x \in days : ClampedDay(m, x) = x
    <3>1. days \subseteq 1..28 /\ DaysInMonth(m) \in 28..31
      BY <1>4, DaysOfIs, DayOfMonthIs
    <3> HIDE DEF days, m
    <3> QED BY <3>1 DEF ClampedDay
  <2>3. DayIn(p)[d] = DayOfMonth(d)
    BY <1>4, DayInIs
  <2> HIDE DEF days, m
  <2>4. DayOfMonth(d) \in {ClampedDay(m, x) : x \in days} <=> DayOfMonth(d) \in days
    BY <2>2
  <2> QED BY <2>1, <2>3, <2>4 DEF days
<1> QED BY <1>1, <1>2, <1>3, <1>4

(* alignToPattern goes to the first listed day, less than 32 days on. *)
Aligns(first, after, p, days, own) ==
  /\ first \in Nat /\ first <= after + 31
  /\ IF own \in days THEN first = after
     ELSE IF Later(days, own) # {}
          THEN PeriodOf(p)[first] = PeriodOf(p)[after] /\ DayIn(p)[first] = Min(Later(days, own))
          ELSE PeriodOf(p)[first] = PeriodOf(p)[after] + 1 /\ DayIn(p)[first] = Min(days)

LEMMA AlignIs ==
  ASSUME NEW p, IsPattern(p), NEW after \in Nat, FitsEveryMonth(p, after)
  PROVE  Aligns(alignToPattern(after, p), after, p, DaysOf(p, after), DayIn(p)[after])
<1> DEFINE first == alignToPattern(after, p)
           days == DaysOf(p, after)
           own == DayIn(p)[after]
           later == Later(days, own)
           Goal == Aligns(first, after, p, days, own)
<1>1. p.frequency \in {"DAILY", "WEEKLY", "MONTHLY", "YEARLY"}
  BY DEF IsPattern, Frequencies
<1>2. CASE own \in days
  <2>1. p.frequency = "WEEKLY" => own = DayOfWeek(after)
    BY DayInIs
  <2>2. p.frequency = "MONTHLY" => own = DayOfMonth(after)
    BY DayInIs
  <2>3. p.frequency \in {"WEEKLY", "MONTHLY"} /\ p.days # {} => days = p.days
    BY DEF DaysOf
  <2> HIDE DEF own, days
  <2>4. first = after
    BY <1>2, <2>1, <2>2, <2>3 DEF alignToPattern
  <2> HIDE DEF first
  <2>5. Goal
    BY <1>2, <2>4 DEF Aligns
  <2> QED BY <2>5 DEF first, days, own
<1>3. CASE own \notin days
  <2>1. p.frequency \in {"WEEKLY", "MONTHLY"} /\ p.days # {} /\ days = p.days
    <3>1. p.frequency = "DAILY" => own = 0 /\ days = {0}
      BY DayInIs DEF DaysOf
    <3>2. p.days = {} => days = {own} \/ p.frequency = "DAILY"
      BY DEF DaysOf
    <3>3. p.frequency = "YEARLY" => p.days = {}
      BY DEF IsPattern
    <3>4. p.frequency # "DAILY" /\ p.days # {}
      BY <1>3, <3>1, <3>2
    <3>5. days = p.days
      BY <3>4 DEF DaysOf
    <3> QED BY <1>1, <3>3, <3>4, <3>5
  <2>2. /\ days \subseteq Nat /\ days # {} /\ later \subseteq Nat
        /\ \A x \in later : x \in days /\ x > own
    BY DaysOfIs DEF Later
  <2>3. Min(days) \in days /\ (later # {} => Min(later) \in later)
    <3> HIDE DEF days, later
    <3> QED BY <2>2, LeastIs
  <2>4. CASE p.frequency = "WEEKLY"
    <3> DEFINE w == after \div 7
               next == IF later # {} THEN Min(later) ELSE Min(days)
               v == IF later # {} THEN w ELSE w + 1
    <3>1. own = DayOfWeek(after) /\ days \subseteq 0..6 /\ w \in Nat /\ own \in 0..6 /\ after = 7 * w + own
      BY <2>4, DayInIs, DaysOfIs, WeekOf
    <3>2. first = after - own + (IF later # {} THEN Min(later) ELSE 7 + Min(days))
      BY <1>3, <2>1, <2>4, <3>1 DEF alignToPattern
    <3> HIDE DEF days, later, own, w
    <3>3. next \in 0..6 /\ v \in Nat
      <4>1. Min(days) \in 0..6 /\ (later # {} => Min(later) \in 0..6)
        BY <2>2, <2>3, <3>1
      <4>2. w + 1 \in Nat
        BY <3>1
      <4> QED BY <3>1, <4>1, <4>2
    <3>4. first = 7 * v + next
      BY <3>1, <3>2, <3>3
    <3> HIDE DEF next, v, first
    <3>5. first \div 7 = v /\ DayOfWeek(first) = next /\ first \in Nat
      BY <3>3, <3>4, WeekIs DEF DayOfWeek
    <3>6. PeriodOf(p)[first] = v /\ DayIn(p)[first] = next /\ PeriodOf(p)[after] = w
      BY <2>4, <3>5, DayInIs DEF w
    <3>7. first <= after + 31
      BY <3>1, <3>3, <3>4 DEF v
    <3>8. Goal
      BY <1>3, <3>5, <3>6, <3>7 DEF next, v, later, Aligns
    <3> QED BY <3>8 DEF first, days, own
  <2>5. CASE p.frequency = "MONTHLY"
    <3> DEFINE m == MonthOf(after)
               month == AddMonths(after, 1)
    <3>1. /\ own = DayOfMonth(after) /\ days \subseteq 1..28 /\ own <= 28 /\ own \in 1..31
          /\ m \in Nat /\ DaysInMonth(m) \in 28..31
      BY <2>5, DayInIs, DaysOfIs, DayOfMonthIs DEF FitsEveryMonth
    <3>2. first = IF later # {} THEN withDay(after, Min(later)) ELSE withDay(month, Min(days))
      BY <1>3, <2>1, <2>5, <3>1 DEF alignToPattern
    <3>3. month \in Nat /\ MonthOf(month) = m + 1
      <4>1. DayOfMonth(after) <= 28
        BY <2>5 DEF FitsEveryMonth
      <4> QED BY <4>1, AddMonthsIs
    <3>4. after = MonthStart(m) + own - 1
      <4>1. DayOfMonth(after) = after - MonthStart(m) + 1
        BY DEF DayOfMonth
      <4>2. MonthStart(m) \in Nat
        <5> HIDE DEF m
        <5> QED BY <3>1, MonthLength
      <4> HIDE DEF m, own
      <4> QED BY <3>1, <4>1, <4>2
    <3>5. PeriodOf(p)[after] = m
      BY <2>5, DayInIs
    <3>6. \A d \in Nat : PeriodOf(p)[d] = MonthOf(d) /\ DayIn(p)[d] = DayOfMonth(d)
      BY <2>5, DayInIs
    <3> HIDE DEF days, own, month
    <3>7. CASE later # {}
      <4> DEFINE next == Min(later)
      <4>1. next \in 1..28 /\ first = withDay(after, next)
        BY <2>2, <2>3, <3>1, <3>2, <3>7
      <4> HIDE DEF next, first
      <4>2. first \in Nat /\ MonthOf(first) = m /\ DayOfMonth(first) = next
        BY <4>1, WithDayIs
      <4>3. first <= after + 31
        <5>1. DayOfMonth(first) = first - MonthStart(m) + 1 /\ MonthStart(m) \in Nat
          <6>1. DayOfMonth(first) = first - MonthStart(m) + 1
            BY <4>2 DEF DayOfMonth
          <6> HIDE DEF m
          <6> QED BY <3>1, <6>1, MonthLength
        <5> HIDE DEF m
        <5> QED BY <3>1, <3>4, <4>1, <4>2, <5>1
      <4>4. Goal
        <5> HIDE DEF m, later
        <5> QED BY <1>3, <3>5, <3>6, <3>7, <4>2, <4>3 DEF next, later, Aligns
      <4> QED BY <4>4 DEF first, days, own
    <3>8. CASE later = {}
      <4> DEFINE next == Min(days)
                 k == m + 1
      <4>1. next \in 1..28 /\ first = withDay(month, next)
        BY <2>2, <2>3, <3>1, <3>2, <3>8
      <4>2. next <= own
        <5>1. \A x \in days : x > own => x \in later
          BY DEF Later
        <5>2. next \in days /\ own \notin days
          BY <1>3, <2>3
        <5>3. ~(next > own)
          BY <3>8, <5>1, <5>2
        <5> HIDE DEF days, next, own
        <5> QED BY <3>1, <4>1, <5>3
      <4> HIDE DEF next, first
      <4>3. first \in Nat /\ MonthOf(first) = k /\ DayOfMonth(first) = next
        BY <3>3, <4>1, WithDayIs
      <4>4. first <= after + 31
        <5>1. DayOfMonth(first) = first - MonthStart(k) + 1
          BY <4>3 DEF DayOfMonth
        <5>2. MonthStart(m) \in Nat /\ MonthStart(k) = MonthStart(m) + DaysInMonth(m)
          <6> HIDE DEF m
          <6> QED BY <3>1, MonthLength
        <5> HIDE DEF m, k
        <5> QED BY <3>1, <3>4, <4>1, <4>2, <4>3, <5>1, <5>2
      <4>5. Goal
        <5> HIDE DEF m, later
        <5> QED BY <1>3, <3>5, <3>6, <3>8, <4>3, <4>4 DEF next, k, later, Aligns
      <4> QED BY <4>5 DEF first, days, own
    <3> QED BY <3>7, <3>8
  <2> QED BY <2>1, <2>4, <2>5
<1> QED BY <1>2, <1>3

(* One step of the pattern goes to the next listed day, or to the first one an interval later. *)
Advances(next, d, p, days, own) ==
  /\ next \in Nat
  /\ IF Later(days, own) # {}
     THEN PeriodOf(p)[next] = PeriodOf(p)[d] /\ DayIn(p)[next] = Min(Later(days, own))
     ELSE PeriodOf(p)[next] = PeriodOf(p)[d] + PeriodLength(p) /\ DayIn(p)[next] = Min(days)

(* Without a list there is one day in a period, and the next one is in the next period. *)
LEMMA AdvanceOneDay ==
  ASSUME NEW p, NEW d \in Nat, NEW own \in Nat, NEW next \in Nat,
         PeriodOf(p)[next] = PeriodOf(p)[d] + PeriodLength(p), DayIn(p)[next] = own
  PROVE  Advances(next, d, p, {own}, own)
<1>1. Later({own}, own) = {}
  BY DEF Later
<1>2. Min({own}) = own
  BY LeastIs
<1> QED BY <1>1, <1>2 DEF Advances

LEMMA PeriodLengthIs ==
  ASSUME NEW p, IsPattern(p)
  PROVE  /\ p.interval \in Nat \ {0} /\ PeriodLength(p) \in Nat \ {0}
         /\ p.frequency # "YEARLY" => PeriodLength(p) = p.interval
         /\ p.frequency = "YEARLY" => PeriodLength(p) = 12 * p.interval
BY DEF PeriodLength, IsPattern

LEMMA AdvanceWeekly ==
  ASSUME NEW p, IsPattern(p), p.frequency = "WEEKLY", NEW after \in Nat, FitsEveryMonth(p, after), NEW d \in Nat,
         DayIn(p)[d] \in DaysOf(p, after)
  PROVE  Advances(advance(d, p), d, p, DaysOf(p, after), DayIn(p)[d])
<1> DEFINE days == DaysOf(p, after)
           own == DayIn(p)[d]
           next == advance(d, p)
           w == d \div 7
           interval == p.interval
           v == w + interval
<1>1. /\ own = DayOfWeek(d) /\ days \subseteq 0..6 /\ own \in 0..6 /\ d = 7 * w + own
      /\ w \in Nat /\ days # {} /\ interval \in Nat \ {0} /\ v \in Nat
      /\ PeriodLength(p) = interval /\ PeriodOf(p)[d] = w /\ own \in days
  <2>1. own = DayOfWeek(d) /\ PeriodOf(p)[d] = w
    BY DayInIs
  <2>2. days \subseteq 0..6 /\ days # {}
    BY DaysOfIs
  <2>3. own \in 0..6 /\ d = 7 * w + own /\ w \in Nat
    BY <2>1, WeekOf
  <2>4. interval \in Nat \ {0} /\ PeriodLength(p) = interval
    BY PeriodLengthIs
  <2> HIDE DEF own, days, w, interval
  <2> QED BY <2>1, <2>2, <2>3, <2>4 DEF own, days
<1>2. ASSUME NEW x \in 0..6, NEW u \in Nat
      PROVE  LET e == 7 * u + x IN e \in Nat /\ PeriodOf(p)[e] = u /\ DayIn(p)[e] = x
  <2> DEFINE e == 7 * u + x
  <2>1. e \in Nat /\ e \div 7 = u /\ DayOfWeek(e) = x
    BY WeekIs DEF DayOfWeek
  <2> HIDE DEF e
  <2>2. e \in Nat /\ PeriodOf(p)[e] = u /\ DayIn(p)[e] = x
    BY <2>1, DayInIs
  <2> QED BY <2>2 DEF e
<1>3. CASE p.days = {}
  <2>1. days = {own}
    <3>1. days = {DayIn(p)[after]}
      BY <1>3 DEF DaysOf
    <3> HIDE DEF days
    <3> QED BY <1>1, <3>1
  <2>2. next = d + 7 * interval
    BY <1>3 DEF advance
  <2> HIDE DEF days, own, w, interval
  <2>3. next = 7 * v + own
    BY <1>1, <2>2
  <2> HIDE DEF v, next
  <2>4. next \in Nat /\ PeriodOf(p)[next] = v /\ DayIn(p)[next] = own
    BY <1>1, <1>2, <2>3
  <2>5. Advances(next, d, p, {own}, own)
    BY <1>1, <2>4, AdvanceOneDay DEF v
  <2> QED BY <2>1, <2>5 DEF next, days, own
<1>4. CASE p.days # {}
  <2> DEFINE later == Later(days, own)
             x == IF later # {} THEN Min(later) ELSE Min(days)
             u == IF later # {} THEN w ELSE v
  <2>1. days = p.days
    BY <1>4 DEF DaysOf
  <2>2. next = d - own + (IF later # {} THEN Min(later) ELSE 7 * interval + Min(days))
    BY <1>1, <1>4, <2>1 DEF advance
  <2>3. later \subseteq days
    BY DEF Later
  <2> HIDE DEF days, own, w, interval, later
  <2>4. x \in 0..6 /\ u \in Nat
    <3>1. days \subseteq Nat /\ later \subseteq Nat
      BY <1>1, <2>3
    <3>2. Min(days) \in days /\ (later # {} => Min(later) \in later)
      BY <1>1, <3>1, LeastIs
    <3> QED BY <1>1, <2>3, <3>2
  <2>5. next = 7 * u + x
    BY <1>1, <2>2, <2>4
  <2> HIDE DEF x, u, next
  <2>6. next \in Nat /\ PeriodOf(p)[next] = u /\ DayIn(p)[next] = x
    BY <1>2, <2>4, <2>5
  <2>7. Advances(next, d, p, days, own)
    BY <1>1, <2>6 DEF Advances, x, u, v, later
  <2> QED BY <2>7 DEF next, days, own
<1> QED BY <1>3, <1>4

LEMMA AdvanceMonthly ==
  ASSUME NEW p, IsPattern(p), p.frequency \in {"MONTHLY", "YEARLY"}, NEW after \in Nat,
         FitsEveryMonth(p, after), NEW d \in Nat, DayIn(p)[d] \in DaysOf(p, after)
  PROVE  Advances(advance(d, p), d, p, DaysOf(p, after), DayIn(p)[d])
<1> DEFINE days == DaysOf(p, after)
           own == DayIn(p)[d]
           next == advance(d, p)
           m == MonthOf(d)
           length == PeriodLength(p)
           month == AddMonths(d, length)
<1>1. /\ own = DayOfMonth(d) /\ days \subseteq 1..28 /\ own \in days /\ own \in 1..28 /\ days # {}
      /\ m \in Nat /\ PeriodOf(p)[d] = m /\ length \in Nat \ {0}
  BY DayInIs, DaysOfIs, DayOfMonthIs, PeriodLengthIs
<1>2. month \in Nat /\ MonthOf(month) = m + length /\ DayOfMonth(month) = own
  <2>1. DayOfMonth(d) <= 28 /\ length \in Nat
    <3> HIDE DEF own, days, m, length
    <3> QED BY <1>1
  <2> QED BY <1>1, <2>1, AddMonthsIs
<1>3. \A e \in Nat : PeriodOf(p)[e] = MonthOf(e) /\ DayIn(p)[e] = DayOfMonth(e)
  BY DayInIs
<1>4. CASE p.days = {}
  <2>1. days = {own}
    <3>1. days = {DayIn(p)[after]}
      BY <1>4 DEF DaysOf
    <3> HIDE DEF days
    <3> QED BY <1>1, <3>1
  <2>2. next = month
    <3>1. p.frequency = "YEARLY" \/ (p.frequency = "MONTHLY" /\ length = p.interval)
      BY PeriodLengthIs
    <3>2. CASE p.frequency = "YEARLY"
      <4>1. length = 12 * p.interval
        BY <3>2, PeriodLengthIs
      <4> HIDE DEF length
      <4> QED BY <1>4, <3>2, <4>1 DEF advance
    <3>3. CASE p.frequency = "MONTHLY" /\ length = p.interval
      <4> HIDE DEF length
      <4> QED BY <1>4, <3>3 DEF advance
    <3> QED BY <3>1, <3>2, <3>3
  <2> HIDE DEF days, own, next, month, length, m
  <2>3. next \in Nat /\ PeriodOf(p)[next] = PeriodOf(p)[d] + PeriodLength(p) /\ DayIn(p)[next] = own
    BY <1>1, <1>2, <1>3, <2>2 DEF length
  <2>4. Advances(next, d, p, {own}, own)
    BY <1>1, <2>3, AdvanceOneDay
  <2> QED BY <2>1, <2>4 DEF next, days, own
<1>5. CASE p.days # {}
  <2> DEFINE later == Later(days, own)
  <2>1. days = p.days /\ p.frequency = "MONTHLY" /\ length = p.interval
    <3>1. p.frequency = "MONTHLY"
      BY <1>5 DEF IsPattern
    <3> QED BY <1>5, <3>1, PeriodLengthIs DEF DaysOf
  <2>2. next = IF later # {} THEN withDay(d, Min(later)) ELSE withDay(month, Min(days))
    BY <1>1, <1>5, <2>1 DEF advance
  <2>3. later \subseteq days
    BY DEF Later
  <2> HIDE DEF days, own, length, later, month, m, next
  <2>4. Min(days) \in 1..28 /\ (later # {} => Min(later) \in 1..28)
    <3>1. days \subseteq Nat /\ later \subseteq Nat
      BY <1>1, <2>3
    <3>2. Min(days) \in days /\ (later # {} => Min(later) \in later)
      BY <1>1, <3>1, LeastIs
    <3> QED BY <1>1, <2>3, <3>2
  <2>5. CASE later # {}
    <3> DEFINE x == Min(later)
    <3>1. x \in 1..28 /\ next = withDay(d, x)
      BY <2>2, <2>4, <2>5
    <3> HIDE DEF x
    <3>2. next \in Nat /\ MonthOf(next) = m /\ DayOfMonth(next) = x
      BY <3>1, WithDayIs DEF m
    <3>3. Advances(next, d, p, days, own)
      BY <1>1, <1>3, <2>5, <3>2 DEF Advances, later, x
    <3> QED BY <3>3 DEF next, days, own
  <2>6. CASE later = {}
    <3> DEFINE x == Min(days)
    <3>1. x \in 1..28 /\ next = withDay(month, x)
      BY <2>2, <2>4, <2>6
    <3> HIDE DEF x
    <3>2. next \in Nat /\ MonthOf(next) = m + length /\ DayOfMonth(next) = x
      BY <1>2, <3>1, WithDayIs
    <3>3. Advances(next, d, p, days, own)
      BY <1>1, <1>3, <2>6, <3>2 DEF Advances, later, x, length
    <3> QED BY <3>3 DEF next, days, own
  <2> QED BY <2>5, <2>6
<1> QED BY <1>4, <1>5

LEMMA AdvanceIs ==
  ASSUME NEW p, IsPattern(p), NEW after \in Nat, FitsEveryMonth(p, after), NEW d \in Nat,
         DayIn(p)[d] \in DaysOf(p, after)
  PROVE  Advances(advance(d, p), d, p, DaysOf(p, after), DayIn(p)[d])
<1>1. p.frequency \in {"DAILY", "WEEKLY", "MONTHLY", "YEARLY"}
  BY DEF IsPattern, Frequencies
<1>2. CASE p.frequency = "DAILY"
  <2> DEFINE next == d + p.interval
  <2>1. next \in Nat /\ PeriodLength(p) = p.interval
    BY <1>2, PeriodLengthIs
  <2>2. PeriodOf(p)[d] = d /\ DayIn(p)[d] = 0 /\ DaysOf(p, after) = {0} /\ advance(d, p) = next
    BY <1>2, DayInIs DEF DaysOf, advance
  <2>3. PeriodOf(p)[next] = PeriodOf(p)[d] + PeriodLength(p) /\ DayIn(p)[next] = 0
    <3>1. PeriodOf(p)[next] = next /\ DayIn(p)[next] = 0
      BY <1>2, <2>1, DayInIs
    <3> QED BY <2>1, <2>2, <3>1
  <2> HIDE DEF next
  <2>4. Advances(next, d, p, {0}, 0)
    BY <2>1, <2>3, AdvanceOneDay
  <2> QED BY <2>2, <2>4
<1> QED BY <1>1, <1>2, AdvanceWeekly, AdvanceMonthly

-----------------------------------------------------------------------------
(* computeNextRun goes from occurrence to occurrence *)

LEMMA AlignedIs ==
  ASSUME NEW p, IsPattern(p), NEW after \in Nat, FitsEveryMonth(p, after)
  PROVE  /\ alignToPattern(after, p) \in Nat
         /\ alignToPattern(after, p) >= after /\ alignToPattern(after, p) <= after + 31
         /\ DayIn(p)[alignToPattern(after, p)] \in DaysOf(p, after)
         /\ \A e \in Nat : after <= e /\ e < alignToPattern(after, p) => DayIn(p)[e] \notin DaysOf(p, after)
<1> DEFINE first == alignToPattern(after, p)
           days == DaysOf(p, after)
           period == PeriodOf(p)
           day == DayIn(p)
<1>1. /\ first \in Nat /\ first <= after + 31
      /\ IF day[after] \in days THEN first = after
         ELSE IF Later(days, day[after]) # {}
              THEN period[first] = period[after] /\ day[first] = Min(Later(days, day[after]))
              ELSE period[first] = period[after] + 1 /\ day[first] = Min(days)
  BY AlignIs DEF Aligns
<1>2. Ordered(period, day) /\ days \subseteq Nat /\ days # {}
  BY PeriodsInOrder, DaysOfIs
<1> HIDE DEF first, days, period, day
<1>3. /\ first >= after /\ day[first] \in days
      /\ \A e \in Nat : after <= e /\ e < first => day[e] \notin days
  BY <1>1, <1>2, FirstInPeriods
<1> QED BY <1>1, <1>3 DEF first, days, period, day

LEMMA FirstListedIs ==
  ASSUME NEW p, IsPattern(p), NEW after \in Nat, FitsEveryMonth(p, after)
  PROVE  FirstListed(p, after) = alignToPattern(after, p)
<1> DEFINE first == alignToPattern(after, p)
           IsFirst(d) == Listed(p, after, d) /\ \A e \in after..(d - 1) : ~Listed(p, after, e)
<1>1. first \in after..(after + 31) /\ IsFirst(first)
  <2>1. /\ first \in Nat /\ first >= after /\ first <= after + 31 /\ DayIn(p)[first] \in DaysOf(p, after)
        /\ \A e \in Nat : after <= e /\ e < first => DayIn(p)[e] \notin DaysOf(p, after)
    BY AlignedIs
  <2> HIDE DEF first
  <2>2. Listed(p, after, first)
    BY <2>1, ListedIs
  <2>3. ASSUME NEW e \in after..(first - 1) PROVE ~Listed(p, after, e)
    <3>1. e \in Nat /\ after <= e /\ e < first
      BY <2>1
    <3> QED BY <2>1, <3>1, ListedIs
  <2>4. first \in after..(after + 31)
    BY <2>1
  <2> QED BY <2>2, <2>3, <2>4
<1> HIDE DEF first
<1>2. ASSUME NEW d \in after..(after + 31), IsFirst(d) PROVE d = first
  <2>1. d < first => d \in after..(first - 1)
    BY <1>1
  <2>2. first < d => first \in after..(d - 1)
    BY <1>1
  <2>3. ~(d < first) /\ ~(first < d)
    BY <1>1, <1>2, <2>1, <2>2
  <2> QED BY <1>1, <2>3
<1>3. FirstListed(p, after) = CHOOSE d \in after..(after + 31) : IsFirst(d)
  BY DEF FirstListed
<1> HIDE DEF IsFirst
<1>4. FirstListed(p, after) = first
  BY <1>1, <1>2, <1>3
<1> QED BY <1>4 DEF first

(* The anchor has the days of the date it was found from. *)
LEMMA AnchorIs ==
  ASSUME NEW p, IsPattern(p), NEW after \in Nat, FitsEveryMonth(p, after),
         NEW anchor \in Nat, DayIn(p)[anchor] \in DaysOf(p, after)
  PROVE  FitsEveryMonth(p, anchor) /\ DaysOf(p, anchor) = DaysOf(p, after)
<1>1. FitsEveryMonth(p, anchor)
  <2>1. p.frequency \in {"MONTHLY", "YEARLY"} => DayOfMonth(anchor) \in 1..28
    <3> SUFFICES ASSUME p.frequency \in {"MONTHLY", "YEARLY"} PROVE DayOfMonth(anchor) \in 1..28
      OBVIOUS
    <3>1. DayIn(p)[anchor] = DayOfMonth(anchor) /\ DaysOf(p, after) \subseteq 1..28
      BY DayInIs, DaysOfIs
    <3> QED BY <3>1
  <2> QED BY <2>1 DEF FitsEveryMonth
<1>2. DaysOf(p, anchor) = DaysOf(p, after)
  <2>1. CASE p.frequency # "DAILY" /\ p.days = {}
    <3>1. DaysOf(p, after) = {DayIn(p)[after]} /\ DaysOf(p, anchor) = {DayIn(p)[anchor]}
      BY <2>1 DEF DaysOf
    <3> QED BY <3>1
  <2>2. CASE ~(p.frequency # "DAILY" /\ p.days = {})
    BY <2>2 DEF DaysOf
  <2> QED BY <2>1, <2>2
<1> QED BY <1>1, <1>2

LEMMA OccursIs ==
  ASSUME NEW p, IsPattern(p), NEW after \in Nat, FitsEveryMonth(p, after), NEW d \in Nat
  PROVE  Occurs(p, after, d) <=>
           /\ DayIn(p)[d] \in DaysOf(p, after)
           /\ (PeriodOf(p)[d] - PeriodOf(p)[alignToPattern(after, p)]) % PeriodLength(p) = 0
<1> DEFINE anchor == alignToPattern(after, p)
<1>1. anchor \in Nat /\ DayIn(p)[anchor] \in DaysOf(p, after)
  BY AlignedIs
<1>2. Occurs(p, after, d) <=>
        Listed(p, anchor, d) /\ (Period(p, d) - Period(p, anchor)) % PeriodLength(p) = 0
  BY FirstListedIs DEF Occurs
<1> HIDE DEF anchor
<1>3. Listed(p, anchor, d) <=> DayIn(p)[d] \in DaysOf(p, after)
  BY <1>1, AnchorIs, ListedIs
<1>4. Period(p, d) = PeriodOf(p)[d] /\ Period(p, anchor) = PeriodOf(p)[anchor]
  BY <1>1 DEF PeriodOf
<1>5. Occurs(p, after, d) <=>
        /\ DayIn(p)[d] \in DaysOf(p, after)
        /\ (PeriodOf(p)[d] - PeriodOf(p)[anchor]) % PeriodLength(p) = 0
  BY <1>2, <1>3, <1>4
<1> QED BY <1>5 DEF anchor

(* An occurrence with none before it from now on. *)
Stands(p, after, now, d) ==
  /\ OnPattern(PeriodOf(p), DayIn(p), DaysOf(p, after), PeriodLength(p), alignToPattern(after, p), d)
  /\ \A e \in Nat : after <= e /\ now < e /\ e < d => ~Occurs(p, after, e)

LEMMA AlignedStands ==
  ASSUME NEW p, IsPattern(p), NEW after \in Nat, FitsEveryMonth(p, after), NEW now \in Nat
  PROVE  Stands(p, after, now, alignToPattern(after, p))
<1> DEFINE first == alignToPattern(after, p)
           length == PeriodLength(p)
           k == PeriodOf(p)[first]
<1>1. /\ first \in Nat /\ DayIn(p)[first] \in DaysOf(p, after)
      /\ \A e \in Nat : after <= e /\ e < first => DayIn(p)[e] \notin DaysOf(p, after)
  BY AlignedIs
<1>2. length \in Nat \ {0}
  BY PeriodLengthIs
<1>3. k \in Nat
  <2> HIDE DEF first
  <2> QED BY <1>1, PeriodsInOrder DEF Ordered
<1>4. k <= k /\ (k - k) % length = 0
  <2> HIDE DEF k, length
  <2>1. 0 \in 0..(length - 1) /\ length * 0 + 0 = 0
    BY <1>2
  <2>2. (length * 0 + 0) % length = 0
    BY <1>2, <2>1, Remainder
  <2>3. k - k = 0 /\ k <= k
    BY <1>3
  <2> QED BY <2>1, <2>2, <2>3
<1>5. \A e \in Nat : after <= e /\ now < e /\ e < first => ~Occurs(p, after, e)
  <2> HIDE DEF first
  <2> QED BY <1>1, OccursIs
<1> QED BY <1>1, <1>4, <1>5 DEF Stands, OnPattern

LEMMA AdvanceStands ==
  ASSUME NEW p, IsPattern(p), NEW after \in Nat, FitsEveryMonth(p, after), NEW now \in Nat,
         NEW d \in Nat, d <= now, Stands(p, after, now, d)
  PROVE  advance(d, p) \in Nat /\ advance(d, p) > d /\ Stands(p, after, now, advance(d, p))
<1> DEFINE first == alignToPattern(after, p)
           next == advance(d, p)
           days == DaysOf(p, after)
           period == PeriodOf(p)
           day == DayIn(p)
           length == PeriodLength(p)
<1>1. OnPattern(period, day, days, length, first, d)
  BY DEF Stands
<1>2. next \in Nat /\ OneStep(period, day, days, length, d, next)
  BY <1>1, AdvanceIs DEF Advances, OneStep, OnPattern
<1>3. /\ Ordered(period, day) /\ days \subseteq Nat /\ days # {} /\ length \in Nat \ {0} /\ first \in Nat
  BY PeriodsInOrder, DaysOfIs, PeriodLengthIs, AlignedIs
<1>4. \A e \in Nat : Occurs(p, after, e) <=> day[e] \in days /\ (period[e] - period[first]) % length = 0
  BY OccursIs
<1> HIDE DEF first, next, days, period, day, length
<1>5. /\ next > d /\ OnPattern(period, day, days, length, first, next)
      /\ \A e \in Nat : d < e /\ e < next => ~OnPattern(period, day, days, length, first, e)
  BY <1>1, <1>2, <1>3, NextInPeriods
<1>6. ASSUME NEW e \in Nat, now < e, e < next PROVE ~Occurs(p, after, e)
  <2>1. d < e
    BY <1>6
  <2>2. ~OnPattern(period, day, days, length, first, e)
    BY <1>5, <1>6, <2>1
  <2>3. period[first] <= period[d] /\ period[d] <= period[e]
        /\ period[first] \in Nat /\ period[d] \in Nat /\ period[e] \in Nat
    <3>1. period[first] <= period[d]
      BY <1>1 DEF OnPattern
    <3>2. period[d] <= period[e] /\ period[first] \in Nat /\ period[d] \in Nat /\ period[e] \in Nat
      BY <1>3, <2>1 DEF Ordered
    <3> QED BY <3>1, <3>2
  <2> QED BY <1>4, <2>2, <2>3 DEF OnPattern
<1> QED BY <1>2, <1>5, <1>6 DEF Stands, first, next, days, period, day, length

LEMMA StandsIsNext ==
  ASSUME NEW p, IsPattern(p), NEW after \in Nat, FitsEveryMonth(p, after), NEW now \in Nat,
         NEW d \in Nat, d > now, Stands(p, after, now, d)
  PROVE  IsNextOccurrence(d, p, after, now)
<1>1. Occurs(p, after, d)
  BY OccursIs DEF Stands, OnPattern
<1>2. ASSUME NEW e \in (now + 1)..(d - 1), e >= after PROVE ~Occurs(p, after, e)
  <2>1. e \in Nat /\ after <= e /\ now < e /\ e < d
    BY <1>2
  <2> QED BY <2>1 DEF Stands
<1> QED BY <1>1, <1>2 DEF IsNextOccurrence

(* So what it finds is the next occurrence, whichever date it was asked from; and it finds one, if
   that date is less than Safety days late, for each advance gains a day at least. *)
LEMMA FromIsNext ==
  ASSUME NEW p, IsPattern(p), NEW after \in Nat, FitsEveryMonth(p, after), NEW now \in Nat,
         NEW g, From(g, p, now, 0)
  PROVE  /\ \/ g[<<alignToPattern(after, p), 0>>] = NoDate
            \/ IsNextOccurrence(g[<<alignToPattern(after, p), 0>>], p, after, now)
         /\ now - after < Safety => g[<<alignToPattern(after, p), 0>>] # NoDate
<1> DEFINE At(d) == Stands(p, after, now, d)
           Answer(x) == x = NoDate \/ IsNextOccurrence(x, p, after, now)
           Ok(n) == \A d \in Nat : At(d) => /\ Answer(g[<<d, n>>])
                                            /\ n + (now - d) < Safety => g[<<d, n>>] # NoDate
           Good == {n \in 0..Safety : Ok(n)}
<1>1. Safety \in Nat
  BY ScheduleAssumption
<1>2. \A d \in Nat, k \in 0..Safety :
        g[<<d, k>>] = IF d > now THEN d ELSE IF k = Safety THEN NoDate ELSE g[<<advance(d, p), k + 1>>]
  <2> SUFFICES ASSUME NEW d \in Nat, NEW k \in 0..Safety
               PROVE  g[<<d, k>>] = IF d > now THEN d ELSE IF k = Safety THEN NoDate
                                    ELSE g[<<advance(d, p), k + 1>>]
    OBVIOUS
  <2> QED BY FromAt
<1>3. /\ \A d \in Nat : At(d) /\ d > now => Answer(d)
      /\ \A d \in Nat : At(d) /\ ~(d > now) => advance(d, p) \in Nat /\ advance(d, p) > d /\ At(advance(d, p))
      /\ Answer(NoDate)
  BY StandsIsNext, AdvanceStands
<1> HIDE DEF At, Answer
<1>4. Safety \in 0..Safety /\ Ok(Safety)
  <2>1. Safety \in 0..Safety
    BY <1>1
  <2>2. \A d \in Nat : g[<<d, Safety>>] = IF d > now THEN d ELSE NoDate
    BY <1>2, <2>1
  <2>3. \A d \in Nat : Safety + (now - d) < Safety => d > now /\ d # NoDate
    BY <1>1, ScheduleAssumption
  <2> QED BY <1>3, <2>1, <2>2, <2>3
<1>5. PICK n \in Good : \A m \in Good : n <= m
  <2>1. Good \subseteq Nat /\ Good # {}
    <3> HIDE DEF Ok
    <3> QED BY <1>1, <1>4
  <2> HIDE DEF Good
  <2> QED BY <2>1, Least
<1>6. n \in 0..Safety /\ Ok(n)
  OBVIOUS
<1>7. n = 0
  <2> SUFFICES ASSUME n # 0 PROVE FALSE
    OBVIOUS
  <2> DEFINE m == n - 1
  <2>1. m \in 0..Safety /\ m + 1 = n /\ ~(n <= m) /\ m # Safety
    <3> HIDE DEF Ok
    <3> QED BY <1>1, <1>6
  <2> HIDE DEF m
  <2>2. \A d \in Nat : g[<<d, m>>] = IF d > now THEN d ELSE g[<<advance(d, p), n>>]
    BY <1>2, <2>1
  <2>3. Ok(m)
    <3> SUFFICES ASSUME NEW d \in Nat, At(d)
                 PROVE  Answer(g[<<d, m>>]) /\ (m + (now - d) < Safety => g[<<d, m>>] # NoDate)
      OBVIOUS
    <3>1. CASE d > now
      <4>1. g[<<d, m>>] = d
        BY <2>2, <3>1
      <4>2. Answer(d) /\ d # NoDate
        BY <1>3, <3>1, ScheduleAssumption
      <4> QED BY <4>1, <4>2
    <3>2. CASE ~(d > now)
      <4> DEFINE e == advance(d, p)
      <4>1. g[<<d, m>>] = g[<<e, n>>]
        BY <2>2, <3>2
      <4>2. e \in Nat /\ e > d /\ At(e)
        BY <1>3, <3>2
      <4> HIDE DEF e
      <4>3. Answer(g[<<e, n>>]) /\ (n + (now - e) < Safety => g[<<e, n>>] # NoDate)
        BY <1>6, <4>2
      <4>4. m + (now - d) < Safety => n + (now - e) < Safety
        BY <1>1, <2>1, <4>2
      <4> QED BY <4>1, <4>3, <4>4
    <3> QED BY <3>1, <3>2
  <2>4. m \in Good
    BY <2>1, <2>3
  <2> QED BY <1>5, <2>1, <2>4
<1> DEFINE first == alignToPattern(after, p)
<1>8. first \in Nat /\ first >= after /\ At(first)
  BY AlignedIs, AlignedStands DEF At
<1> HIDE DEF first
<1>9. Answer(g[<<first, 0>>]) /\ (0 + (now - first) < Safety => g[<<first, 0>>] # NoDate)
  BY <1>6, <1>7, <1>8
<1>10. now - after < Safety => 0 + (now - first) < Safety
  BY <1>1, <1>8
<1> QED BY <1>9, <1>10 DEF Answer, first

LEMMA NextRunIs ==
  ASSUME NEW p, IsPattern(p), NEW after \in Nat, FitsEveryMonth(p, after), NEW now \in Nat
  PROVE  /\ \/ computeNextRun(p, now, after) = NoDate
            \/ IsNextOccurrence(computeNextRun(p, now, after), p, after, now)
         /\ now - after < Safety => computeNextRun(p, now, after) # NoDate
<1> DEFINE f == CHOOSE g : From(g, p, now, 0)
<1>1. From(f, p, now, 0)
  BY FromExists, Zenon
<1>2. computeNextRun(p, now, after) = f[<<alignToPattern(after, p), 0>>]
  BY DEF computeNextRun, From
<1> HIDE DEF f
<1> QED BY <1>1, <1>2, FromIsNext

-----------------------------------------------------------------------------
(* Recurring work orders: the row and the sweeps *)
RecurringSpec == RecurringInit /\ [][RecurringNext]_recurringVars

Rows == [isActive : BOOLEAN, pattern : Patterns, startDate : Nat, endDate : Nat \cup {NoDate},
         nextRunAt : Nat, spawnedCount : Int]

Sweeping == [at : {"read", "advanced"}, row : Rows, now : Nat, next : Nat \cup {NoDate}]

(* An edit that is computed and not yet written. *)
Edits == [pattern : Patterns, startDate : Nat, endDate : Nat \cup {NoDate}, nextRunAt : Nat,
          overtaken : BOOLEAN]

(* The row, the days, and what the sweeps and the edits hold. *)
RecurringType ==
  /\ recurring \in Rows
  /\ today \in Nat
  /\ sweep \in [Replica -> {NotSweeping} \cup Sweeping]
  /\ editing \subseteq Edits
  /\ spawned \in Nat \cup {NoDate}

(* The row a sweep holds was due, the next run computed is after the day of the sweep, and the
   occurrence a work order was created for is over. *)
SweepIsDue ==
  /\ \A r \in Replica : sweep[r] # NotSweeping =>
       /\ sweep[r].row.nextRunAt <= sweep[r].now /\ sweep[r].now <= today
       /\ sweep[r].next # NoDate => sweep[r].next > sweep[r].now
  /\ spawned # NoDate => spawned <= today

(* With neither race: one sweep holds the row, and its work order is not created yet.  The next run
   is after that occurrence once the sweep has set it, and so is one that an edit is to set, unless
   the UPDATE overtook it. *)
SweepIsAhead ==
  overlap = {} =>
    /\ \A r \in Replica : sweep[r] # NotSweeping =>
         /\ \A q \in Replica : sweep[q] # NotSweeping => q = r
         /\ spawned # NoDate => spawned < sweep[r].row.nextRunAt
         /\ sweep[r].at = "advanced" =>
              /\ sweep[r].row.nextRunAt < recurring.nextRunAt
              /\ \A e \in editing : ~e.overtaken => sweep[r].row.nextRunAt < e.nextRunAt
    /\ spawned # NoDate =>
         /\ spawned < recurring.nextRunAt
         /\ \A e \in editing : ~e.overtaken => spawned < e.nextRunAt

RecurringInv == RecurringType /\ SweepIsDue /\ SweepIsAhead

LEMMA PatternsAre ==
  ASSUME NEW p \in Patterns
  PROVE  IsPattern(p)
<1>1. CASE \E i \in Interval : p = Pattern("DAILY", i, {}) \/ p = Pattern("YEARLY", i, {})
  BY <1>1, RecurringAssumption DEF Pattern, IsPattern, Frequencies
<1>2. CASE \E i \in Interval, days \in DaysOfWeek : p = Pattern("WEEKLY", i, days)
  BY <1>2, RecurringAssumption DEF Pattern, IsPattern, Frequencies
<1>3. CASE \E i \in Interval, days \in DaysOfMonth : p = Pattern("MONTHLY", i, days)
  BY <1>3, RecurringAssumption DEF Pattern, IsPattern, Frequencies
<1> QED BY <1>1, <1>2, <1>3 DEF Patterns

(* The first run of a schedule is after the day it is set. *)
LEMMA FirstRunIsLater ==
  ASSUME NEW p, IsPattern(p), NEW start \in Nat, NEW now \in Nat, computeFirstRun(p, start, now) # NoDate
  PROVE  computeFirstRun(p, start, now) \in Nat /\ computeFirstRun(p, start, now) > now
<1>1. CASE start > now
  <2>1. computeFirstRun(p, start, now) = alignToPattern(start, p)
    BY <1>1 DEF computeFirstRun
  <2> QED BY <1>1, <2>1, AlignedIsNotBefore
<1>2. CASE ~(start > now)
  <2>1. computeFirstRun(p, start, now) = computeNextRun(p, now, start)
    BY <1>2 DEF computeFirstRun
  <2> QED BY <2>1, NextRunIsLater
<1> QED BY <1>1, <1>2

LEMMA RecurringInitInv == RecurringInit => RecurringInv
<1> SUFFICES ASSUME RecurringInit PROVE RecurringInv
  OBVIOUS
<1>1. PICK p \in Patterns : \E start \in Start, end \in End :
        /\ computeFirstRun(p, start, FirstDay) # NoDate
        /\ recurring = [isActive |-> TRUE, pattern |-> p, startDate |-> start, endDate |-> end,
                        nextRunAt |-> computeFirstRun(p, start, FirstDay), spawnedCount |-> 0]
  BY DEF RecurringInit
<1>2. PICK start \in Start, end \in End :
        /\ computeFirstRun(p, start, FirstDay) # NoDate
        /\ recurring = [isActive |-> TRUE, pattern |-> p, startDate |-> start, endDate |-> end,
                        nextRunAt |-> computeFirstRun(p, start, FirstDay), spawnedCount |-> 0]
  BY <1>1
<1>3. computeFirstRun(p, start, FirstDay) \in Nat
  BY <1>2, PatternsAre, FirstRunIsLater, RecurringAssumption
<1>4. recurring \in Rows
  BY <1>2, <1>3, RecurringAssumption DEF Rows
<1>5. /\ today = FirstDay /\ sweep = [r \in Replica |-> NotSweeping]
      /\ editing = {} /\ spawned = NoDate
  BY DEF RecurringInit
<1>6. RecurringType
  BY <1>4, <1>5, RecurringAssumption DEF RecurringType
<1> QED BY <1>5, <1>6 DEF RecurringInv, SweepIsDue, SweepIsAhead

(* Pausing and resuming leaves the schedule as it is. *)
LEMMA PauseIs ==
  ASSUME RecurringType, Pause
  PROVE  /\ UNCHANGED <<today, sweep, editing, spawned, overlap>>
         /\ recurring' \in Rows /\ recurring'.nextRunAt = recurring.nextRunAt
<1> DEFINE b == ~ recurring.isActive
<1>1. UNCHANGED <<today, sweep, editing, spawned, overlap>>
  BY Zenon DEF Pause
<1>2. recurring' = [recurring EXCEPT !.isActive = ~@]
  BY Zenon DEF Pause
<1>3. recurring \in Rows /\ recurring.isActive \in BOOLEAN
  BY DEF RecurringType, Rows
<1>4. recurring' = [recurring EXCEPT !.isActive = b]
  BY <1>2
<1>5. b \in BOOLEAN
  BY <1>3, Zenon
<1> HIDE DEF b
<1> QED BY <1>1, <1>3, <1>4, <1>5 DEF Rows

(* An edit is to set a later day than the one it is computed on. *)
LEMMA ReadToUpdateIs ==
  ASSUME RecurringType, ReadToUpdate
  PROVE  /\ UNCHANGED <<recurring, today, sweep, spawned, overlap>>
         /\ \E e \in Edits : editing' = editing \cup {e} /\ e.nextRunAt > today
<1>1. PICK p \in Patterns, start \in Start, end \in End :
        /\ computeFirstRun(p, start, today) # NoDate
        /\ editing' = editing \cup {[pattern |-> p, startDate |-> start, endDate |-> end,
                                     nextRunAt |-> computeFirstRun(p, start, today), overtaken |-> FALSE]}
  BY DEF ReadToUpdate
<1>2. start \in Nat /\ end \in Nat \cup {NoDate} /\ today \in Nat
  BY RecurringAssumption DEF RecurringType
<1> DEFINE first == computeFirstRun(p, start, today)
           e == [pattern |-> p, startDate |-> start, endDate |-> end, nextRunAt |-> first, overtaken |-> FALSE]
<1>3. first \in Nat /\ first > today
  BY <1>1, <1>2, PatternsAre, FirstRunIsLater
<1>4. editing' = editing \cup {e}
  BY <1>1
<1> HIDE DEF first
<1>5. e \in Edits /\ e.nextRunAt > today
  BY <1>2, <1>3 DEF Edits
<1>6. UNCHANGED <<recurring, today, sweep, spawned, overlap>>
  BY DEF ReadToUpdate
<1> QED BY <1>4, <1>5, <1>6

(* The row takes the schedule of the edit. *)
LEMMA UpdateIs ==
  ASSUME RecurringType, NEW e \in editing, update(e)
  PROVE  /\ UNCHANGED <<today, sweep, spawned>> /\ editing' = editing \ {e}
         /\ recurring' \in Rows /\ recurring'.nextRunAt = e.nextRunAt
         /\ overlap' = {} => overlap = {} /\ ~e.overtaken
<1>1. /\ recurring \in Rows /\ e \in Edits
      /\ e.pattern \in Patterns /\ e.startDate \in Nat /\ e.endDate \in Nat \cup {NoDate} /\ e.nextRunAt \in Nat
  BY DEF RecurringType, Edits
<1>2. recurring' = [recurring EXCEPT !.pattern = e.pattern, !.startDate = e.startDate,
                                     !.endDate = e.endDate, !.nextRunAt = e.nextRunAt]
  BY DEF update
<1>3. recurring' \in Rows /\ recurring'.nextRunAt = e.nextRunAt
  BY <1>1, <1>2 DEF Rows
<1>4. overlap' = {} => overlap = {} /\ ~e.overtaken
  BY Zenon DEF update
<1>5. UNCHANGED <<today, sweep, spawned>> /\ editing' = editing \ {e}
  BY DEF update
<1> QED BY <1>3, <1>4, <1>5

(* What the UPDATE of a sweep marks as overtaken. *)
LEMMA OvertakenIs ==
  ASSUME RecurringType, NEW r \in Replica, AdvanceRow(r)
  PROVE  editing' \subseteq Edits /\ \A e \in editing' : e.overtaken
<1>1. editing' = {[e EXCEPT !.overtaken = TRUE] : e \in editing}
  BY DEF AdvanceRow
<1>2. \A e \in Edits : [e EXCEPT !.overtaken = TRUE] \in Edits /\ [e EXCEPT !.overtaken = TRUE].overtaken
  BY DEF Edits
<1> QED BY <1>1, <1>2 DEF RecurringType

LEMMA RecurringStepType ==
  ASSUME RecurringType, [RecurringNext]_recurringVars
  PROVE  RecurringType'
<1>1. \A r \in Replica : sweep[r] # NotSweeping => sweep[r] \in Sweeping
  BY DEF RecurringType
<1>2. CASE Tick
  BY <1>2 DEF Tick, RecurringType
<1>3. CASE Pause \/ ReadToUpdate \/ \E e \in editing : update(e)
  <2>1. CASE Pause
    BY <2>1, PauseIs DEF RecurringType
  <2>2. CASE ReadToUpdate
    BY <2>2, ReadToUpdateIs DEF RecurringType
  <2>3. ASSUME NEW e \in editing, update(e) PROVE RecurringType'
    BY <2>3, UpdateIs DEF RecurringType
  <2> QED BY <1>3, <2>1, <2>2, <2>3
<1>4. ASSUME NEW r \in Replica, ReadDue(r) PROVE RecurringType'
  <2>1. recurring \in Rows /\ today \in Nat /\ recurring.pattern \in Patterns /\ recurring.nextRunAt \in Nat
    BY DEF RecurringType, Rows
  <2> DEFINE next == computeNextRun(recurring.pattern, today, recurring.nextRunAt)
  <2>2. next = NoDate \/ next \in Nat
    BY <2>1, PatternsAre, NextRunIsLater
  <2>3. Reading = [at |-> "read", row |-> recurring, now |-> today, next |-> next]
    BY DEF Reading
  <2> HIDE DEF next
  <2>4. Reading \in Sweeping
    BY <2>1, <2>2, <2>3 DEF Sweeping
  <2>5. sweep' = [sweep EXCEPT ![r] = Reading] /\ UNCHANGED <<recurring, today, editing, spawned>>
    BY <1>4 DEF ReadDue
  <2> QED BY <2>4, <2>5 DEF RecurringType
<1>5. ASSUME NEW r \in Replica, AdvanceRow(r) PROVE RecurringType'
  <2>1. /\ sweep[r].at = "read" /\ sweep[r].next # NoDate
        /\ recurring' = [recurring EXCEPT !.nextRunAt = sweep[r].next, !.spawnedCount = @ + 1]
        /\ sweep' = [sweep EXCEPT ![r].at = "advanced"]
        /\ UNCHANGED <<today, spawned>>
    BY <1>5 DEF AdvanceRow
  <2>2. sweep[r] \in Sweeping /\ sweep[r].next \in Nat
    BY <1>1, <2>1 DEF NotSweeping, Sweeping
  <2> DEFINE count == recurring.spawnedCount + 1
             next == sweep[r].next
             s == [sweep[r] EXCEPT !.at = "advanced"]
  <2>3. recurring \in Rows /\ count \in Int
    BY DEF RecurringType, Rows
  <2>4. recurring' = [recurring EXCEPT !.nextRunAt = next, !.spawnedCount = count] /\ next \in Nat
    BY <2>1, <2>2
  <2>5. sweep' = [sweep EXCEPT ![r] = s] /\ s \in Sweeping
    BY <2>1, <2>2 DEF Sweeping
  <2> HIDE DEF count, next, s
  <2>6. recurring' \in Rows
    BY <2>3, <2>4 DEF Rows
  <2> QED BY <1>5, <2>1, <2>5, <2>6, OvertakenIs DEF RecurringType
<1>6. ASSUME NEW r \in Replica, BailOut(r) PROVE RecurringType'
  BY <1>6 DEF BailOut, RecurringType
<1>7. ASSUME NEW r \in Replica, MissWorkOrder(r) PROVE RecurringType'
  BY <1>7 DEF MissWorkOrder, RecurringType
<1>8. ASSUME NEW r \in Replica, CreateWorkOrder(r) PROVE RecurringType'
  <2>1. /\ sweep[r].at = "advanced"
        /\ sweep' = [sweep EXCEPT ![r] = NotSweeping]
        /\ spawned' = sweep[r].row.nextRunAt
        /\ recurring' = [recurring EXCEPT !.spawnedCount = @ - 1]
        /\ UNCHANGED <<today, editing>>
    BY <1>8 DEF CreateWorkOrder
  <2>2. sweep[r] \in Sweeping /\ sweep[r].row.nextRunAt \in Nat
    BY <1>1, <2>1 DEF NotSweeping, Sweeping, Rows
  <2>3. recurring' \in Rows
    BY <2>1 DEF RecurringType, Rows
  <2> QED BY <2>1, <2>2, <2>3 DEF RecurringType
<1>9. CASE UNCHANGED recurringVars
  BY <1>9 DEF recurringVars, RecurringType
<1> QED BY <1>2, <1>3, <1>4, <1>5, <1>6, <1>7, <1>8, <1>9 DEF RecurringNext, Spawns

LEMMA RecurringStepInv ==
  ASSUME RecurringInv, [RecurringNext]_recurringVars
  PROVE  RecurringInv'
<1>0. RecurringType'
  BY RecurringStepType DEF RecurringInv
<1> USE DEF RecurringInv
<1>1. NotSweeping.at = "idle" /\ \A s \in Sweeping : s.at \in {"read", "advanced"} /\ s # NotSweeping
  BY DEF NotSweeping, Sweeping
<1>2. /\ today \in Nat /\ spawned \in Nat \cup {NoDate} /\ recurring.nextRunAt \in Nat
      /\ \A e \in editing : e.nextRunAt \in Nat
      /\ \A r \in Replica : sweep[r] # NotSweeping =>
           sweep[r] \in Sweeping /\ sweep[r].now \in Nat /\ sweep[r].row.nextRunAt \in Nat
  BY DEF RecurringType, Rows, Edits, Sweeping
<1>3. CASE Tick
  <2>1. today' = today + 1 /\ UNCHANGED <<recurring, sweep, editing, spawned, overlap>>
    BY <1>3 DEF Tick
  <2>2. SweepIsDue'
    BY <1>2, <2>1 DEF SweepIsDue
  <2>3. SweepIsAhead'
    BY <2>1 DEF SweepIsAhead
  <2> QED BY <1>0, <2>2, <2>3
<1>4. CASE Pause
  <2>1. /\ UNCHANGED <<today, sweep, editing, spawned, overlap>> /\ recurring'.nextRunAt = recurring.nextRunAt
    BY <1>4, PauseIs
  <2> QED BY <1>0, <2>1 DEF SweepIsDue, SweepIsAhead
<1>5. CASE ReadToUpdate
  <2>1. PICK e \in Edits : editing' = editing \cup {e} /\ e.nextRunAt > today
    BY <1>5, ReadToUpdateIs
  <2>2. UNCHANGED <<recurring, today, sweep, spawned, overlap>>
    BY <1>5, ReadToUpdateIs
  <2>3. e.nextRunAt \in Nat
    BY DEF Edits
  <2>4. SweepIsDue'
    BY <2>2 DEF SweepIsDue
  <2>5. \A r \in Replica : sweep[r] # NotSweeping => sweep[r].row.nextRunAt < e.nextRunAt
    BY <1>2, <2>1, <2>3 DEF SweepIsDue
  <2>6. spawned # NoDate => spawned < e.nextRunAt
    BY <1>2, <2>1, <2>3 DEF SweepIsDue
  <2>7. SweepIsAhead'
    BY <2>1, <2>2, <2>5, <2>6 DEF SweepIsAhead
  <2> QED BY <1>0, <2>4, <2>7
<1>6. ASSUME NEW e \in editing, update(e) PROVE RecurringInv'
  <2>1. /\ UNCHANGED <<today, sweep, spawned>> /\ editing' = editing \ {e} /\ recurring'.nextRunAt = e.nextRunAt
        /\ overlap' = {} => overlap = {} /\ ~e.overtaken
    BY <1>6, UpdateIs
  <2>2. SweepIsDue'
    BY <2>1 DEF SweepIsDue
  <2>3. SweepIsAhead'
    BY <2>1 DEF SweepIsAhead
  <2> QED BY <1>0, <2>2, <2>3
<1>7. ASSUME NEW one \in Replica, ReadDue(one) PROVE RecurringInv'
  <2>1. /\ sweep[one] = NotSweeping /\ recurring.nextRunAt <= today
        /\ sweep' = [sweep EXCEPT ![one] = Reading]
        /\ UNCHANGED <<recurring, today, editing, spawned>>
        /\ overlap' = {} => overlap = {} /\ \A q \in Replica : sweep[q] = NotSweeping
    BY <1>7 DEF ReadDue, Due
  <2>2. recurring \in Rows /\ recurring.pattern \in Patterns
    BY DEF RecurringType, Rows
  <2> DEFINE next == computeNextRun(recurring.pattern, today, recurring.nextRunAt)
  <2>3. next = NoDate \/ (next \in Nat /\ next > today)
    BY <1>2, <2>2, PatternsAre, NextRunIsLater
  <2>4. Reading = [at |-> "read", row |-> recurring, now |-> today, next |-> next]
    BY DEF Reading
  <2> HIDE DEF next
  <2>5. sweep'[one] = Reading /\ \A q \in Replica \ {one} : sweep'[q] = sweep[q]
    BY <2>1 DEF RecurringType
  <2>6. /\ sweep'[one].at = "read" /\ sweep'[one].row = recurring /\ sweep'[one].now = today
        /\ sweep'[one].next = next
    BY <2>4, <2>5
  <2>7. SweepIsDue'
    BY <1>2, <2>1, <2>3, <2>5, <2>6 DEF SweepIsDue
  <2>8. SweepIsAhead'
    BY <2>1, <2>5, <2>6 DEF SweepIsAhead
  <2> QED BY <1>0, <2>7, <2>8
<1>8. ASSUME NEW one \in Replica, AdvanceRow(one) PROVE RecurringInv'
  <2>1. /\ sweep[one].at = "read" /\ sweep[one].next # NoDate
        /\ recurring' = [recurring EXCEPT !.nextRunAt = sweep[one].next, !.spawnedCount = @ + 1]
        /\ sweep' = [sweep EXCEPT ![one].at = "advanced"]
        /\ UNCHANGED <<today, spawned, overlap>>
    BY <1>8 DEF AdvanceRow
  <2>2. sweep[one] \in Sweeping /\ sweep[one] # NotSweeping
    BY <1>1, <1>2, <2>1
  <2> DEFINE s == sweep[one]
  <2>3. /\ s.next \in Nat /\ s.now \in Nat /\ s.row.nextRunAt \in Nat
        /\ s.next > s.now /\ s.row.nextRunAt <= s.now
    BY <2>1, <2>2, <1>2 DEF Sweeping, SweepIsDue
  <2>4. recurring'.nextRunAt = s.next
    BY <2>1 DEF RecurringType, Rows
  <2>5. /\ sweep' = [sweep EXCEPT ![one] = [s EXCEPT !.at = "advanced"]]
    BY <2>1, <2>2 DEF Sweeping
  <2>6. /\ sweep'[one].at = "advanced" /\ sweep'[one].row = s.row /\ sweep'[one].now = s.now
        /\ sweep'[one].next = s.next /\ \A q \in Replica \ {one} : sweep'[q] = sweep[q]
    BY <2>2, <2>5 DEF RecurringType, Sweeping
  <2>7. \A e \in editing' : e.overtaken
    BY <1>8, OvertakenIs
  <2>8. SweepIsDue'
    BY <2>1, <2>2, <2>6 DEF SweepIsDue
  <2>9. SweepIsAhead'
    <3> SUFFICES ASSUME overlap = {} PROVE SweepIsAhead'
      BY <2>1 DEF SweepIsAhead
    <3>1. \A q \in Replica : sweep[q] # NotSweeping => q = one
      BY <2>2 DEF SweepIsAhead
    <3>2. s.row.nextRunAt < s.next
      BY <2>3
    <3>3. spawned # NoDate => spawned < s.row.nextRunAt /\ spawned < s.next
      BY <1>2, <2>2, <2>3 DEF SweepIsAhead
    <3> HIDE DEF s
    <3>4. \A r \in Replica : sweep'[r] # NotSweeping => r = one
      BY <2>6, <3>1
    <3> QED BY <2>1, <2>4, <2>6, <2>7, <3>2, <3>3, <3>4 DEF SweepIsAhead
  <2> QED BY <1>0, <2>8, <2>9
<1>9. ASSUME NEW one \in Replica, sweep' = [sweep EXCEPT ![one] = NotSweeping],
             UNCHANGED <<recurring, today, editing, spawned, overlap>>
      PROVE  RecurringInv'
  <2>1. sweep'[one] = NotSweeping /\ \A q \in Replica \ {one} : sweep'[q] = sweep[q]
    BY <1>9 DEF RecurringType
  <2> QED BY <1>0, <1>9, <2>1 DEF SweepIsDue, SweepIsAhead
<1>10. ASSUME NEW one \in Replica, BailOut(one) \/ MissWorkOrder(one) PROVE RecurringInv'
  BY <1>9, <1>10 DEF BailOut, MissWorkOrder
<1>11. ASSUME NEW one \in Replica, CreateWorkOrder(one) PROVE RecurringInv'
  <2>1. /\ sweep[one].at = "advanced"
        /\ sweep' = [sweep EXCEPT ![one] = NotSweeping]
        /\ spawned' = sweep[one].row.nextRunAt
        /\ recurring' = [recurring EXCEPT !.spawnedCount = @ - 1]
        /\ UNCHANGED <<today, editing, overlap>>
    BY <1>11 DEF CreateWorkOrder
  <2>2. sweep[one] \in Sweeping /\ sweep[one] # NotSweeping
    BY <1>1, <1>2, <2>1
  <2> DEFINE s == sweep[one]
  <2>3. /\ s.row.nextRunAt \in Nat /\ s.row.nextRunAt <= today
        /\ overlap = {} => s.row.nextRunAt < recurring.nextRunAt
        /\ overlap = {} => \A e \in editing : ~e.overtaken => s.row.nextRunAt < e.nextRunAt
        /\ overlap = {} => \A q \in Replica : sweep[q] # NotSweeping => q = one
    BY <1>2, <2>1, <2>2 DEF SweepIsDue, SweepIsAhead
  <2>4. recurring'.nextRunAt = recurring.nextRunAt
    BY <2>1 DEF RecurringType, Rows
  <2>5. sweep'[one] = NotSweeping /\ \A q \in Replica \ {one} : sweep'[q] = sweep[q]
    BY <2>1 DEF RecurringType
  <2>6. SweepIsDue'
    BY <2>1, <2>3, <2>5 DEF SweepIsDue
  <2>7. SweepIsAhead'
    BY <2>1, <2>3, <2>4, <2>5 DEF SweepIsAhead
  <2> QED BY <1>0, <2>6, <2>7
<1>12. CASE UNCHANGED recurringVars
  BY <1>0, <1>12 DEF recurringVars, SweepIsDue, SweepIsAhead
<1> QED BY <1>3, <1>4, <1>5, <1>6, <1>7, <1>8, <1>10, <1>11, <1>12 DEF RecurringNext, Spawns

(* A work order is created for an occurrence after the last one a work order was created for, for any
   number of replicas, administrators and edits, unless two sweeps held the row at once or a sweep's
   UPDATE came between the two statements of an edit. *)
THEOREM OccurrencesSpawnOnce == RecurringSpec => OneWorkOrderPerOccurrence
<1>1. RecurringInv /\ [RecurringNext]_recurringVars => RecurringInv'
  BY RecurringStepInv
<1>2. RecurringInv => [\A r \in Replica :
          CreateWorkOrder(r) /\ spawned # NoDate /\ overlap = {}
          => sweep[r].row.nextRunAt > spawned]_recurringVars
  <2> SUFFICES ASSUME RecurringInv, NEW r \in Replica, sweep[r].at = "advanced", spawned # NoDate,
                      overlap = {}
               PROVE  sweep[r].row.nextRunAt > spawned
    BY DEF CreateWorkOrder
  <2>1. sweep[r] # NotSweeping
    BY DEF NotSweeping
  <2>2. sweep[r] \in Sweeping /\ sweep[r].row.nextRunAt \in Nat /\ spawned \in Nat
    BY <2>1 DEF RecurringInv, RecurringType, Sweeping, Rows
  <2> QED BY <2>1, <2>2 DEF RecurringInv, SweepIsAhead
<1> QED BY <1>1, <1>2, RecurringInitInv, PTL DEF RecurringSpec, OneWorkOrderPerOccurrence

(* What a sweep computed is the next run of the row it read, whatever became of the row since. *)
SweepComputes ==
  \A r \in Replica : sweep[r] # NotSweeping =>
    sweep[r].next = computeNextRun(sweep[r].row.pattern, sweep[r].now, sweep[r].row.nextRunAt)

LEMMA StepComputes ==
  ASSUME RecurringType, SweepComputes, [RecurringNext]_recurringVars
  PROVE  SweepComputes'
<1>1. \A r \in Replica : sweep[r] # NotSweeping => sweep[r] \in Sweeping
  BY DEF RecurringType
<1>2. CASE UNCHANGED sweep
  BY <1>2 DEF SweepComputes
<1>3. ASSUME NEW r \in Replica, sweep' = [sweep EXCEPT ![r] = NotSweeping] PROVE SweepComputes'
  BY <1>3 DEF SweepComputes, RecurringType
<1>4. ASSUME NEW r \in Replica, ReadDue(r) PROVE SweepComputes'
  <2>1. sweep' = [sweep EXCEPT ![r] = Reading]
    BY <1>4 DEF ReadDue
  <2>2. Reading.next = computeNextRun(Reading.row.pattern, Reading.now, Reading.row.nextRunAt)
    BY DEF Reading
  <2> QED BY <2>1, <2>2 DEF SweepComputes, RecurringType
<1>5. ASSUME NEW r \in Replica, AdvanceRow(r) PROVE SweepComputes'
  <2>1. sweep[r] # NotSweeping /\ sweep' = [sweep EXCEPT ![r].at = "advanced"]
    BY <1>5 DEF AdvanceRow, NotSweeping
  <2>2. /\ sweep'[r].row = sweep[r].row /\ sweep'[r].now = sweep[r].now /\ sweep'[r].next = sweep[r].next
    BY <1>1, <2>1 DEF RecurringType, Sweeping
  <2>3. \A q \in Replica : q # r => sweep'[q] = sweep[q]
    BY <2>1 DEF RecurringType
  <2> QED BY <2>1, <2>2, <2>3 DEF SweepComputes
<1>6. CASE Tick \/ Pause \/ ReadToUpdate \/ \E e \in editing : update(e)
  BY <1>2, <1>6, Zenon DEF Tick, Pause, ReadToUpdate, update
<1>7. CASE \E r \in Replica : BailOut(r) \/ MissWorkOrder(r) \/ CreateWorkOrder(r)
  BY <1>3, <1>7 DEF BailOut, MissWorkOrder, CreateWorkOrder
<1>8. CASE UNCHANGED recurringVars
  BY <1>2, <1>8 DEF recurringVars
<1> QED BY <1>4, <1>5, <1>6, <1>7, <1>8 DEF RecurringNext, Spawns

(* The next run the spawner sets is the pattern's first occurrence after the day of the sweep,
   counted from the run it stands on: for any pattern that fits every month, any day, any number
   of replicas, and whatever is edited between the steps of a sweep. *)
THEOREM NextRunIsTheNext == RecurringSpec => NextRunIsNextOccurrence
<1>1. RecurringInit => RecurringType /\ SweepComputes
  BY RecurringInitInv DEF RecurringInv, RecurringInit, SweepComputes
<1>2. RecurringType /\ SweepComputes /\ [RecurringNext]_recurringVars => RecurringType' /\ SweepComputes'
  BY RecurringStepType, StepComputes
<1>3. RecurringType /\ SweepComputes /\ [RecurringNext]_recurringVars =>
        [\A r \in Replica :
           sweep[r].at = "read" /\ sweep'[r].at = "advanced" /\ Fits(sweep[r].row)
           => IsNextOccurrence(recurring'.nextRunAt, sweep[r].row.pattern,
                               sweep[r].row.nextRunAt, sweep[r].now)]_recurringVars
  <2> SUFFICES ASSUME RecurringType, SweepComputes, [RecurringNext]_recurringVars, NEW r \in Replica,
                      sweep[r].at = "read", sweep'[r].at = "advanced", Fits(sweep[r].row)
               PROVE  IsNextOccurrence(recurring'.nextRunAt, sweep[r].row.pattern,
                                       sweep[r].row.nextRunAt, sweep[r].now)
    OBVIOUS
  <2>1. AdvanceRow(r)
    <3>1. NotSweeping.at = "idle" /\ Reading.at = "read"
      BY DEF NotSweeping, Reading
    <3>2. sweep' # sweep /\ DOMAIN sweep = Replica /\ sweep \in [Replica -> {NotSweeping} \cup Sweeping]
      BY DEF RecurringType
    <3>3. /\ ~Tick /\ ~Pause /\ ~ReadToUpdate /\ ~(\E e \in editing : update(e))
          /\ ~UNCHANGED recurringVars
      BY <3>2, Zenon DEF Tick, Pause, ReadToUpdate, update, recurringVars
    <3>4. PICK q \in Replica : Spawns(q) \/ BailOut(q) \/ MissWorkOrder(q)
      BY <3>3 DEF RecurringNext
    <3>5. ~(sweep' = [sweep EXCEPT ![q] = NotSweeping]) /\ ~(sweep' = [sweep EXCEPT ![q] = Reading])
      BY <3>1, <3>2
    <3>6. AdvanceRow(q)
      BY <3>4, <3>5, Zenon DEF Spawns, ReadDue, CreateWorkOrder, BailOut, MissWorkOrder
    <3>7. q # r => sweep'[r] = sweep[r]
      BY <3>2, <3>6 DEF AdvanceRow
    <3> QED BY <3>6, <3>7
  <2> DEFINE row == sweep[r].row
             p == row.pattern
             after == row.nextRunAt
             now == sweep[r].now
             next == sweep[r].next
  <2>2. sweep[r] # NotSweeping
    BY DEF NotSweeping
  <2>3. row \in Rows /\ p \in Patterns /\ after \in Nat /\ now \in Nat
    BY <2>2 DEF RecurringType, Sweeping, Rows
  <2>4. next = computeNextRun(p, now, after) /\ next # NoDate
    BY <2>1, <2>2 DEF SweepComputes, AdvanceRow
  <2>5. FitsEveryMonth(p, after)
    BY DEF Fits
  <2>6. recurring'.nextRunAt = next
    BY <2>1 DEF AdvanceRow, RecurringType, Rows
  <2> HIDE DEF row, p, after, now, next
  <2>7. IsNextOccurrence(next, p, after, now)
    BY <2>3, <2>4, <2>5, PatternsAre, NextRunIs
  <2> QED BY <2>6, <2>7 DEF row, p, after, now
<1> QED BY <1>1, <1>2, <1>3, PTL DEF RecurringSpec, NextRunIsNextOccurrence

(* What ScheduleAdvances says, and short months refute, of the schedules whose days exist in every
   month: the computation does not throw for a row that is less than Safety days late. *)
LateSchedulesAdvance ==
  \A r \in Replica :
    /\ sweep[r].at = "read" /\ Fits(sweep[r].row)
    /\ sweep[r].now - sweep[r].row.nextRunAt < Safety
    => sweep[r].next # NoDate

(* A sweep does not bail out for any pattern that fits every month, unless the row is Safety days
   late or more: so it is spawned, and the schedule goes on. *)
THEOREM NoSweepBailsOut == RecurringSpec => []LateSchedulesAdvance
<1>1. RecurringInit => RecurringType /\ SweepComputes
  BY RecurringInitInv DEF RecurringInv, RecurringInit, SweepComputes
<1>2. RecurringType /\ SweepComputes /\ [RecurringNext]_recurringVars => RecurringType' /\ SweepComputes'
  BY RecurringStepType, StepComputes
<1>3. RecurringType /\ SweepComputes => LateSchedulesAdvance
  <2> SUFFICES ASSUME RecurringType, SweepComputes, NEW r \in Replica, sweep[r].at = "read",
                      Fits(sweep[r].row), sweep[r].now - sweep[r].row.nextRunAt < Safety
               PROVE  sweep[r].next # NoDate
    BY DEF LateSchedulesAdvance
  <2> DEFINE row == sweep[r].row
             p == row.pattern
             after == row.nextRunAt
             now == sweep[r].now
             next == sweep[r].next
  <2>1. sweep[r] # NotSweeping
    BY DEF NotSweeping
  <2>2. row \in Rows /\ p \in Patterns /\ after \in Nat /\ now \in Nat
    BY <2>1 DEF RecurringType, Sweeping, Rows
  <2>3. next = computeNextRun(p, now, after) /\ FitsEveryMonth(p, after) /\ now - after < Safety
    BY <2>1 DEF SweepComputes, Fits
  <2> HIDE DEF row, p, after, now, next
  <2>4. next # NoDate
    BY <2>2, <2>3, PatternsAre, NextRunIs
  <2> QED BY <2>4 DEF next
<1> QED BY <1>1, <1>2, <1>3, PTL DEF RecurringSpec
=============================================================================
