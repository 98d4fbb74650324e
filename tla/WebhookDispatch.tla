--------------------------- MODULE WebhookDispatch ---------------------------
(***************************************************************************)
(* The outbox of webhook deliveries to one endpoint: the fan-out of domain *)
(* events, the sweeps of WebhookDispatcherService in any number of         *)
(* replicas, and the administrator of the endpoint (WebhooksService).      *)
(*                                                                         *)
(* A sending is what one worker of a sweep does with one delivery it       *)
(* claimed; between its statements and its request others run.             *)
(***************************************************************************)
EXTENDS Integers, FiniteSets

CONSTANTS
  MaxDeliveries,              \* bound: deliveries fanned out, numbered in their order
  MaxAttempts,                \* BACKOFF_SECONDS.length + 1: 6 in the code
  CONSECUTIVE_FAILURE_LIMIT,  \* 15 in the code
  MaxAdmin,                   \* bound: what the administrator does
  MaxOrphans                  \* bound: deliveries whose sending a crash or a failed statement ends

Delivery == 1..MaxDeliveries

ASSUME WebhookAssumption == MaxAttempts \in Nat \ {0} /\ CONSECUTIVE_FAILURE_LIMIT \in Nat \ {0}

VARIABLES
  delivery,  \* delivery[d]: its row, or NoDelivery before the fan-out
  endpoint,
  sending,   \* the sendings under way
  receiver,  \* history: deliveries the receiver answered with a 2xx, those sent again after that, and
             \* those whose sending ended with that answer unwritten
  orphan,    \* history: deliveries whose sending a crash or a failed statement ended
  retrier,   \* the retries by hand that have read their delivery and not yet updated it
  raced,     \* history: deliveries retried by hand while a sending of them was under way, or after
             \* their status changed since it was read
  webhookUsed

webhookVars == <<delivery, endpoint, sending, receiver, orphan, retrier, raced, webhookUsed>>
webhookHistory == <<orphan, retrier, raced, webhookUsed>>

-----------------------------------------------------------------------------
NoDelivery == [status |-> "none", attempts |-> 0]

WebhookInit ==
  /\ delivery = [d \in Delivery |-> NoDelivery]
  /\ endpoint = [isActive |-> TRUE, failures |-> 0]
  /\ sending = {}
  /\ receiver = [done |-> {}, again |-> {}, unwritten |-> {}]
  /\ orphan = {} /\ raced = {} /\ retrier = {}
  /\ webhookUsed = 0

Administers == webhookUsed < MaxAdmin /\ webhookUsed' = webhookUsed + 1

(* onDomainEvent, triggerTestDelivery *)
FanOut(d) ==
  /\ delivery[d] = NoDelivery /\ \A e \in 1..(d - 1) : delivery[e] # NoDelivery
  /\ endpoint.isActive
  /\ delivery' = [delivery EXCEPT ![d].status = "pending"]
  /\ UNCHANGED <<endpoint, sending, receiver, webhookHistory>>

-----------------------------------------------------------------------------
UpTo(limit, n) == IF n < limit THEN n ELSE limit

Moves(s, at) == sending' = (sending \ {s}) \cup {[s EXCEPT !.at = at]}
Ends(s) == sending' = sending \ {s}
Sending(d) == [delivery |-> d, attempt |-> delivery[d].attempts + 1,
               at |-> IF endpoint.isActive THEN "ready" ELSE "disabled",
               nr |-> CHOOSE n \in 0 .. Cardinality(sending) : \A s \in sending : s.delivery = d => s.nr # n]

(* claim: FOR UPDATE SKIP LOCKED; a due row becomes 'dispatching'. Then, once, the endpoint is read:
   nobody looks at the row between the two. *)
claim(d) ==
  /\ delivery[d].status = "pending"
  /\ delivery' = [delivery EXCEPT ![d].status = "dispatching"]
  /\ sending' = sending \cup {Sending(d)}
  /\ UNCHANGED <<endpoint, receiver, webhookHistory>>

(* deliverOne: the request is answered with a 2xx, or not, or not in time. *)
Post(s) ==
  /\ s.at = "ready"
  /\ \E outcome \in {"accepted", "failed"} :
       /\ Moves(s, outcome)
       /\ receiver' = [receiver EXCEPT
            !.done = IF outcome = "accepted" THEN @ \cup {s.delivery} ELSE @,
            !.again = @ \cup ({s.delivery} \cap receiver.done)]
  /\ UNCHANGED <<delivery, endpoint, webhookHistory>>

(* markSuccess: the delivery and the counter of the endpoint in one transaction. *)
markSuccess(s) ==
  /\ s.at = "accepted" /\ Ends(s)
  /\ delivery' = [delivery EXCEPT ![s.delivery] = [status |-> "succeeded", attempts |-> @.attempts + 1]]
  /\ endpoint' = [endpoint EXCEPT !.failures = 0]
  /\ UNCHANGED <<receiver, webhookHistory>>

(* Mutant of markFailed: the row to retry stays 'dispatching'. *)
markFailedUnreleased(s) ==
  /\ s.at = "failed" /\ Moves(s, "bump")
  /\ delivery' = [delivery EXCEPT ![s.delivery] =
       IF s.attempt >= MaxAttempts THEN [status |-> "abandoned", attempts |-> @.attempts + 1]
       ELSE [@ EXCEPT !.attempts = s.attempt]]
  /\ UNCHANGED <<endpoint, receiver, webhookHistory>>

(* The failure path: a retry is planned, or the delivery is abandoned. *)
markFailed(s) ==
  /\ s.at = "failed" /\ Moves(s, "bump")
  /\ delivery' = [delivery EXCEPT ![s.delivery] =
       IF s.attempt >= MaxAttempts THEN [status |-> "abandoned", attempts |-> @.attempts + 1]
       ELSE [status |-> "pending", attempts |-> s.attempt]]
  /\ UNCHANGED <<endpoint, receiver, webhookHistory>>

(* The endpoint was disabled between the fan-out and the sweep: counted as an attempt too. *)
markAbandoned(s) ==
  /\ s.at = "disabled" /\ Ends(s)
  /\ delivery' = [delivery EXCEPT ![s.delivery] = [status |-> "abandoned", attempts |-> @.attempts + 1]]
  /\ UNCHANGED <<endpoint, receiver, webhookHistory>>

(* bumpEndpointFailure: the count, which stops at the limit here, and then a second statement. *)
bumpEndpointFailure(s) ==
  /\ s.at = "bump"
  /\ LET n == UpTo(CONSECUTIVE_FAILURE_LIMIT, endpoint.failures + 1)
     IN  /\ endpoint' = [endpoint EXCEPT !.failures = n]
         /\ IF n = CONSECUTIVE_FAILURE_LIMIT THEN Moves(s, "limit") ELSE Ends(s)
  /\ UNCHANGED <<delivery, receiver, webhookHistory>>

Disable(s) ==
  /\ s.at = "limit" /\ Ends(s)
  /\ endpoint' = [endpoint EXCEPT !.isActive = FALSE]
  /\ UNCHANGED <<delivery, receiver, webhookHistory>>

(* The process dies or a statement fails: the row stays 'dispatching', unless it was written. *)
Orphan(s) ==
  /\ Ends(s)
  /\ \/ s.at \in {"bump", "limit"} /\ UNCHANGED orphan
     \/ /\ s.at \notin {"bump", "limit"} /\ Cardinality(orphan) < MaxOrphans
        /\ orphan' = orphan \cup {s.delivery}
  /\ receiver' = [receiver EXCEPT !.unwritten = IF s.at = "accepted" THEN @ \cup {s.delivery} ELSE @]
  /\ UNCHANGED <<delivery, endpoint, raced, retrier, webhookUsed>>

-----------------------------------------------------------------------------
(* update: re-enabling clears the counter it read before, if there was one. remove disables. *)
updateEndpoint ==
  /\ Administers
  /\ endpoint' \in {[endpoint EXCEPT !.isActive = FALSE], [endpoint EXCEPT !.isActive = TRUE],
                    [isActive |-> TRUE, failures |-> 0]}
  /\ UNCHANGED <<delivery, sending, receiver, orphan, retrier, raced>>

(* Mutant of ReadToRetry: a delivery that succeeded is sent again too. *)
ReadToRetryAny(d) ==
  /\ delivery[d] # NoDelivery /\ Administers
  /\ retrier' = retrier \cup {[delivery |-> d, status |-> delivery[d].status]}
  /\ UNCHANGED <<delivery, endpoint, sending, receiver, orphan, raced>>

(* By hand: any delivery that did not succeed, also one that is being sent, *)
ReadToRetry(d) ==
  /\ delivery[d] # NoDelivery /\ delivery[d].status # "succeeded" /\ Administers
  /\ retrier' = retrier \cup {[delivery |-> d, status |-> delivery[d].status]}
  /\ UNCHANGED <<delivery, endpoint, sending, receiver, orphan, raced>>

(* and in a second statement the update by id. *)
retryDelivery(r) ==
  /\ retrier' = retrier \ {r}
  /\ delivery' = [delivery EXCEPT ![r.delivery].status = "pending"]
  /\ raced' = IF delivery[r.delivery].status # r.status \/ \E s \in sending : s.delivery = r.delivery
              THEN raced \cup {r.delivery} ELSE raced
  /\ UNCHANGED <<endpoint, sending, receiver, orphan, webhookUsed>>

-----------------------------------------------------------------------------
(* A sweep comes every 30 seconds and its requests are cut off after 10, so claim and deliverOne go
   on; MCSweeps states this as fairness. *)
deliverOne(s) == Post(s) \/ markSuccess(s) \/ markFailed(s) \/ markAbandoned(s)
                 \/ bumpEndpointFailure(s) \/ Disable(s)

WebhookNext ==
  \/ \E d \in Delivery : FanOut(d) \/ claim(d) \/ ReadToRetry(d)
  \/ \E r \in retrier : retryDelivery(r)
  \/ \E s \in sending : deliverOne(s) \/ Orphan(s)
  \/ updateEndpoint

-----------------------------------------------------------------------------
(* Properties *)

(* A delivery the receiver answered with a 2xx is not sent to it again: of all the sweeps and
   replicas one sends it at a time, and the screens retry no delivery that succeeded. Two things
   break this, and are excepted: a retry by hand while the row is being sent, and a crash or a failed
   statement between the answer and markSuccess, after which the row is retried by hand as if the
   receiver had not answered. *)
SuccessIsFinal == receiver.again \subseteq raced \cup receiver.unwritten

(* What is fanned out succeeds or is abandoned in the end, unless a crash leaves it 'dispatching'. *)
DeliveriesEnd ==
  \A d \in Delivery :
    delivery[d].status \in {"pending", "dispatching"}
      ~> delivery[d].status \in {"succeeded", "abandoned"} \/ d \in orphan
=============================================================================
