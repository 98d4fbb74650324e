---------------------------- MODULE ReplaySafety ----------------------------
(***************************************************************************)
(* What ADR-016 section 3 promises the phone about an operation it retries *)
(* under one Idempotency-Key: the operation takes effect at most once, the *)
(* request that caused the effect may be acknowledged, and any other       *)
(* request with the same key is either refused or, if it is the same       *)
(* request, answered with the stored response.                             *)
(***************************************************************************)
CONSTANTS Request, Key, Hash, None

VARIABLES
  sent,     \* sent[r]: key and hash of the request, None before it is sent
  outcome,  \* outcome[k]: the request that took effect for k, or None
  answer    \* answer[r]: "waiting", "done", "replayed" or "refused"

vars == <<sent, outcome, answer>>

Init ==
  /\ sent = [r \in Request |-> None]
  /\ outcome = [k \in Key |-> None]
  /\ answer = [r \in Request |-> "waiting"]

Send(r, k, h) ==
  /\ sent[r] = None
  /\ sent' = [sent EXCEPT ![r] = [key |-> k, hash |-> h]]
  /\ UNCHANGED <<outcome, answer>>

TakeEffect(r) ==
  /\ sent[r] # None
  /\ answer[r] = "waiting"
  /\ outcome[sent[r].key] = None
  /\ outcome' = [outcome EXCEPT ![sent[r].key] = r]
  /\ UNCHANGED <<sent, answer>>

Acknowledge(r) ==
  /\ sent[r] # None
  /\ answer[r] = "waiting"
  /\ outcome[sent[r].key] = r
  /\ answer' = [answer EXCEPT ![r] = "done"]
  /\ UNCHANGED <<sent, outcome>>

Replay(r) ==
  /\ sent[r] # None
  /\ answer[r] = "waiting"
  /\ \E s \in Request \ {r} : outcome[sent[r].key] = s /\ sent[s] = sent[r]
  /\ answer' = [answer EXCEPT ![r] = "replayed"]
  /\ UNCHANGED <<sent, outcome>>

(* A refusal is never given to the request that took effect. *)
Refuse(r) ==
  /\ sent[r] # None
  /\ answer[r] = "waiting"
  /\ outcome[sent[r].key] # r
  /\ answer' = [answer EXCEPT ![r] = "refused"]
  /\ UNCHANGED <<sent, outcome>>

Next ==
  \E r \in Request :
    \/ \E k \in Key, h \in Hash : Send(r, k, h)
    \/ TakeEffect(r)
    \/ Acknowledge(r)
    \/ Replay(r)
    \/ Refuse(r)

Spec == Init /\ [][Next]_vars
=============================================================================
