----------------------- MODULE IdempotencyRefinement -----------------------
(***************************************************************************)
(* The interceptor and its store implement ReplaySafety as long as no      *)
(* fault happens: the abstract outcome of a key is the request whose       *)
(* handler committed.                                                      *)
(***************************************************************************)
EXTENDS IdempotencyKeys

ASSUME NotSentAssumption == None \notin [key: Key, hash: Hash]

Sent == [r \in Request |-> IF pc[r] = "idle" THEN None ELSE req[r]]

Outcome == [k \in Key |->
  IF \E r \in executed : req[r].key = k
  THEN CHOOSE r \in executed : req[r].key = k
  ELSE None]

AnswerOf(r) ==
  CASE reply[r].kind = "NONE"     -> "waiting"
    [] reply[r].kind = "OK"       -> "done"
    [] reply[r].kind = "REPLAYED" -> "replayed"
    [] OTHER                      -> "refused"

Promise == INSTANCE ReplaySafety WITH
  sent <- Sent,
  outcome <- Outcome,
  answer <- [r \in Request |-> AnswerOf(r)]

(* The interceptor over the store implements the replay-safety promise of  *)
(* ADR-016 section 3 step for step.                                        *)
ImplementsReplaySafety == Promise!Spec
=============================================================================
