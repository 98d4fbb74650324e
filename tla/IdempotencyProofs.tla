------------------------- MODULE IdempotencyProofs -------------------------
(***************************************************************************)
(* Theorems about IdempotencyKeys, for every set of requests, keys and     *)
(* hashes.  The safety theorems name the faults they tolerate; the last    *)
(* one is that the protocol implements ReplaySafety.                       *)
(***************************************************************************)
EXTENDS IdempotencyRefinement, TLAPS

LEMMA NoRowIsNoRow == NoRow \notin Row
BY NoneAssumption DEF NoRow, Row

LEMMA InitType == Init => TypeOK
BY DEF Init, TypeOK, NoRow, NoReply, Reply, Step

(* Rows keep their shape when a claim is aged, refreshed or completed. *)
LEMMA RowUpdates ==
  ASSUME NEW rw \in Row
  PROVE  /\ \A a \in {"fresh", "stale", "expired"} : [rw EXCEPT !.age = a] \in Row
         /\ \A r \in Request : [rw EXCEPT !.status = "DONE", !.body = r] \in Row
BY DEF Row

(* The answers the interceptor gives are replies. *)
LEMMA ReplyTypes ==
  /\ \A kind \in {"MISMATCH", "IN_PROGRESS", "ERROR"} : Refusal(kind) \in Reply
  /\ \A b \in Request \cup {None} : [kind |-> "REPLAYED", body |-> b] \in Reply
  /\ \A r \in Request : [kind |-> "OK", body |-> r] \in Reply
BY DEF Refusal, Reply

(* Answering a request that was begun keeps the types, if the rows keep theirs. *)
LEMMA AnswerType ==
  ASSUME TypeOK, NEW r \in Request, NEW a \in Reply, pc[r] # "idle", Answer(r, a),
         row' \in [Key -> Row \cup {NoRow}], UNCHANGED <<req, seen, executed>>
  PROVE  TypeOK'
BY DEF TypeOK, Answer, Goto, Step

(* The type invariant is inductive by itself: one case per action, and in  *)
(* each case one step for the row and one for the process.                 *)
LEMMA StepType == TypeOK /\ [Next]_vars => TypeOK'
<1> SUFFICES ASSUME TypeOK, [Next]_vars PROVE TypeOK'
  OBVIOUS
<1>1. ASSUME NEW r \in Request, NEW k \in Key, NEW h \in Hash, Begin(r, k, h)
      PROVE  TypeOK'
  <2>1. row' \in [Key -> Row \cup {NoRow}]
    <3>1. [id |-> r, hash |-> h, status |-> "IN_PROGRESS", body |-> None, age |-> "fresh"] \in Row
      BY DEF Row
    <3> QED BY <1>1, <3>1 DEF Begin, TypeOK
  <2>2. pc' \in [Request -> Step]
    BY <1>1 DEF Begin, TypeOK, Goto, Step
  <2>3. \A s \in Request : s # r => pc'[s] = pc[s]
    BY <1>1 DEF Begin, TypeOK, Goto
  <2>4. pc'[r] # "takingOver"
    BY <1>1 DEF Begin, TypeOK, Goto
  <2>5. req' = [req EXCEPT ![r] = [key |-> k, hash |-> h]]
    BY <1>1 DEF Begin
  <2>6. UNCHANGED <<seen, reply, executed>>
    BY <1>1 DEF Begin
  <2> QED BY <2>1, <2>2, <2>3, <2>4, <2>5, <2>6 DEF TypeOK
<1>2. ASSUME NEW r \in Request, ReadRow(r) PROVE TypeOK'
  <2>1. req[r] \in [key: Key, hash: Hash] /\ pc[r] = "reading"
    BY <1>2 DEF ReadRow, TypeOK
  <2>2. row[req[r].key] \in Row \cup {NoRow}
    BY <2>1 DEF TypeOK
  <2>3. ASSUME NEW a \in Reply, Answer(r, a), UNCHANGED seen
        PROVE  TypeOK'
    <3>1. row' \in [Key -> Row \cup {NoRow}] /\ UNCHANGED <<req, executed>>
      BY <1>2 DEF ReadRow, TypeOK
    <3> QED BY <2>1, <2>3, <3>1, AnswerType
  <2>4. CASE row[req[r].key] = NoRow
    BY <1>2, <2>3, <2>4, ReplyTypes DEF ReadRow
  <2>5. CASE row[req[r].key] # NoRow
    <3>1. row[req[r].key].id \in Request /\ row[req[r].key].body \in Request \cup {None}
      BY <2>2, <2>5 DEF Row
    <3>2. [kind |-> "REPLAYED", body |-> row[req[r].key].body] \in Reply
      BY <3>1, ReplyTypes
    <3>3. CASE pc' = [pc EXCEPT ![r] = "takingOver"]
                /\ seen' = [seen EXCEPT ![r] = row[req[r].key].id]
                /\ UNCHANGED <<row, req, reply, executed>>
      BY <3>1, <3>3, <2>1 DEF TypeOK, Step
    <3>4. \/ Answer(r, Refusal("MISMATCH")) /\ UNCHANGED seen
          \/ Answer(r, Refusal("IN_PROGRESS")) /\ UNCHANGED seen
          \/ Answer(r, [kind |-> "REPLAYED", body |-> row[req[r].key].body]) /\ UNCHANGED seen
          \/ /\ pc' = [pc EXCEPT ![r] = "takingOver"]
             /\ seen' = [seen EXCEPT ![r] = row[req[r].key].id]
             /\ UNCHANGED <<row, req, reply, executed>>
      BY <1>2, <2>5 DEF ReadRow, Goto
    <3>5. Refusal("MISMATCH") \in Reply /\ Refusal("IN_PROGRESS") \in Reply
      BY ReplyTypes
    <3> QED BY <3>2, <3>3, <3>4, <3>5, <2>3
  <2> QED BY <2>4, <2>5
<1>3. ASSUME NEW r \in Request, TakeOver(r) PROVE TypeOK'
  <2>1. req[r] \in [key: Key, hash: Hash] /\ pc[r] = "takingOver" /\ seen[r] \in Request
    BY <1>3 DEF TakeOver, TypeOK
  <2>2. row[req[r].key] \in Row \cup {NoRow}
    BY <2>1 DEF TypeOK
  <2>3. CASE row[req[r].key].id = seen[r]
    <3>1. row[req[r].key] \in Row
      BY <2>1, <2>2, <2>3, NoneAssumption DEF NoRow
    <3>2. [row[req[r].key] EXCEPT !.age = "fresh"] \in Row
      BY <3>1, RowUpdates
    <3>3. row' \in [Key -> Row \cup {NoRow}]
      BY <1>3, <2>1, <2>3, <3>2 DEF TakeOver, TypeOK
    <3> QED BY <1>3, <2>1, <2>3, <3>3 DEF TakeOver, TypeOK, Goto, Step
  <2>4. CASE row[req[r].key].id # seen[r]
    <3>1. Answer(r, Refusal("ERROR")) /\ UNCHANGED <<row, req, seen, executed>>
      BY <1>3, <2>4 DEF TakeOver
    <3>2. row' \in [Key -> Row \cup {NoRow}] /\ Refusal("ERROR") \in Reply
      BY <3>1, ReplyTypes DEF TypeOK
    <3> QED BY <2>1, <3>1, <3>2, AnswerType
  <2> QED BY <2>3, <2>4
<1>4. ASSUME NEW r \in Request, HandlerCommits(r) PROVE TypeOK'
  BY <1>4 DEF HandlerCommits, TypeOK, Goto, Step
<1>5. ASSUME NEW r \in Request, HandlerFails(r) PROVE TypeOK'
  BY <1>5 DEF HandlerFails, TypeOK, Goto, Step
<1>6. ASSUME NEW r \in Request, Complete(r) PROVE TypeOK'
  <2>1. req[r] \in [key: Key, hash: Hash] /\ pc[r] = "completing"
    BY <1>6 DEF Complete, TypeOK
  <2>2. CASE /\ row[req[r].key] # NoRow
             /\ row' = [row EXCEPT ![req[r].key].status = "DONE", ![req[r].key].body = r]
             /\ Answer(r, [kind |-> "OK", body |-> r])
    <3>1. row[req[r].key] \in Row
      BY <2>1, <2>2 DEF TypeOK
    <3>2. [row[req[r].key] EXCEPT !.status = "DONE", !.body = r] \in Row
      BY <3>1, RowUpdates
    <3>3. row' \in [Key -> Row \cup {NoRow}]
      BY <2>1, <2>2, <3>2 DEF TypeOK
    <3>4. [kind |-> "OK", body |-> r] \in Reply /\ UNCHANGED <<req, seen, executed>>
      BY <1>6, ReplyTypes DEF Complete
    <3> QED BY <2>1, <2>2, <3>3, <3>4, AnswerType
  <2>3. CASE Goto(r, "releasing") /\ UNCHANGED <<row, reply>>
    BY <1>6, <2>1, <2>3 DEF Complete, TypeOK, Goto, Step
  <2> QED BY <1>6, <2>2, <2>3 DEF Complete
<1>7. ASSUME NEW r \in Request, Release(r) PROVE TypeOK'
  BY <1>7 DEF Release, TypeOK, Answer, Goto, Refusal, Reply, Step
<1>8. ASSUME Crash PROVE TypeOK'
  BY <1>8 DEF Crash, TypeOK, Step
<1>9. ASSUME NEW k \in Key, Age(k) PROVE TypeOK'
  <2>1. row[k] \in Row
    BY <1>9 DEF Age, TypeOK
  <2>2. row' \in [Key -> Row \cup {NoRow}]
    BY <1>9, <2>1, RowUpdates DEF Age, TypeOK
  <2> QED BY <1>9, <2>2 DEF Age, TypeOK
<1>10. ASSUME Cleanup PROVE TypeOK'
  BY <1>10 DEF Cleanup, TypeOK
<1>11. CASE UNCHANGED vars
  BY <1>11 DEF vars, TypeOK
<1> QED
  BY <1>1, <1>2, <1>3, <1>4, <1>5, <1>6, <1>7, <1>8, <1>9, <1>10, <1>11 DEF Next, Serve

(* Every reachable state of the protocol is well typed, under any faults. *)
THEOREM TypeCorrect == Spec => []TypeOK
BY InitType, StepType, PTL DEF Spec
-----------------------------------------------------------------------------
(* The claim is exclusive while no claim is orphaned.                      *)

LEMMA InitClaims == Init => ClaimsOwnRows
BY DEF Init, ClaimsOwnRows, Claiming, NoRow

LEMMA StepClaims ==
  ASSUME Faults \subseteq {"complete", "ttl"}, TypeOK, TypeOK', ClaimsOwnRows, [Next]_vars
  PROVE  ClaimsOwnRows'
<1> USE DEF Claiming
<1>0. "crash" \notin Faults /\ "release" \notin Faults /\ "slow" \notin Faults
  OBVIOUS
<1>1. ASSUME NEW r \in Request, NEW k \in Key, NEW h \in Hash, Begin(r, k, h)
      PROVE  ClaimsOwnRows'
  <2>1. /\ pc[r] = "idle"
        /\ req' = [req EXCEPT ![r] = [key |-> k, hash |-> h]]
    BY <1>1 DEF Begin
  <2>2. CASE /\ row[k] = NoRow
             /\ row' = [row EXCEPT ![k] = [id |-> r, hash |-> h, status |-> "IN_PROGRESS",
                                           body |-> None, age |-> "fresh"]]
             /\ pc' = [pc EXCEPT ![r] = "running"]
    <3>1. \A s \in Request : pc[s] \in Claiming => req[s].key # k
      BY <2>2, NoneAssumption DEF ClaimsOwnRows, NoRow
    <3>2. row'[k] = [id |-> r, hash |-> h, status |-> "IN_PROGRESS", body |-> None, age |-> "fresh"]
          /\ \A q \in Key : q # k => row'[q] = row[q]
      BY <2>2 DEF TypeOK
    <3>3. pc'[r] = "running" /\ \A s \in Request : s # r => pc'[s] = pc[s]
      BY <2>2 DEF TypeOK
    <3>4. req'[r] = [key |-> k, hash |-> h] /\ \A s \in Request : s # r => req'[s] = req[s]
      BY <2>1 DEF TypeOK
    <3>5. \A s \in Request : pc[s] # "idle" => req[s].key \in Key
      BY DEF TypeOK
    <3>6. \A q \in Key : row[q].status = "IN_PROGRESS" => row[q].id \in Request
      BY DEF TypeOK, Row, NoRow
    <3> QED BY <2>1, <3>1, <3>2, <3>3, <3>4, <3>5, <3>6 DEF ClaimsOwnRows
  <2>3. CASE pc' = [pc EXCEPT ![r] = "reading"] /\ UNCHANGED row
    <3>1. \A q \in Key : row[q].status = "IN_PROGRESS" => row[q].id \in Request
      BY DEF TypeOK, Row, NoRow
    <3> QED BY <2>1, <2>3, <3>1 DEF ClaimsOwnRows, TypeOK
  <2> QED BY <1>1, <2>2, <2>3 DEF Begin, Goto
<1>2. ASSUME NEW r \in Request, ReadRow(r) PROVE ClaimsOwnRows'
  <2>1. req[r].key \in Key /\ pc[r] = "reading"
    BY <1>2 DEF ReadRow, TypeOK
  <2>2. row[req[r].key].status = "IN_PROGRESS" => row[req[r].key].age = "fresh"
    BY <2>1 DEF ClaimsOwnRows
  <2>3. pc' = [pc EXCEPT ![r] = "answered"] /\ UNCHANGED <<row, req>>
    BY <1>2, <2>2 DEF ReadRow, Answer, Goto
  <2>4. \A q \in Key : row[q].status = "IN_PROGRESS" => row[q].id \in Request
    BY DEF TypeOK, Row, NoRow
  <2> QED BY <2>1, <2>3, <2>4 DEF ClaimsOwnRows, TypeOK
<1>3. ASSUME NEW r \in Request, TakeOver(r) PROVE ClaimsOwnRows'
  BY <1>3 DEF TakeOver, ClaimsOwnRows
<1>4. ASSUME NEW r \in Request, HandlerCommits(r) PROVE ClaimsOwnRows'
  BY <1>4 DEF HandlerCommits, Goto, TypeOK, ClaimsOwnRows, NoRow, Row
<1>5. ASSUME NEW r \in Request, HandlerFails(r) PROVE ClaimsOwnRows'
  BY <1>5 DEF HandlerFails, Goto, TypeOK, ClaimsOwnRows, NoRow, Row
<1>6. ASSUME NEW r \in Request, Complete(r) PROVE ClaimsOwnRows'
  <2>1. req[r].key \in Key /\ pc[r] = "completing" /\ UNCHANGED req
    BY <1>6 DEF Complete, TypeOK
  <2>2. \A q \in Key : row[q].status = "IN_PROGRESS" => row[q].id \in Request
    BY DEF TypeOK, Row, NoRow
  <2>3. CASE /\ row' = [row EXCEPT ![req[r].key].status = "DONE", ![req[r].key].body = r]
             /\ pc' = [pc EXCEPT ![r] = "answered"]
    <3>1. row'[req[r].key].status = "DONE" /\ \A q \in Key : q # req[r].key => row'[q] = row[q]
      <4>1. row[req[r].key] \in Row
        BY <2>1, NoneAssumption DEF ClaimsOwnRows, TypeOK, NoRow
      <4>2. [row[req[r].key] EXCEPT !.status = "DONE", !.body = r].status = "DONE"
        BY <4>1 DEF Row
      <4> QED BY <2>1, <2>3, <4>1, <4>2 DEF TypeOK
    <3>2. \A s \in Request : s # r /\ pc[s] \in Claiming => req[s].key # req[r].key
      BY <2>1 DEF ClaimsOwnRows
    <3>3. pc'[r] = "answered" /\ \A s \in Request : s # r => pc'[s] = pc[s]
      BY <2>3 DEF TypeOK
    <3>4. \A s \in Request : pc[s] \in Claiming => req[s].key \in Key
      BY DEF TypeOK
    <3> QED BY <2>1, <2>2, <3>1, <3>2, <3>3, <3>4 DEF ClaimsOwnRows
  <2>4. CASE pc' = [pc EXCEPT ![r] = "releasing"] /\ UNCHANGED row
    BY <2>1, <2>2, <2>4 DEF ClaimsOwnRows, TypeOK
  <2> QED BY <1>6, <2>3, <2>4 DEF Complete, Answer, Goto
<1>7. ASSUME NEW r \in Request, Release(r) PROVE ClaimsOwnRows'
  BY <1>0, <1>7 DEF Release, Answer, Goto, TypeOK, ClaimsOwnRows, NoRow, Row
<1>8. ASSUME Crash PROVE ClaimsOwnRows'
  BY <1>0, <1>8 DEF Crash
<1>9. ASSUME NEW k \in Key, Age(k) PROVE ClaimsOwnRows'
  BY <1>0, <1>9 DEF Age, Claimants, TypeOK, ClaimsOwnRows, NoRow, Row
<1>10. ASSUME Cleanup PROVE ClaimsOwnRows'
  BY <1>10 DEF Cleanup, TypeOK, ClaimsOwnRows, NoRow, Row
<1>11. CASE UNCHANGED vars
  BY <1>11 DEF vars, ClaimsOwnRows
<1> QED
  BY <1>1, <1>2, <1>3, <1>4, <1>5, <1>6, <1>7, <1>8, <1>9, <1>10, <1>11 DEF Next, Serve

LEMMA ClaimsExclude == TypeOK /\ ClaimsOwnRows => ExclusiveClaim
BY DEF ClaimsOwnRows, ExclusiveClaim

(* While no claim is orphaned (no crash, no failed release, no handler     *)
(* slower than the staleness bound), two requests never work under the     *)
(* same key at the same time.                                              *)
THEOREM ClaimsAreExclusive ==
  ASSUME Faults \subseteq {"complete", "ttl"}
  PROVE  Spec => []ExclusiveClaim
<1>1. Spec => [](TypeOK /\ ClaimsOwnRows)
  BY TypeCorrect, InitClaims, StepClaims, PTL DEF Spec
<1> QED
  BY <1>1, ClaimsExclude, PTL
-----------------------------------------------------------------------------
(* Success is real whatever goes wrong.                                    *)

LEMMA InitReal == Init => ResponsesAreReal
BY DEF Init, ResponsesAreReal, NoPhantomSuccess, NoRow, NoReply

LEMMA StepReal == TypeOK /\ TypeOK' /\ ResponsesAreReal /\ [Next]_vars => ResponsesAreReal'
<1> SUFFICES ASSUME TypeOK, TypeOK', ResponsesAreReal, [Next]_vars PROVE ResponsesAreReal'
  OBVIOUS
<1> DEFINE Filed == \A k \in Key :
             row[k].status = "DONE" => row[k].body \in executed /\ req[row[k].body].key = k
<1>0. /\ executed \subseteq Request /\ Filed
      /\ \A r \in Request : pc[r] # "idle" => req[r].key \in Key
  BY DEF TypeOK, ResponsesAreReal
<1>1. ASSUME NEW r \in Request, NEW k \in Key, NEW h \in Hash, Begin(r, k, h)
      PROVE  ResponsesAreReal'
  <2>1. /\ pc[r] = "idle" /\ r \notin executed /\ UNCHANGED <<reply, executed>>
        /\ pc'[r] \in {"running", "reading"} /\ reply[r].kind = "NONE"
        /\ \A s \in Request \ {r} : pc'[s] = pc[s] /\ req'[s] = req[s]
    BY <1>1 DEF Begin, Goto, TypeOK, ResponsesAreReal
  <2>2. \A q \in Key : row'[q].status = "DONE" => row'[q] = row[q]
    BY <1>1 DEF Begin, TypeOK
  <2> QED BY <1>0, <2>1, <2>2 DEF ResponsesAreReal, NoPhantomSuccess
<1>2. ASSUME NEW r \in Request, NEW a \in Reply, Answer(r, a), pc[r] # "idle",
             a.kind = "OK" => a.body = r,
             a.kind \in {"OK", "REPLAYED"} => a.body \in executed /\ req[a.body].key = req[r].key,
             Filed', UNCHANGED <<req, executed>>
      PROVE  ResponsesAreReal'
  <2>1. /\ pc'[r] = "answered" /\ reply'[r] = a
        /\ \A s \in Request \ {r} : pc'[s] = pc[s] /\ reply'[s] = reply[s]
    BY <1>2 DEF Answer, Goto, TypeOK
  <2> QED BY <1>0, <1>2, <2>1 DEF ResponsesAreReal, NoPhantomSuccess
<1>3. ASSUME NEW r \in Request, NEW step, Goto(r, step), pc[r] \notin {"idle", "answered"},
             step # "idle", step = "completing" => r \in executed',
             executed' \in {executed, executed \cup {r}}, Filed', UNCHANGED <<req, reply>>
      PROVE  ResponsesAreReal'
  <2>1. pc'[r] = step /\ \A s \in Request \ {r} : pc'[s] = pc[s]
    BY <1>3 DEF Goto, TypeOK
  <2> QED BY <1>0, <1>3, <2>1 DEF ResponsesAreReal, NoPhantomSuccess
<1>4. ASSUME NEW r \in Request, ReadRow(r) PROVE ResponsesAreReal'
  <2> DEFINE found == row[req[r].key]
  <2>1. pc[r] = "reading" /\ req[r].key \in Key /\ UNCHANGED <<row, req, executed>> /\ Filed'
    BY <1>0, <1>4 DEF ReadRow
  <2>2. \A kind \in {"MISMATCH", "IN_PROGRESS"} :
          Answer(r, Refusal(kind)) => ResponsesAreReal'
    BY <1>2, <2>1, ReplyTypes DEF Refusal
  <2>3. found.status = "DONE" /\ Answer(r, [kind |-> "REPLAYED", body |-> found.body])
          => ResponsesAreReal'
    <3>1. ASSUME found.status = "DONE" PROVE found.body \in executed /\ req[found.body].key = req[r].key
      BY <1>0, <2>1, <3>1
    <3> QED BY <1>0, <1>2, <2>1, <3>1, ReplyTypes
  <2>4. Goto(r, "takingOver") /\ UNCHANGED reply => ResponsesAreReal'
    BY <1>3, <2>1
  <2> QED BY <1>4, <2>2, <2>3, <2>4 DEF ReadRow
<1>5. ASSUME NEW r \in Request, TakeOver(r) PROVE ResponsesAreReal'
  <2>1. pc[r] = "takingOver" /\ req[r].key \in Key /\ UNCHANGED <<req, executed>>
    BY <1>0, <1>5 DEF TakeOver
  <2>2. Filed'
    BY <1>0, <1>5 DEF TakeOver, TypeOK, Row, NoRow
  <2>3. Answer(r, Refusal("ERROR")) => ResponsesAreReal'
    BY <1>2, <2>1, <2>2, ReplyTypes DEF Refusal
  <2> QED BY <1>3, <1>5, <2>1, <2>2, <2>3 DEF TakeOver
<1>6. ASSUME NEW r \in Request, HandlerCommits(r) PROVE ResponsesAreReal'
  <2>1. Filed'
    BY <1>0, <1>6 DEF HandlerCommits
  <2> QED BY <1>3, <1>6, <2>1 DEF HandlerCommits
<1>7. ASSUME NEW r \in Request, HandlerFails(r) PROVE ResponsesAreReal'
  <2>1. Filed'
    BY <1>0, <1>7 DEF HandlerFails
  <2> QED BY <1>3, <1>7, <2>1 DEF HandlerFails
<1>8. ASSUME NEW r \in Request, Complete(r) PROVE ResponsesAreReal'
  <2>1. /\ pc[r] = "completing" /\ r \in executed /\ req[r].key \in Key
        /\ UNCHANGED <<req, executed>>
    BY <1>0, <1>8 DEF Complete, ResponsesAreReal
  <2>2. Filed'
    BY <1>0, <1>8, <2>1 DEF Complete, TypeOK, Row, NoRow
  <2>3. Answer(r, [kind |-> "OK", body |-> r]) => ResponsesAreReal'
    BY <1>2, <2>1, <2>2, ReplyTypes
  <2> QED BY <1>3, <1>8, <2>1, <2>2, <2>3 DEF Complete
<1>9. ASSUME NEW r \in Request, Release(r) PROVE ResponsesAreReal'
  <2>1. pc[r] = "releasing" /\ UNCHANGED <<req, executed>> /\ Answer(r, Refusal("ERROR"))
    BY <1>9 DEF Release
  <2>2. Filed'
    BY <1>0, <1>9 DEF Release, TypeOK, NoRow
  <2> QED BY <1>2, <2>1, <2>2, ReplyTypes DEF Refusal
<1>10. ASSUME Crash PROVE ResponsesAreReal'
  BY <1>0, <1>10 DEF Crash, TypeOK, ResponsesAreReal, NoPhantomSuccess
<1>11. ASSUME Filed', UNCHANGED <<pc, req, reply, executed>> PROVE ResponsesAreReal'
  BY <1>11 DEF ResponsesAreReal, NoPhantomSuccess
<1>12. ASSUME NEW k \in Key, Age(k) PROVE ResponsesAreReal'
  <2>1. Filed'
    BY <1>0, <1>12 DEF Age, TypeOK, Row, NoRow
  <2> QED BY <1>11, <1>12, <2>1 DEF Age
<1>13. ASSUME Cleanup PROVE ResponsesAreReal'
  <2>1. Filed'
    BY <1>0, <1>13 DEF Cleanup, NoRow
  <2> QED BY <1>11, <1>13, <2>1 DEF Cleanup
<1>14. CASE UNCHANGED vars
  BY <1>14 DEF vars, ResponsesAreReal, NoPhantomSuccess
<1> QED
  BY <1>1, <1>4, <1>5, <1>6, <1>7, <1>8, <1>9, <1>10, <1>12, <1>13, <1>14 DEF Next, Serve

LEMMA RealIsInvariant == Spec => [](TypeOK /\ ResponsesAreReal)
BY TypeCorrect, InitReal, StepReal, PTL DEF Spec

(* No fault, of the five and in any combination, makes the backend report  *)
(* success for an operation whose handler never committed.                 *)
THEOREM SuccessIsReal == Spec => []NoPhantomSuccess
<1>1. ResponsesAreReal => NoPhantomSuccess
  BY DEF ResponsesAreReal
<1> QED
  BY <1>1, RealIsInvariant, PTL
-----------------------------------------------------------------------------
(* Replays give back the response of the very same request.                *)

LEMMA InitFaithful == Init => ResponsesAreFaithful
BY DEF Init, ResponsesAreFaithful, FaithfulReplay, NoRow, NoReply

LEMMA StepFaithful ==
  TypeOK /\ TypeOK' /\ ClaimsOwnRows /\ ResponsesAreReal /\ ResponsesAreFaithful /\ [Next]_vars
    => ResponsesAreFaithful'
<1> SUFFICES ASSUME TypeOK, TypeOK', ClaimsOwnRows, ResponsesAreReal, ResponsesAreFaithful,
                    [Next]_vars
             PROVE  ResponsesAreFaithful'
  OBVIOUS
<1> DEFINE Filed == \A k \in Key :
             row[k].status = "DONE" =>
               /\ row[k].body \in executed
               /\ req[row[k].body] = [key |-> k, hash |-> row[k].hash]
<1>0. /\ executed \subseteq Request
      /\ \A r \in executed : pc[r] # "idle"
      /\ \A r \in Request : pc[r] # "idle" => req[r] \in [key: Key, hash: Hash]
      /\ \A r \in Request : reply[r].kind # "NONE" => pc[r] = "answered"
      /\ FaithfulReplay
  BY DEF TypeOK, ResponsesAreReal, ResponsesAreFaithful
<1>1. Filed
  BY <1>0 DEF ResponsesAreReal, ResponsesAreFaithful
<1>2. ASSUME Filed', FaithfulReplay' PROVE ResponsesAreFaithful'
  <2>1. ASSUME NEW k \in Key, row'[k].status = "DONE"
        PROVE  req'[row'[k].body].hash = row'[k].hash
    <3>1. req'[row'[k].body] = [key |-> k, hash |-> row'[k].hash]
      BY <1>2, <2>1
    <3> QED BY <3>1
  <2> QED BY <1>2, <2>1 DEF ResponsesAreFaithful
<1>3. ASSUME NEW r \in Request, NEW k \in Key, NEW h \in Hash, Begin(r, k, h)
      PROVE  ResponsesAreFaithful'
  <2>1. /\ pc[r] = "idle" /\ r \notin executed /\ UNCHANGED <<reply, executed>>
        /\ reply[r].kind = "NONE"
        /\ \A s \in Request \ {r} : req'[s] = req[s]
    BY <1>0, <1>3 DEF Begin, TypeOK
  <2>2. \A q \in Key : row'[q].status = "DONE" => row'[q] = row[q]
    BY <1>3 DEF Begin, TypeOK
  <2>3. Filed'
    BY <1>0, <1>1, <2>1, <2>2
  <2>4. FaithfulReplay'
    BY <1>0, <2>1 DEF FaithfulReplay
  <2> QED BY <1>2, <2>3, <2>4
<1>4. ASSUME NEW r \in Request, NEW a \in Reply, Answer(r, a), Filed',
             UNCHANGED <<req, executed>>,
             a.kind = "REPLAYED" => a.body \in executed /\ req[a.body] = req[r]
      PROVE  ResponsesAreFaithful'
  <2>1. reply'[r] = a /\ \A s \in Request \ {r} : reply'[s] = reply[s]
    BY <1>4 DEF Answer, TypeOK
  <2>2. \A s \in Request :
          reply[s].kind = "REPLAYED" => reply[s].body \in executed /\ req[reply[s].body] = req[s]
    BY <1>0 DEF FaithfulReplay
  <2>3. FaithfulReplay'
    <3> SUFFICES ASSUME NEW s \in Request, reply'[s].kind = "REPLAYED"
                 PROVE  reply'[s].body \in executed /\ req[reply'[s].body] = req[s]
      BY <1>4 DEF FaithfulReplay
    <3>1. CASE s = r
      BY <1>4, <2>1, <3>1
    <3>2. CASE s # r
      BY <2>1, <2>2, <3>2
    <3> QED BY <3>1, <3>2
  <2> QED BY <1>2, <1>4, <2>3
<1>5. ASSUME Filed', UNCHANGED <<req, reply>>, executed \subseteq executed'
      PROVE  ResponsesAreFaithful'
  <2>1. FaithfulReplay'
    BY <1>0, <1>5 DEF FaithfulReplay
  <2> QED BY <1>2, <1>5, <2>1
<1>6. ASSUME NEW r \in Request, ReadRow(r) PROVE ResponsesAreFaithful'
  <2> DEFINE found == row[req[r].key]
  <2>1. /\ req[r] \in [key: Key, hash: Hash] /\ UNCHANGED <<row, req, executed>>
        /\ Filed'
    BY <1>0, <1>1, <1>6 DEF ReadRow
  <2>2. \A kind \in {"MISMATCH", "IN_PROGRESS"} :
          Answer(r, Refusal(kind)) => ResponsesAreFaithful'
    BY <1>4, <2>1, ReplyTypes DEF Refusal
  <2>3. ASSUME found.hash = req[r].hash, found.status = "DONE",
               Answer(r, [kind |-> "REPLAYED", body |-> found.body])
        PROVE  ResponsesAreFaithful'
    <3> DEFINE a == [kind |-> "REPLAYED", body |-> found.body]
    <3>1. found.body \in executed /\ req[found.body] = req[r]
      BY <1>1, <2>1, <2>3
    <3>2. a \in Reply
      BY <1>0, <3>1, ReplyTypes
    <3>3. a.body = found.body
      OBVIOUS
    <3> HIDE DEF a
    <3>4. Answer(r, a)
      BY <2>3 DEF a
    <3> QED BY <1>4, <2>1, <3>1, <3>2, <3>3, <3>4
  <2>4. UNCHANGED reply => ResponsesAreFaithful'
    BY <1>5, <2>1
  <2> QED BY <1>6, <2>2, <2>3, <2>4 DEF ReadRow
<1>7. ASSUME NEW r \in Request, TakeOver(r) PROVE ResponsesAreFaithful'
  BY <1>7 DEF TakeOver, ClaimsOwnRows
<1>8. ASSUME NEW r \in Request, HandlerCommits(r) \/ HandlerFails(r)
      PROVE  ResponsesAreFaithful'
  <2>1. Filed'
    BY <1>1, <1>8 DEF HandlerCommits, HandlerFails
  <2> QED BY <1>5, <1>8, <2>1 DEF HandlerCommits, HandlerFails
<1>9. ASSUME NEW r \in Request, Complete(r) PROVE ResponsesAreFaithful'
  <2>1. /\ req[r] \in [key: Key, hash: Hash] /\ r \in executed
        /\ row[req[r].key].hash = req[r].hash /\ row[req[r].key] # NoRow
        /\ UNCHANGED <<req, executed>>
    BY <1>0, <1>9 DEF Complete, ResponsesAreReal, ClaimsOwnRows, Claiming, NoRow
  <2>2. CASE /\ row' = [row EXCEPT ![req[r].key].status = "DONE", ![req[r].key].body = r]
             /\ Answer(r, [kind |-> "OK", body |-> r])
    <3>1. \A q \in Key : q # req[r].key => row'[q] = row[q]
      BY <2>2 DEF TypeOK
    <3>2. row'[req[r].key].body = r /\ row'[req[r].key].hash = req[r].hash
      <4>1. row[req[r].key] \in Row
        BY <2>1 DEF TypeOK
      <4>2. LET new == [row[req[r].key] EXCEPT !.status = "DONE", !.body = r] IN
            new.body = r /\ new.hash = row[req[r].key].hash
        BY <4>1 DEF Row
      <4> QED BY <2>1, <2>2, <4>1, <4>2 DEF TypeOK
    <3>3. Filed'
      <4> SUFFICES ASSUME NEW q \in Key, row'[q].status = "DONE"
                   PROVE  row'[q].body \in executed
                          /\ req[row'[q].body] = [key |-> q, hash |-> row'[q].hash]
        BY <2>1
      <4>1. CASE q = req[r].key
        BY <2>1, <3>2, <4>1
      <4>2. CASE q # req[r].key
        BY <1>1, <3>1, <4>2
      <4> QED BY <4>1, <4>2
    <3> QED BY <1>4, <2>1, <2>2, <3>3, ReplyTypes
  <2>3. CASE UNCHANGED <<row, reply>>
    BY <1>1, <1>5, <2>1, <2>3
  <2> QED BY <1>9, <2>2, <2>3 DEF Complete
<1>10. ASSUME NEW r \in Request, Release(r) PROVE ResponsesAreFaithful'
  <2>1. Filed'
    BY <1>1, <1>10 DEF Release, TypeOK, NoRow
  <2> QED BY <1>4, <1>10, <2>1, ReplyTypes DEF Release, Refusal
<1>11. ASSUME Crash PROVE ResponsesAreFaithful'
  <2>1. Filed'
    BY <1>1, <1>11 DEF Crash
  <2> QED BY <1>5, <1>11, <2>1 DEF Crash
<1>12. ASSUME NEW k \in Key, Age(k) PROVE ResponsesAreFaithful'
  <2>1. Filed'
    BY <1>1, <1>12 DEF Age, TypeOK, Row, NoRow
  <2> QED BY <1>5, <1>12, <2>1 DEF Age
<1>13. ASSUME Cleanup PROVE ResponsesAreFaithful'
  <2>1. Filed'
    BY <1>1, <1>13 DEF Cleanup, NoRow
  <2> QED BY <1>5, <1>13, <2>1 DEF Cleanup
<1>14. CASE UNCHANGED vars
  BY <1>1, <1>5, <1>14 DEF vars
<1> QED
  BY <1>3, <1>6, <1>7, <1>8, <1>9, <1>10, <1>11, <1>12, <1>13, <1>14 DEF Next, Serve

LEMMA RecoverableInvariant ==
  ASSUME Faults \subseteq {"complete", "ttl"}
  PROVE  Spec => [](TypeOK /\ ClaimsOwnRows /\ ResponsesAreReal /\ ResponsesAreFaithful)
BY TypeCorrect, RealIsInvariant, InitClaims, StepClaims, InitFaithful, StepFaithful, PTL DEF Spec

(* While no claim is orphaned, a replayed response is the response of a    *)
(* committed execution of the same request, key and hash.                  *)
THEOREM ReplaysAreFaithful ==
  ASSUME Faults \subseteq {"complete", "ttl"}
  PROVE  Spec => []FaithfulReplay
<1>1. ResponsesAreFaithful => FaithfulReplay
  BY DEF ResponsesAreFaithful
<1> QED
  BY <1>1, RecoverableInvariant, PTL
-----------------------------------------------------------------------------
(* Without faults a key's operation takes effect at most once.             *)

LEMMA InitHeld == Init => ExecutionsAreHeld
BY DEF Init, ExecutionsAreHeld, NoRow

LEMMA StepHeld ==
  ASSUME Faults = {}, TypeOK, TypeOK', ClaimsOwnRows, ResponsesAreReal, ExecutionsAreHeld,
         [Next]_vars
  PROVE  ExecutionsAreHeld'
<1> DEFINE Held(s) == \/ pc[s] = "completing"
                      \/ /\ pc[s] = "answered"
                         /\ row[req[s].key].status = "DONE"
                         /\ row[req[s].key].body = s
           Young == \A k \in Key : row[k].age # "expired"
<1>0. /\ executed \subseteq Request
      /\ \A r \in Request : pc[r] # "idle" => req[r] \in [key: Key, hash: Hash]
      /\ Young
      /\ \A s \in executed : Held(s)
  BY DEF TypeOK, ExecutionsAreHeld
<1>1. \A r, s \in Request :
        pc[r] \in Claiming /\ pc[s] \in Claiming /\ req[r].key = req[s].key => r = s
  BY ClaimsExclude DEF ExclusiveClaim
<1>2. \A r \in Request :
        pc[r] \in Claiming => row[req[r].key].status = "IN_PROGRESS" /\ row[req[r].key] # NoRow
  BY DEF ClaimsOwnRows, NoRow
<1>3. ASSUME Young', \A s \in executed' : Held(s)' PROVE ExecutionsAreHeld'
  BY <1>3 DEF ExecutionsAreHeld
<1>4. ASSUME NEW r \in Request, NEW k \in Key, NEW h \in Hash, Begin(r, k, h)
      PROVE  ExecutionsAreHeld'
  <2>1. /\ pc[r] = "idle" /\ r \notin executed /\ UNCHANGED executed
        /\ \A s \in Request \ {r} : pc'[s] = pc[s] /\ req'[s] = req[s]
    BY <1>0, <1>4 DEF Begin, Goto, TypeOK
  <2>2. /\ \A q \in Key : row'[q].age \in {row[q].age, "fresh"}
        /\ \A q \in Key : row[q] # NoRow => row'[q] = row[q]
    BY <1>4 DEF Begin, TypeOK
  <2>3. \A s \in executed : row[req[s].key] # NoRow /\ req[s].key \in Key
    BY <1>0, <1>2 DEF Claiming, NoRow
  <2>4. Young'
    BY <1>0, <2>2
  <2>5. ASSUME NEW s \in executed PROVE Held(s)'
    BY <1>0, <2>1, <2>2, <2>3
  <2> QED BY <1>3, <2>1, <2>4, <2>5
<1>5. ASSUME NEW r \in Request, r \notin executed, UNCHANGED <<row, req, executed>>,
             \A s \in Request \ {r} : pc'[s] = pc[s]
      PROVE  ExecutionsAreHeld'
  <2>1. Young'
    BY <1>0, <1>5
  <2>2. \A s \in executed : Held(s)'
    BY <1>0, <1>5
  <2> QED BY <1>3, <1>5, <2>1, <2>2
<1>6. ASSUME NEW r \in Request, ReadRow(r) PROVE ExecutionsAreHeld'
  <2>1. r \notin executed
    BY <1>0, <1>6 DEF ReadRow
  <2>2. UNCHANGED <<row, req, executed>> /\ \A s \in Request \ {r} : pc'[s] = pc[s]
    BY <1>6 DEF ReadRow, Answer, Goto, TypeOK
  <2> QED BY <1>5, <2>1, <2>2
<1>7. ASSUME NEW r \in Request, TakeOver(r) PROVE ExecutionsAreHeld'
  BY <1>7 DEF TakeOver, ClaimsOwnRows
<1>8. ASSUME NEW r \in Request, HandlerCommits(r) PROVE ExecutionsAreHeld'
  <2>1. /\ pc'[r] = "completing" /\ executed' = executed \cup {r} /\ UNCHANGED <<row, req>>
        /\ \A s \in Request \ {r} : pc'[s] = pc[s]
    BY <1>8 DEF HandlerCommits, Goto, TypeOK
  <2>2. Young'
    BY <1>0, <2>1
  <2>3. ASSUME NEW s \in executed' PROVE Held(s)'
    BY <1>0, <2>1
  <2> QED BY <1>3, <2>2, <2>3
<1>9. ASSUME NEW r \in Request, HandlerFails(r) PROVE ExecutionsAreHeld'
  <2>1. r \notin executed
    BY <1>0, <1>9 DEF HandlerFails
  <2>2. UNCHANGED <<row, req, executed>> /\ \A s \in Request \ {r} : pc'[s] = pc[s]
    BY <1>9 DEF HandlerFails, Goto, TypeOK
  <2> QED BY <1>5, <2>1, <2>2
<1>10. ASSUME NEW r \in Request, Complete(r) PROVE ExecutionsAreHeld'
  <2> DEFINE k == req[r].key
  <2>1. pc[r] = "completing" /\ r \in executed /\ k \in Key /\ row[k] \in Row
    <3>1. pc[r] = "completing" /\ r \in executed /\ k \in Key
      BY <1>0, <1>10 DEF Complete, ResponsesAreReal
    <3>2. row[k] # NoRow
      BY <1>2, <3>1 DEF Claiming
    <3> QED BY <3>1, <3>2 DEF TypeOK
  <2>2. /\ row' = [row EXCEPT ![k].status = "DONE", ![k].body = r]
        /\ pc' = [pc EXCEPT ![r] = "answered"] /\ UNCHANGED <<req, executed>>
    BY <1>2, <1>10, <2>1 DEF Complete, Answer, Goto, Claiming
  <2>3. /\ \A q \in Key : q # k => row'[q] = row[q]
        /\ row'[k].status = "DONE" /\ row'[k].body = r /\ row'[k].age = row[k].age
    <3>1. LET new == [row[k] EXCEPT !.status = "DONE", !.body = r] IN
          new.status = "DONE" /\ new.body = r /\ new.age = row[k].age
      BY <2>1 DEF Row
    <3> QED BY <2>1, <2>2, <3>1 DEF TypeOK
  <2>4. pc'[r] = "answered" /\ \A s \in Request \ {r} : pc'[s] = pc[s]
    BY <2>2 DEF TypeOK
  <2>5. Young'
    BY <1>0, <2>3
  <2>6. ASSUME NEW s \in executed PROVE Held(s)'
    <3>1. CASE s = r
      BY <2>2, <2>3, <2>4, <3>1
    <3>2. CASE s # r /\ pc[s] = "completing"
      BY <1>0, <2>4, <3>2
    <3>3. CASE s # r /\ pc[s] # "completing"
      <4>1. pc[s] = "answered" /\ row[req[s].key].status = "DONE" /\ req[s].key # k
        BY <1>0, <1>2, <2>1, <3>3 DEF Claiming
      <4>2. req[s].key \in Key /\ row'[req[s].key] = row[req[s].key]
        BY <1>0, <2>3, <4>1
      <4> QED BY <1>0, <2>2, <2>4, <3>3, <4>1, <4>2
    <3> QED BY <3>1, <3>2, <3>3
  <2> QED BY <1>3, <2>2, <2>5, <2>6
<1>11. ASSUME NEW r \in Request, Release(r) PROVE ExecutionsAreHeld'
  <2> DEFINE k == req[r].key
  <2>1. pc[r] = "releasing" /\ r \notin executed /\ k \in Key /\ UNCHANGED <<req, executed>>
    BY <1>0, <1>11 DEF Release
  <2>2. /\ row'[k] = NoRow /\ \A q \in Key : q # k => row'[q] = row[q]
        /\ \A s \in Request \ {r} : pc'[s] = pc[s]
    BY <1>11, <2>1 DEF Release, Answer, Goto, TypeOK
  <2>3. Young'
    BY <1>0, <2>2 DEF NoRow
  <2>4. ASSUME NEW s \in executed PROVE Held(s)'
    <3>1. pc[s] = "answered" => req[s].key \in Key \ {k}
      BY <1>0, <1>2, <2>1 DEF Claiming
    <3> QED BY <1>0, <2>1, <2>2, <3>1
  <2> QED BY <1>3, <2>1, <2>3, <2>4
<1>12. ASSUME Crash PROVE ExecutionsAreHeld'
  BY <1>12 DEF Crash
<1>13. ASSUME NEW k \in Key, Age(k) PROVE ExecutionsAreHeld'
  <2>1. /\ row[k].age = "fresh" /\ row' = [row EXCEPT ![k].age = "stale"] /\ row[k] \in Row
        /\ UNCHANGED <<pc, req, executed>>
    BY <1>13 DEF Age, TypeOK
  <2>2. /\ row'[k].age = "stale" /\ row'[k].status = row[k].status /\ row'[k].body = row[k].body
        /\ \A q \in Key : q # k => row'[q] = row[q]
    BY <2>1 DEF TypeOK, Row
  <2>3. Young'
    BY <1>0, <2>2
  <2>4. ASSUME NEW s \in executed PROVE Held(s)'
    BY <1>0, <2>1, <2>2
  <2> QED BY <1>3, <2>1, <2>3, <2>4
<1>14. ASSUME Cleanup PROVE ExecutionsAreHeld'
  BY <1>0, <1>14 DEF Cleanup
<1>15. CASE UNCHANGED vars
  BY <1>15 DEF vars, ExecutionsAreHeld
<1> QED
  BY <1>4, <1>6, <1>7, <1>8, <1>9, <1>10, <1>11, <1>12, <1>13, <1>14, <1>15 DEF Next, Serve

LEMMA HeldExcludes ==
  TypeOK /\ ClaimsOwnRows /\ ExecutionsAreHeld => AtMostOnce
<1> SUFFICES ASSUME TypeOK, ClaimsOwnRows, ExecutionsAreHeld,
                    NEW r \in executed, NEW s \in executed, req[r].key = req[s].key
             PROVE  r = s
  BY DEF AtMostOnce
<1>1. r \in Request /\ s \in Request
  BY DEF TypeOK
<1>2. \A q \in Request : pc[q] \in Claiming => row[req[q].key].status = "IN_PROGRESS"
  BY DEF ClaimsOwnRows
<1> QED BY <1>1, <1>2, ClaimsExclude DEF ExecutionsAreHeld, ExclusiveClaim, Claiming

LEMMA FaultlessInvariant ==
  ASSUME Faults = {}
  PROVE  Spec => [](/\ TypeOK /\ ClaimsOwnRows /\ ResponsesAreReal
                    /\ ResponsesAreFaithful /\ ExecutionsAreHeld)
<1>1. Faults \subseteq {"complete", "ttl"}
  OBVIOUS
<1>2. Spec => [](TypeOK /\ ClaimsOwnRows /\ ResponsesAreReal /\ ResponsesAreFaithful)
  BY <1>1, RecoverableInvariant
<1> QED
  BY <1>2, InitHeld, StepHeld, PTL DEF Spec

(* Without faults, however many requests race and retry under a key, at    *)
(* most one of their handlers commits.                                     *)
THEOREM EffectsAtMostOnce ==
  ASSUME Faults = {}
  PROVE  Spec => []AtMostOnce
BY FaultlessInvariant, HeldExcludes, PTL

(* Without faults, the key of an acknowledged request holds its response   *)
(* under its hash, so a retry is replayed and never executed.              *)
THEOREM AcknowledgementsAreRecorded ==
  ASSUME Faults = {}
  PROVE  Spec => []AcknowledgedIsRecorded
<1>1. ASSUME TypeOK, ResponsesAreReal, ResponsesAreFaithful, ExecutionsAreHeld
      PROVE  AcknowledgedIsRecorded
  <2> SUFFICES ASSUME NEW r \in Request, reply[r].kind = "OK"
               PROVE  /\ row[req[r].key].status = "DONE"
                      /\ row[req[r].key].body = r
                      /\ row[req[r].key].hash = req[r].hash
    BY DEF AcknowledgedIsRecorded
  <2>1. pc[r] = "answered" /\ r \in executed
    BY <1>1 DEF ResponsesAreReal, NoPhantomSuccess
  <2>2. row[req[r].key].status = "DONE" /\ row[req[r].key].body = r /\ req[r].key \in Key
    BY <1>1, <2>1 DEF ExecutionsAreHeld, TypeOK
  <2>3. row[req[r].key].hash = req[r].hash
    BY <1>1, <2>2 DEF ResponsesAreFaithful
  <2> QED BY <2>2, <2>3
<1> QED
  BY <1>1, FaultlessInvariant, PTL
-----------------------------------------------------------------------------
(* Without faults the protocol implements ReplaySafety.  The outcome of a  *)
(* key is its only executed request, so each step that commits or answers  *)
(* is a step of the promise, and the others stutter.                       *)

Faultless ==
  /\ TypeOK /\ ClaimsOwnRows /\ ResponsesAreReal /\ ResponsesAreFaithful /\ ExecutionsAreHeld
  /\ AtMostOnce

Answers == [r \in Request |-> AnswerOf(r)]

LEMMA OutcomeIsExecuted ==
  ASSUME Faultless
  PROVE  /\ \A r \in executed : r \in Request /\ req[r].key \in Key /\ Outcome[req[r].key] = r
         /\ \A k \in Key : Outcome[k] \in executed \cup {None}
         /\ \A k \in Key : (\A r \in executed : req[r].key # k) => Outcome[k] = None
<1>1. \A r \in executed : r \in Request /\ pc[r] # "idle"
  BY DEF Faultless, TypeOK, ResponsesAreReal
<1>2. \A r \in executed : req[r].key \in Key
  BY <1>1 DEF Faultless, TypeOK
<1>3. \A r, s \in executed : req[r].key = req[s].key => r = s
  BY DEF Faultless, AtMostOnce
<1>4. \A r \in executed : Outcome[req[r].key] = r
  BY <1>2, <1>3 DEF Outcome
<1>5. \A k \in Key : Outcome[k] \in executed \cup {None}
  BY DEF Outcome
<1>6. \A k \in Key : (\A r \in executed : req[r].key # k) => Outcome[k] = None
  BY DEF Outcome
<1> QED BY <1>1, <1>2, <1>4, <1>5, <1>6

(* Who is still at work, or was refused, did not take effect; while a key is claimed and its *)
(* handler runs, nothing took effect under it.                                               *)
LEMMA UnexecutedHasNoOutcome ==
  ASSUME Faultless, NEW r \in Request, pc[r] \notin {"idle", "completing", "answered"}
  PROVE  req[r].key \in Key /\ Outcome[req[r].key] # r /\ r \notin executed
<1>1. r \notin executed /\ req[r].key \in Key
  BY DEF Faultless, ExecutionsAreHeld, TypeOK
<1> QED BY <1>1, OutcomeIsExecuted, NoneAssumption

LEMMA RunningHasNoOutcome ==
  ASSUME Faultless, NEW r \in Request, pc[r] = "running"
  PROVE  Outcome[req[r].key] = None
<1>1. req[r].key \in Key /\ row[req[r].key].status = "IN_PROGRESS"
  BY DEF Faultless, TypeOK, ClaimsOwnRows, Claiming
<1>2. ASSUME NEW s \in executed, req[s].key = req[r].key PROVE FALSE
  <2>1. s \in Request /\ pc[s] = "completing"
    BY <1>1, <1>2, OutcomeIsExecuted DEF Faultless, ExecutionsAreHeld
  <2>2. ExclusiveClaim
    BY ClaimsExclude DEF Faultless
  <2> QED BY <1>2, <2>1, <2>2 DEF ExclusiveClaim, Claiming
<1> QED BY <1>1, <1>2, OutcomeIsExecuted

LEMMA SentIs ==
  ASSUME TypeOK, NEW r \in Request, pc[r] # "idle"
  PROVE  Sent[r] = req[r] /\ Sent[r] # None /\ Sent[r].key \in Key
  BY NotSentAssumption DEF TypeOK, Sent

LEMMA WaitingIs ==
  ASSUME ResponsesAreReal, TypeOK, NEW r \in Request, pc[r] # "answered"
  PROVE  Answers[r] = "waiting"
<1>1. reply[r].kind = "NONE"
  BY DEF ResponsesAreReal
<1> QED BY <1>1 DEF Answers, AnswerOf

LEMMA SentStays ==
  ASSUME UNCHANGED req, \A s \in Request : pc'[s] = "idle" <=> pc[s] = "idle"
  PROVE  Sent' = Sent
  BY DEF Sent

LEMMA OutcomeStays ==
  ASSUME UNCHANGED <<req, executed>>
  PROVE  Outcome' = Outcome
  BY DEF Outcome

LEMMA AnswersStay ==
  ASSUME UNCHANGED reply
  PROVE  Answers' = Answers
  BY DEF Answers, AnswerOf

(* An answer of the interceptor is the answer of the promise. *)
LEMMA AnswerGiven ==
  ASSUME TypeOK, NEW r \in Request, NEW a \in Reply, Answer(r, a), pc[r] # "idle", UNCHANGED <<req, executed>>
  PROVE  /\ Sent' = Sent /\ Outcome' = Outcome
         /\ a.kind = "OK" => Answers' = [Answers EXCEPT ![r] = "done"]
         /\ a.kind = "REPLAYED" => Answers' = [Answers EXCEPT ![r] = "replayed"]
         /\ a.kind \in {"MISMATCH", "IN_PROGRESS", "ERROR"} => Answers' = [Answers EXCEPT ![r] = "refused"]
<1>1. \A s \in Request : pc'[s] = "idle" <=> pc[s] = "idle"
  BY DEF Answer, Goto, TypeOK
<1>2. reply'[r] = a /\ \A s \in Request \ {r} : reply'[s] = reply[s]
  BY DEF Answer, TypeOK
<1> QED BY <1>1, <1>2, SentStays, OutcomeStays DEF Answers, AnswerOf

LEMMA InitPromise == Init => Promise!Init
BY DEF Init, Promise!Init, Sent, Outcome, AnswerOf, NoReply

LEMMA StepPromise ==
  ASSUME Faults = {}, Faultless, TypeOK', [Next]_vars
  PROVE  [Promise!Next]_(Promise!vars)
<1> DEFINE Still == UNCHANGED <<Sent, Outcome, Answers>>
<1>0. /\ Still => UNCHANGED Promise!vars
      /\ TypeOK /\ ClaimsOwnRows /\ ResponsesAreReal /\ ResponsesAreFaithful
  BY DEF Promise!vars, Answers, Faultless
<1>1. ASSUME NEW r \in Request, NEW k \in Key, NEW h \in Hash, Begin(r, k, h)
      PROVE  Promise!Send(r, k, h)
  <2>1. pc[r] = "idle" /\ r \notin executed /\ UNCHANGED <<reply, executed>>
    BY <1>0, <1>1 DEF Begin, ResponsesAreReal
  <2>2. /\ req' = [req EXCEPT ![r] = [key |-> k, hash |-> h]]
        /\ pc'[r] # "idle" /\ \A s \in Request \ {r} : pc'[s] = pc[s]
    BY <1>0, <1>1 DEF Begin, Goto, TypeOK
  <2>3. req'[r] = [key |-> k, hash |-> h] /\ \A s \in Request \ {r} : req'[s] = req[s]
    BY <1>0, <2>2 DEF TypeOK
  <2>4. Sent[r] = None /\ Sent' = [Sent EXCEPT ![r] = [key |-> k, hash |-> h]]
    BY <2>1, <2>2, <2>3 DEF Sent
  <2>5. \A s \in executed : req'[s] = req[s]
    BY <1>0, <2>1, <2>3 DEF TypeOK
  <2>6. Outcome' = Outcome
    BY <2>1, <2>5 DEF Outcome
  <2>7. Answers' = Answers
    BY <2>1, AnswersStay
  <2> QED BY <2>4, <2>6, <2>7 DEF Promise!Send, Answers
<1>2. ASSUME NEW r \in Request, pc[r] \in {"reading", "releasing"},
             NEW kind \in {"MISMATCH", "IN_PROGRESS", "ERROR"}, Answer(r, Refusal(kind)),
             UNCHANGED <<req, executed>>
      PROVE  Promise!Refuse(r)
  <2>1. Refusal(kind) \in Reply /\ Refusal(kind).kind = kind
    BY ReplyTypes DEF Refusal
  <2>2. Sent' = Sent /\ Outcome' = Outcome /\ Answers' = [Answers EXCEPT ![r] = "refused"]
    BY <1>0, <1>2, <2>1, AnswerGiven
  <2>3. Sent[r] = req[r] /\ Sent[r] # None /\ Answers[r] = "waiting"
    BY <1>0, <1>2, SentIs, WaitingIs
  <2>4. Outcome[req[r].key] # r
    BY <1>2, UnexecutedHasNoOutcome
  <2> QED BY <2>2, <2>3, <2>4 DEF Promise!Refuse, Answers
<1>3. ASSUME NEW r \in Request, ReadRow(r) PROVE Promise!Refuse(r) \/ Promise!Replay(r)
  <2> DEFINE found == row[req[r].key]
  <2>1. pc[r] = "reading" /\ UNCHANGED <<row, req, executed>> /\ req[r] \in [key: Key, hash: Hash]
    BY <1>0, <1>3 DEF ReadRow, TypeOK
  <2>2. found.status = "IN_PROGRESS" => found.age = "fresh"
    BY <1>0, <2>1 DEF ClaimsOwnRows
  <2>3. \/ Answer(r, Refusal("IN_PROGRESS"))
        \/ Answer(r, Refusal("MISMATCH"))
        \/ /\ found.hash = req[r].hash /\ found.status = "DONE"
           /\ Answer(r, [kind |-> "REPLAYED", body |-> found.body])
    BY <1>3, <2>2 DEF ReadRow
  <2>4. CASE Answer(r, Refusal("IN_PROGRESS")) \/ Answer(r, Refusal("MISMATCH"))
    BY <1>2, <2>1, <2>4
  <2>5. CASE /\ found.hash = req[r].hash /\ found.status = "DONE"
             /\ Answer(r, [kind |-> "REPLAYED", body |-> found.body])
    <3> DEFINE a == [kind |-> "REPLAYED", body |-> found.body]
    <3>1. found.body \in executed /\ req[found.body].key = req[r].key /\ req[found.body].hash = req[r].hash
      BY <1>0, <2>1, <2>5 DEF ResponsesAreReal, ResponsesAreFaithful
    <3>2. found.body \in Request /\ pc[found.body] # "idle" /\ found.body # r
      BY <1>0, <2>1, <3>1, OutcomeIsExecuted, UnexecutedHasNoOutcome DEF ResponsesAreReal
    <3>3. req[found.body] = req[r]
      <4>1. req[found.body] \in [key: Key, hash: Hash]
        BY <1>0, <3>2 DEF TypeOK
      <4> QED BY <2>1, <3>1, <4>1
    <3>4. a \in Reply /\ a.kind = "REPLAYED"
      BY <3>2, ReplyTypes
    <3>5. Sent' = Sent /\ Outcome' = Outcome /\ Answers' = [Answers EXCEPT ![r] = "replayed"]
      <4>1. Answer(r, a)
        BY <2>5
      <4> HIDE DEF a
      <4> QED BY <1>0, <2>1, <3>4, <4>1, AnswerGiven
    <3>6. Sent[r] = req[r] /\ Sent[found.body] = req[found.body] /\ Sent[r] # None /\ Answers[r] = "waiting"
      BY <1>0, <2>1, <3>2, SentIs, WaitingIs
    <3>7. Outcome[req[r].key] = found.body
      BY <3>1, OutcomeIsExecuted
    <3>8. \E s \in Request \ {r} : Outcome[Sent[r].key] = s /\ Sent[s] = Sent[r]
      BY <3>2, <3>3, <3>6, <3>7
    <3> QED BY <3>5, <3>6, <3>8 DEF Promise!Replay, Answers
  <2> QED BY <2>3, <2>4, <2>5
<1>4. ASSUME NEW r \in Request, TakeOver(r) PROVE FALSE
  BY <1>0, <1>4 DEF TakeOver, ClaimsOwnRows
<1>5. ASSUME NEW r \in Request, HandlerCommits(r) PROVE Promise!TakeEffect(r)
  <2>1. pc[r] = "running" /\ executed' = executed \cup {r} /\ UNCHANGED <<row, req, seen, reply>>
    BY <1>5 DEF HandlerCommits
  <2>2. \A s \in Request : pc'[s] = "idle" <=> pc[s] = "idle"
    BY <1>0, <1>5, <2>1 DEF HandlerCommits, Goto, TypeOK
  <2>3. Sent' = Sent /\ Answers' = Answers
    BY <2>1, <2>2, SentStays, AnswersStay
  <2>4. Sent[r] = req[r] /\ Sent[r] # None /\ Answers[r] = "waiting"
    BY <1>0, <2>1, SentIs, WaitingIs
  <2>5. Outcome[req[r].key] = None /\ req[r].key \in Key
    BY <2>1, RunningHasNoOutcome, UnexecutedHasNoOutcome
  <2>6. \A s \in executed : req[s].key # req[r].key
    BY <2>5, OutcomeIsExecuted, NoneAssumption DEF TypeOK
  <2>7. Outcome' = [Outcome EXCEPT ![req[r].key] = r]
    <3>1. ASSUME NEW k \in Key PROVE Outcome'[k] = IF k = req[r].key THEN r ELSE Outcome[k]
      <4>1. CASE k = req[r].key
        BY <2>1, <2>6, <4>1 DEF Outcome
      <4>2. CASE k # req[r].key
        <5>1. \A s : s \in executed' /\ req[s].key = k <=> s \in executed /\ req[s].key = k
          BY <2>1, <4>2
        <5>2. Outcome'[k] = IF \E s \in executed : req[s].key = k
                            THEN CHOOSE s \in executed : req[s].key = k ELSE None
          BY <2>1, <5>1 DEF Outcome
        <5> QED BY <4>2, <5>2 DEF Outcome
      <4> QED BY <4>1, <4>2
    <3> QED BY <3>1 DEF Outcome
  <2> QED BY <2>3, <2>4, <2>5, <2>7 DEF Promise!TakeEffect, Answers
<1>6. ASSUME NEW r \in Request, HandlerFails(r) PROVE Still
  <2>1. \A s \in Request : pc'[s] = "idle" <=> pc[s] = "idle"
    BY <1>0, <1>6 DEF HandlerFails, Goto, TypeOK
  <2> QED BY <1>6, <2>1, SentStays, OutcomeStays, AnswersStay DEF HandlerFails
<1>7. ASSUME NEW r \in Request, Complete(r) PROVE Promise!Acknowledge(r)
  <2>1. pc[r] = "completing" /\ UNCHANGED <<req, executed>> /\ req[r].key \in Key /\ r \in executed
    BY <1>0, <1>7 DEF Complete, TypeOK, ResponsesAreReal
  <2>2. row[req[r].key] # NoRow
    BY <1>0, <2>1 DEF ClaimsOwnRows, Claiming, NoRow
  <2>3. Answer(r, [kind |-> "OK", body |-> r])
    BY <1>7, <2>2 DEF Complete
  <2>4. Sent' = Sent /\ Outcome' = Outcome /\ Answers' = [Answers EXCEPT ![r] = "done"]
    BY <1>0, <2>1, <2>3, ReplyTypes, AnswerGiven
  <2>5. Sent[r] = req[r] /\ Sent[r] # None /\ Answers[r] = "waiting"
    BY <1>0, <2>1, SentIs, WaitingIs
  <2>6. Outcome[req[r].key] = r
    BY <2>1, OutcomeIsExecuted
  <2> QED BY <2>4, <2>5, <2>6 DEF Promise!Acknowledge, Answers
<1>8. ASSUME NEW r \in Request, Release(r) PROVE Promise!Refuse(r)
  BY <1>2, <1>8 DEF Release
<1>9. ASSUME Crash PROVE FALSE
  BY <1>9 DEF Crash
<1>10. CASE (\E k \in Key : Age(k)) \/ Cleanup \/ UNCHANGED vars
  <2>1. UNCHANGED <<pc, req, reply, executed>>
    BY <1>10 DEF Age, Cleanup, vars
  <2>2. Still
    BY <2>1, SentStays, OutcomeStays, AnswersStay
  <2> QED BY <1>0, <2>2
<1> HIDE DEF Still
<1> QED BY <1>0, <1>1, <1>3, <1>4, <1>5, <1>6, <1>7, <1>8, <1>9, <1>10 DEF Next, Serve, Promise!Next

(* Without faults the interceptor over the store implements the promise of ADR-016 section 3: every  *)
(* step takes the operation behind a key to its one effect, acknowledges it, replays it to the same  *)
(* request, refuses a request that did not take effect, or changes nothing the phone can tell.       *)
THEOREM PromiseIsKept ==
  ASSUME Faults = {}
  PROVE  Spec => ImplementsReplaySafety
<1>1. TypeOK /\ ClaimsOwnRows /\ ResponsesAreReal /\ ResponsesAreFaithful /\ ExecutionsAreHeld => Faultless
  BY HeldExcludes DEF Faultless
<1>2. Faultless => TypeOK
  BY DEF Faultless
<1>3. Spec => [](TypeOK /\ Faultless)
  BY <1>1, <1>2, FaultlessInvariant, PTL
<1>4. TypeOK /\ Faultless /\ (TypeOK /\ Faultless)' /\ [Next]_vars => [Promise!Next]_(Promise!vars)
  BY StepPromise
<1> QED BY <1>3, <1>4, InitPromise, PTL DEF Spec, ImplementsReplaySafety, Promise!Spec
=============================================================================
