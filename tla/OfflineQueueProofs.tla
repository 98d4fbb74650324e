-------------------------- MODULE OfflineQueueProofs --------------------------
(***************************************************************************)
(* Theorems about the operation queue of the phone, for any number of work *)
(* orders, operations, retries, failures and changes by dispatchers.       *)
(***************************************************************************)
EXTENDS OfflineQueue, FiniteSetTheorems, WellFoundedInduction, TLAPS

-----------------------------------------------------------------------------
(* The choices the drain and the server make *)

LEMMA NatLeast == \A S \in SUBSET Nat : S # {} => \E i \in S : \A j \in S : i <= j
<1> SUFFICES ASSUME NEW S \in SUBSET Nat, S # {} PROVE \E i \in S : \A j \in S : i <= j
  OBVIOUS
<1> DEFINE T == {0..i : i \in S}
<1>1. T \subseteq FiniteSubsetsOf(Nat) /\ T # {}
  <2>1. \A i \in S : 0..i \subseteq Nat /\ IsFiniteSet(0..i)
    BY FS_Interval
  <2> QED BY <2>1 DEF FiniteSubsetsOf
<1>2. \E x \in T : \A y \in T : ~ (<<y, x>> \in StrictSubsetOrdering(Nat))
  <2> HIDE DEF T
  <2> QED BY <1>1, FS_StrictSubsetOrderingWellFounded, WFMin
<1>3. PICK i \in S : \A j \in S : ~ (<<0..j, 0..i>> \in StrictSubsetOrdering(Nat))
  BY <1>2
<1>4. ASSUME NEW j \in S, j < i PROVE FALSE
  <2>1. 0..j \subseteq 0..i /\ i \in 0..i /\ i \notin 0..j
    BY <1>4
  <2>2. 0..j \in SUBSET Nat /\ 0..i \in SUBSET Nat /\ 0..j # 0..i
    BY <2>1
  <2>3. <<0..j, 0..i>> \in StrictSubsetOrdering(Nat)
    BY <2>1, <2>2 DEF StrictSubsetOrdering
  <2> QED BY <1>3, <2>3
<1> QED BY <1>4

(* The next operation of a drain is one of them, and no other comes before it. *)
LEMMA LeastIsFirst ==
  ASSUME NEW S \in SUBSET Nat, S # {}
  PROVE  Least(S) \in S /\ \A j \in S : Least(S) <= j
BY NatLeast DEF Least

(* The updatedAt of the work orders stay below some instant, so one of them is the latest. *)
Bounded == \E b \in Nat : \A w \in WorkOrder : version[w] <= b

LEMMA ClockIsLatest ==
  ASSUME version \in [WorkOrder -> Nat], Bounded, WorkOrder # {}
  PROVE  /\ Clock \in Nat
         /\ \E w \in WorkOrder : version[w] = Clock
         /\ \A w \in WorkOrder : version[w] <= Clock
<1> DEFINE S == {b \in Nat : \A w \in WorkOrder : version[w] <= b}
<1>1. PICK b \in S : \A c \in S : b <= c
  BY NatLeast DEF Bounded
<1>2. PICK w \in WorkOrder : version[w] = b
  <2> SUFFICES ASSUME \A w \in WorkOrder : version[w] # b PROVE FALSE
    OBVIOUS
  <2>1. \A w \in WorkOrder : version[w] <= b - 1 /\ b - 1 \in Nat
    BY <1>1
  <2>2. b - 1 \in S
    BY <2>1
  <2> QED BY <1>1, <2>2
<1>3. b \in {version[v] : v \in WorkOrder} /\ \A v \in WorkOrder : version[v] <= b
  BY <1>1, <1>2
<1>4. Clock \in {version[v] : v \in WorkOrder} /\ \A v \in WorkOrder : version[v] <= Clock
  BY <1>3 DEF Clock
<1> QED BY <1>4

(* A request gets a number that tells it from those of its operation under way. *)
LEMMA FreshNumber ==
  ASSUME IsFiniteSet(net), NEW i
  PROVE  /\ Cardinality(net) \in Nat
         /\ (CHOOSE m \in 1..(Cardinality(net) + 1) : \A q \in net : q.op # i \/ q.n # m)
              \in 1..(Cardinality(net) + 1)
<1> DEFINE M == 1..(Cardinality(net) + 1)
<1>1. Cardinality(net) \in Nat
  BY FS_CardinalityType
<1>2. \E m \in M : \A q \in net : q.op # i \/ q.n # m
  <2> SUFFICES ASSUME \A m \in M : \E q \in net : q.op = i /\ q.n = m PROVE FALSE
    OBVIOUS
  <2> DEFINE f == [m \in M |-> CHOOSE q \in net : q.op = i /\ q.n = m]
  <2>1. f \in [M -> net] /\ \A m \in M : f[m].n = m
    OBVIOUS
  <2>2. IsFiniteSet(M) /\ Cardinality(net) < Cardinality(M)
    <3>1. /\ IsFiniteSet(M)
          /\ Cardinality(M) = IF 1 > Cardinality(net) + 1 THEN 0 ELSE (Cardinality(net) + 1) - 1 + 1
      BY <1>1, FS_Interval
    <3> QED BY <1>1, <3>1
  <2>3. \E x, y \in M : x # y /\ f[x] = f[y]
    <3> HIDE DEF f, M
    <3> QED BY <2>1, <2>2, FS_PigeonHole
  <2> QED BY <2>1, <2>3
<1> QED BY <1>1, <1>2

-----------------------------------------------------------------------------
(* Types *)

Row == {NoOp} \cup [kind : Kinds, wo : WorkOrder, status : Queued \cup {"GONE"},
                   attempts : 0..MAX_ADDITIVE_RETRIES]

Busy == drainer.at \in {"waiting", "settling", "pulling", "retrying"}

QueueType == queue \in [Op -> Row]

PullRecord == [at : {"none", "asked", "applying"}, since : Nat, rows : [WorkOrder -> Nat], cursor : Nat]

PhoneType ==
  /\ local \in [WorkOrder -> Nat] /\ cursor \in Nat /\ uploaded \subseteq Op
  /\ pulls \in [Puller -> PullRecord]

DrainType ==
  /\ drainer \in [at : {"idle", "picking", "waiting", "settling", "pulling", "retrying", "closing"},
                  op : Nat, n : Nat, tries : 0..MAX_ADDITIVE_RETRIES, todo : SUBSET Op,
                  blocked : SUBSET WorkOrder]
  /\ Busy => drainer.op \in Op

KeyRow == [state : {"ABSENT", "IN_PROGRESS", "STALE", "DONE"}, expected : Nat, version : Nat]

ServerType ==
  /\ version \in [WorkOrder -> Nat] /\ Bounded
  /\ keyRow \in [Op -> KeyRow]
  /\ applied \in [Op -> Nat]

Reply == [kind : {"none", "ok", "conflict", "refused", "unavailable", "inProgress"}, version : Nat]

NetType == net \subseteq Request /\ IsFiniteSet(net) /\ reply \in Reply

HistoryType ==
  /\ gone \subseteq Op /\ conflicts \in [Op -> 0..MAX_ADDITIVE_RETRIES]
  /\ unguarded \subseteq Op /\ putBack \subseteq WorkOrder

BudgetType == budget \in [failures : 0..MaxFailures, ages : 0..MaxAges, touches : 0..MaxTouches,
                          retries : 0..MaxRetries, pulls : 0..MaxPulls]

(* Operations are queued in the order of their seq, and whatever the drain or the server holds was
   queued before: seqs are never given twice. *)
Used(i) == Status(i) # "UNUSED"

InUse ==
  /\ \A i, j \in Op : i < j /\ Used(j) => Used(i)
  /\ \A j \in drainer.todo : Used(j)
  /\ Busy => Used(drainer.op)
  /\ \A q \in net : Used(q.op)
  /\ \A j \in Op : applied[j] > 0 => Used(j)

Typed == QueueType /\ PhoneType /\ DrainType /\ ServerType /\ NetType /\ HistoryType /\ BudgetType /\ InUse

LEMMA TypedIsTypeOK == Typed => TypeOK
BY DEF Typed, QueueType, PhoneType, PullRecord, DrainType, ServerType, NetType, HistoryType, BudgetType, TypeOK, Row,
       KeyRow, Reply, Busy

-----------------------------------------------------------------------------
(* What the parts of the actions do *)

LEMMA RowFacts ==
  ASSUME QueueType, NEW i \in Op, Used(i)
  PROVE  /\ Kind(i) \in Kinds /\ Wo(i) \in WorkOrder /\ Status(i) \in Queued \cup {"GONE"}
         /\ queue[i].attempts \in 0..MAX_ADDITIVE_RETRIES
BY DEF QueueType, Row, NoOp, Used, Kind, Wo, Status

LEMMA UnusedRow ==
  ASSUME QueueType, NEW i \in Op, ~Used(i)
  PROVE  queue[i] = NoOp
BY DEF QueueType, Row, NoOp, Used, Status, Queued

(* Kinds, work orders and use of the operations stay as they are. *)
SameOps == \A j \in Op : Kind(j)' = Kind(j) /\ Wo(j)' = Wo(j) /\ (Used(j)' <=> Used(j))

LEMMA QueueUnchanged ==
  ASSUME UNCHANGED queue
  PROVE  SameOps /\ \A j \in Op : Status(j)' = Status(j)
BY DEF SameOps, Kind, Wo, Used, Status

LEMMA SetOpStatusRows ==
  ASSUME QueueType, NEW i \in Op, NEW status \in Queued, NEW attempts \in 0..MAX_ADDITIVE_RETRIES,
         SetOpStatus(i, status, attempts)
  PROVE  /\ QueueType' /\ SameOps
         /\ \A j \in Op : /\ Status(j)' = IF j = i /\ Status(i) \in Queued THEN status ELSE Status(j)
                          /\ queue'[j].attempts = IF j = i /\ Status(i) \in Queued THEN attempts ELSE queue[j].attempts
<1>1. CASE Status(i) \in Queued /\ queue' = [queue EXCEPT ![i].status = status, ![i].attempts = attempts]
  <2>1. queue[i] \in [kind : Kinds, wo : WorkOrder, status : Queued \cup {"GONE"}, attempts : 0..MAX_ADDITIVE_RETRIES]
    BY <1>1 DEF QueueType, Row, NoOp, Status, Queued
  <2>2. queue'[i] = [kind |-> queue[i].kind, wo |-> queue[i].wo, status |-> status, attempts |-> attempts]
    BY <1>1, <2>1 DEF QueueType
  <2>3. QueueType' /\ \A j \in Op \ {i} : queue'[j] = queue[j]
    BY <1>1, <2>1, <2>2 DEF QueueType, Row
  <2>4. Used(i)' /\ Used(i)
    BY <1>1, <2>2 DEF Used, Status, Queued
  <2>5. SameOps
    BY <2>2, <2>3, <2>4 DEF SameOps, Kind, Wo, Status, Used
  <2>6. ASSUME NEW j \in Op
        PROVE  /\ Status(j)' = IF j = i THEN status ELSE Status(j)
               /\ queue'[j].attempts = IF j = i THEN attempts ELSE queue[j].attempts
    BY <2>2, <2>3 DEF Status
  <2> QED BY <1>1, <2>3, <2>5, <2>6
<1>2. CASE Status(i) \notin Queued /\ queue' = queue
  BY <1>2 DEF QueueType, SameOps, Kind, Wo, Status, Used
<1> QED BY <1>1, <1>2 DEF SetOpStatus

LEMMA DeleteOpRows ==
  ASSUME QueueType, NEW i \in Op, Used(i), DeleteOp(i)
  PROVE  /\ QueueType' /\ SameOps
         /\ \A j \in Op : /\ Status(j)' = IF j = i THEN "GONE" ELSE Status(j)
                          /\ queue'[j].attempts = queue[j].attempts
<1>1. queue[i] \in [kind : Kinds, wo : WorkOrder, status : Queued \cup {"GONE"}, attempts : 0..MAX_ADDITIVE_RETRIES]
  BY DEF QueueType, Row, NoOp, Status, Used
<1>2. queue'[i] = [kind |-> queue[i].kind, wo |-> queue[i].wo, status |-> "GONE", attempts |-> queue[i].attempts]
  BY <1>1 DEF QueueType, DeleteOp
<1>3. QueueType' /\ \A j \in Op \ {i} : queue'[j] = queue[j]
  BY <1>1, <1>2 DEF QueueType, Row, DeleteOp
<1> QED BY <1>2, <1>3 DEF SameOps, Kind, Wo, Status, Used

LEMMA NoPullType == NoPull \in PullRecord /\ {"drain", "background"} = Puller
BY DEF NoPull, PullRecord, Puller

(* A pull that ends. *)
LEMMA StoreCursorTypes ==
  ASSUME PhoneType, NEW p \in Puller, StoreCursor(p)
  PROVE  cursor' \in Nat /\ pulls' \in [Puller -> PullRecord]
BY NoPullType DEF PhoneType, PullRecord, StoreCursor

(* A pull on its way writes to the work orders and to its own page. *)
LEMMA PullStepTypes ==
  ASSUME PhoneType, ServerType, BudgetType, HistoryType, NEW p \in Puller, PullStep(p)
  PROVE  /\ PhoneType' /\ BudgetType' /\ HistoryType'
         /\ UNCHANGED <<queue, cursor, drainer, uploaded, server, net, reply, gone, conflicts, unguarded>>
         /\ putBack \subseteq putBack'
         /\ budget' = budget \/ Spend("pulls")
<1>1. CASE AskPage(p)
  <2>1. [pulls[p] EXCEPT !.at = "asked", !.since = cursor] \in PullRecord
    BY DEF PhoneType, PullRecord
  <2>2. pulls' = [pulls EXCEPT ![p] = [pulls[p] EXCEPT !.at = "asked", !.since = cursor]]
    BY <1>1 DEF AskPage, PhoneType, PullRecord
  <2>3. BudgetType'
    BY <1>1, BoundsAssumption DEF AskPage, BudgetType, Spend
  <2> QED BY <1>1, <2>1, <2>2, <2>3 DEF AskPage, PhoneType, HistoryType, history
<1>2. CASE ServePage(p)
  <2>1. Clock \in Nat
    BY ClockIsLatest, WorkOrderAssumption DEF ServerType
  <2> DEFINE page == [w \in WorkOrder |-> IF version[w] > pulls[p].since THEN version[w] ELSE 0]
  <2>2. page \in [WorkOrder -> Nat]
    BY DEF ServerType
  <2>3. pulls' = [pulls EXCEPT ![p] = [at |-> "applying", since |-> 0, cursor |-> Clock, rows |-> page]]
    BY <1>2 DEF ServePage
  <2> HIDE DEF page
  <2>4. [at |-> "applying", since |-> 0, cursor |-> Clock, rows |-> page] \in PullRecord
    BY <2>1, <2>2 DEF PullRecord
  <2> QED BY <1>2, <2>3, <2>4 DEF ServePage, PhoneType, BudgetType, HistoryType, history
<1>3. ASSUME NEW w \in WorkOrder, UpsertRow(p, w)
      PROVE  /\ PhoneType' /\ BudgetType' /\ HistoryType'
             /\ UNCHANGED <<queue, cursor, drainer, uploaded, server, net, reply, gone, conflicts, unguarded, budget>>
             /\ putBack \subseteq putBack'
  <2>1. pulls[p] \in PullRecord /\ pulls[p].rows \in [WorkOrder -> Nat] /\ pulls[p].rows[w] \in Nat
    BY DEF PhoneType, PullRecord
  <2>2. [pulls[p] EXCEPT !.rows = [@ EXCEPT ![w] = 0]] \in PullRecord
    BY <2>1 DEF PullRecord
  <2>3. pulls' = [pulls EXCEPT ![p] = [pulls[p] EXCEPT !.rows = [@ EXCEPT ![w] = 0]]]
    BY <1>3, <2>1 DEF UpsertRow, PhoneType, PullRecord
  <2>4. local' \in [WorkOrder -> Nat] /\ putBack \subseteq putBack' /\ putBack' \subseteq WorkOrder
    BY <1>3, <2>1 DEF UpsertRow, PhoneType, HistoryType
  <2>5. UNCHANGED <<queue, cursor, drainer, uploaded, server, net, reply, gone, conflicts, unguarded, budget>>
    BY <1>3 DEF UpsertRow
  <2> QED BY <2>2, <2>3, <2>4, <2>5 DEF PhoneType, BudgetType, HistoryType
<1> QED BY <1>1, <1>2, <1>3 DEF PullStep, AskPage, ServePage, history

LEMMA AnswerTypes ==
  ASSUME NetType, NEW q \in net, NEW v \in Nat,
         NEW kind \in {"ok", "conflict", "refused", "unavailable", "inProgress"}, Answer(q, kind, v)
  PROVE  NetType' /\ net' \subseteq net
<1>1. IsFiniteSet(net \ {q})
  BY FS_RemoveElement DEF NetType
<1>2. [kind |-> kind, version |-> v] \in Reply
  BY DEF Reply
<1> QED BY <1>1, <1>2 DEF NetType, Answer

LEMMA SpendTypes ==
  ASSUME BudgetType, NEW what \in {"failures", "ages", "touches", "retries", "pulls"}, Spend(what)
  PROVE  BudgetType'
BY BoundsAssumption DEF BudgetType, Spend

LEMMA CappedType == \A n \in Nat : Capped(n) \in 0..MAX_ADDITIVE_RETRIES
BY RetriesAssumption DEF Capped

-----------------------------------------------------------------------------
(* Every step keeps the types *)

LEMMA InitTyped == Init => Typed
<1> SUFFICES ASSUME Init PROVE Typed
  OBVIOUS
<1>1. QueueType /\ PhoneType /\ HistoryType /\ BudgetType
  BY BoundsAssumption, RetriesAssumption, NoPullType DEF Init, QueueType, Row, PhoneType, HistoryType, BudgetType
<1>2. DrainType /\ ~Busy /\ drainer.todo = {}
  BY RetriesAssumption DEF Init, DrainType, Idle, Busy
<1>3. Bounded
  <2>1. \A w \in WorkOrder : version[w] <= 1
    BY DEF Init
  <2> QED BY <2>1 DEF Bounded
<1>4. NoRow \in KeyRow /\ NoReply \in Reply
  BY DEF NoRow, KeyRow, NoReply, Reply, Unlocked
<1>5. ServerType /\ NetType
  BY <1>3, <1>4, FS_EmptySet DEF Init, ServerType, NetType
<1>6. InUse
  BY <1>2 DEF Init, InUse, Used, Status, NoOp
<1> QED BY <1>1, <1>2, <1>5, <1>6 DEF Typed

(* A step that leaves seqs, drain, requests and effects alone leaves them in use. *)
LEMMA SameInUse ==
  ASSUME Typed, SameOps, drainer'.todo \subseteq drainer.todo, drainer'.todo \subseteq Op,
         Busy' => Busy /\ drainer'.op = drainer.op, DrainType', net' \subseteq net, UNCHANGED applied
  PROVE  InUse'
<1>1. \A q \in net : q.op \in Op
  BY DEF Typed, NetType, Request
<1>2. Busy => drainer.op \in Op
  BY DEF Typed, DrainType
<1> QED BY <1>1, <1>2 DEF Typed, InUse, SameOps

LEMMA UserTyped ==
  ASSUME Typed, UserStep
  PROVE  Typed'
<1>1. ASSUME NEW i \in Op, NEW w \in WorkOrder, NEW k \in Kinds, Enqueue(i, w, k) PROVE Typed'
  <2>1. [kind |-> k, wo |-> w, status |-> "PENDING", attempts |-> 0] \in Row
    BY RetriesAssumption DEF Row, Queued
  <2>2. QueueType'
    BY <1>1, <2>1 DEF Enqueue, QueueType, Typed
  <2>3. PhoneType' /\ DrainType' /\ ServerType' /\ NetType' /\ HistoryType' /\ BudgetType'
    BY <1>1 DEF Enqueue, server, history, PhoneType, DrainType, Busy, ServerType, Bounded, NetType, HistoryType, BudgetType,
                Typed
  <2>4. \A j \in Op : Used(j)' <=> Used(j) \/ j = i
    BY <1>1 DEF Enqueue, Used, Status, Typed, QueueType
  <2>5. InUse'
    <3>1. \A a, b \in Op : a < b /\ Used(b)' => Used(a)'
      <4> SUFFICES ASSUME NEW a \in Op, NEW b \in Op, a < b, Used(b)' PROVE Used(a)'
        OBVIOUS
      <4>1. CASE b = i
        BY <1>1, <2>4, <4>1 DEF Enqueue, Used
      <4>2. CASE Used(b)
        BY <2>4, <4>2 DEF InUse, Typed
      <4> QED BY <2>4, <4>1, <4>2
    <3>2. \A q \in net : q.op \in Op
      BY DEF Typed, NetType, Request
    <3>3. Busy => drainer.op \in Op
      BY DEF Typed, DrainType
    <3>4. drainer.todo \subseteq Op
      BY DEF Typed, DrainType
    <3> QED BY <1>1, <2>4, <3>1, <3>2, <3>3, <3>4 DEF Enqueue, server, InUse, Typed, Busy
  <2> QED BY <2>2, <2>3, <2>5 DEF Typed
<1>2. ASSUME NEW i \in Op, RetryOp(i) PROVE Typed'
  <2>1. QueueType' /\ SameOps
    BY <1>2, SetOpStatusRows, RetriesAssumption DEF RetryOp, Queued, Typed
  <2>2. HistoryType' /\ BudgetType'
    BY <1>2, SpendTypes, RetriesAssumption DEF RetryOp, HistoryType, Typed
  <2>3. PhoneType' /\ DrainType' /\ ServerType' /\ NetType' /\ UNCHANGED <<drainer, net, applied>>
    BY <1>2 DEF RetryOp, server, PhoneType, DrainType, Busy, ServerType, Bounded, NetType, Typed
  <2>4. InUse'
    BY <2>1, <2>3, SameInUse DEF Busy, Typed, DrainType
  <2> QED BY <2>1, <2>2, <2>3, <2>4 DEF Typed
<1>3. ASSUME NEW i \in Op, DiscardOp(i) PROVE Typed'
  <2>0. Used(i)
    BY <1>3 DEF DiscardOp, Used, Queued
  <2>1. QueueType' /\ SameOps
    BY <1>3, <2>0, DeleteOpRows DEF DiscardOp, Typed
  <2>2. HistoryType' /\ BudgetType'
    BY <1>3 DEF DiscardOp, HistoryType, BudgetType, Typed
  <2>3. PhoneType' /\ DrainType' /\ ServerType' /\ NetType' /\ UNCHANGED <<drainer, net, applied>>
    BY <1>3 DEF DiscardOp, server, PhoneType, DrainType, Busy, ServerType, Bounded, NetType, Typed
  <2>4. InUse'
    BY <2>1, <2>3, SameInUse DEF Busy, Typed, DrainType
  <2> QED BY <2>1, <2>2, <2>3, <2>4 DEF Typed
<1> QED BY <1>1, <1>2, <1>3 DEF UserStep

LEMMA StartDrainTyped ==
  ASSUME Typed, StartDrain
  PROVE  Typed' /\ SameOps
<1>1. QueueType' /\ SameOps
  <2>1. \A i \in Op : Status(i) = "IN_FLIGHT" => [queue[i] EXCEPT !.status = "PENDING"] \in Row
    BY DEF Typed, QueueType, Row, NoOp, Status, Queued
  <2>2. QueueType'
    BY <2>1 DEF StartDrain, Typed, QueueType
  <2>3. ASSUME NEW j \in Op PROVE Kind(j)' = Kind(j) /\ Wo(j)' = Wo(j) /\ (Used(j)' <=> Used(j))
    <3>1. CASE Status(j) = "IN_FLIGHT"
      <4>1. queue[j] \in [kind : Kinds, wo : WorkOrder, status : Queued \cup {"GONE"},
                          attempts : 0..MAX_ADDITIVE_RETRIES]
        BY <3>1 DEF Typed, QueueType, Row, NoOp, Status
      <4>2. queue'[j] = [kind |-> queue[j].kind, wo |-> queue[j].wo, status |-> "PENDING",
                         attempts |-> queue[j].attempts]
        BY <3>1, <4>1 DEF StartDrain
      <4> QED BY <3>1, <4>2 DEF Kind, Wo, Used, Status
    <3>2. CASE Status(j) # "IN_FLIGHT"
      BY <3>2 DEF StartDrain, Kind, Wo, Used, Status
    <3> QED BY <3>1, <3>2
  <2> QED BY <2>2, <2>3 DEF SameOps
<1>2. {Wo(i) : i \in {j \in Op : Blocks(j)}} \subseteq WorkOrder
  <2>1. \A j \in Op : Blocks(j) => Used(j)
    BY DEF Blocks, Used
  <2> QED BY <2>1, RowFacts DEF Typed
<1>3. /\ drainer' = [at |-> "picking", op |-> 0, n |-> 0, tries |-> 0,
                     todo |-> {i \in Op : Status(i) \in {"PENDING", "IN_FLIGHT"}},
                     blocked |-> {Wo(i) : i \in {j \in Op : Blocks(j)}}]
  BY DEF StartDrain, Idle
<1>4. DrainType' /\ ~Busy'
  BY <1>2, <1>3, RetriesAssumption DEF DrainType, Busy
<1>5. PhoneType' /\ ServerType' /\ NetType' /\ HistoryType' /\ BudgetType' /\ UNCHANGED <<net, applied>>
  BY DEF StartDrain, server, history, PhoneType, ServerType, Bounded, NetType, HistoryType, BudgetType, Typed
<1>6. InUse'
  <2>1. \A q \in net : q.op \in Op
    BY DEF Typed, NetType, Request
  <2>2. \A j \in drainer'.todo : j \in Op /\ Used(j)
    BY <1>3 DEF Used
  <2> QED BY <1>1, <1>4, <1>5, <2>1, <2>2 DEF InUse, Typed, SameOps
<1> QED BY <1>1, <1>4, <1>5, <1>6 DEF Typed

(* What sending an operation does. *)
LEMMA TransmitSteps ==
  ASSUME Typed, NEW i \in Op, Used(i), NEW tries \in 0..MAX_ADDITIVE_RETRIES, Transmit(i, tries)
  PROVE  /\ Typed' /\ SameOps
         /\ \A j \in Op : Status(j)' = IF j = i /\ Status(i) \in Queued THEN "IN_FLIGHT" ELSE Status(j)
         /\ drainer'.at = "waiting" /\ drainer'.op = i /\ drainer'.tries = tries
         /\ drainer'.todo = drainer.todo \ 1..i /\ drainer'.blocked = drainer.blocked
         /\ \/ /\ i \in uploaded /\ net' = net /\ reply'.kind = "refused"
            \/ /\ i \notin uploaded /\ reply' = NoReply
               /\ net' = net \cup {[op |-> i, n |-> drainer'.n, running |-> FALSE,
                                    expected |-> IF Kind(i) \in Locked THEN local[Wo(i)] ELSE Unlocked]}
         /\ UNCHANGED <<local, cursor, pulls, uploaded, server, history, budget>>
<1> DEFINE n == CHOOSE m \in 1..(Cardinality(net) + 1) : \A q \in net : q.op # i \/ q.n # m
           request == [op |-> i, n |-> n, running |-> FALSE,
                       expected |-> IF Kind(i) \in Locked THEN local[Wo(i)] ELSE Unlocked]
<1>1. n \in Nat
  BY FreshNumber DEF Typed, NetType
<1>2. request \in Request
  BY <1>1, RowFacts DEF Request, Unlocked, Typed, PhoneType
<1>3. /\ SetOpStatus(i, "IN_FLIGHT", tries)
      /\ IF i \in uploaded THEN reply' = [kind |-> "refused", version |-> 0] /\ UNCHANGED net
         ELSE net' = net \cup {request} /\ reply' = NoReply
      /\ drainer' = [drainer EXCEPT !.at = "waiting", !.op = i, !.n = n, !.tries = tries, !.todo = @ \ 1..i]
      /\ UNCHANGED <<local, cursor, pulls, uploaded, server, history, budget>>
  BY DEF Transmit
<1> HIDE DEF n, request
<1>4. /\ QueueType' /\ SameOps
      /\ \A j \in Op : Status(j)' = IF j = i /\ Status(i) \in Queued THEN "IN_FLIGHT" ELSE Status(j)
  BY <1>3, SetOpStatusRows DEF Typed, Queued
<1>5. /\ DrainType' /\ drainer'.at = "waiting" /\ drainer'.op = i /\ drainer'.tries = tries /\ drainer'.n = n
      /\ drainer'.todo = drainer.todo \ 1..i /\ drainer'.blocked = drainer.blocked
  <2>1. i \in Nat /\ drainer.todo \ 1..i \in SUBSET Op
    BY DEF Op, Typed, DrainType
  <2>2. drainer' = [at |-> "waiting", op |-> i, n |-> n, tries |-> tries, todo |-> drainer.todo \ 1..i,
                    blocked |-> drainer.blocked]
    BY <1>3 DEF Typed, DrainType
  <2> QED BY <1>1, <2>1, <2>2 DEF Typed, DrainType
<1>6. NetType' /\ net' \subseteq net \cup {request}
  <2>1. IsFiniteSet(net \cup {request})
    BY FS_AddElement DEF Typed, NetType
  <2>2. NoReply \in Reply /\ [kind |-> "refused", version |-> 0] \in Reply
    BY DEF NoReply, Reply
  <2> QED BY <1>2, <1>3, <2>1, <2>2 DEF Typed, NetType
<1>7. PhoneType' /\ ServerType' /\ HistoryType' /\ BudgetType'
  BY <1>3 DEF server, history, PhoneType, ServerType, Bounded, HistoryType, BudgetType, Typed
<1>8. InUse'
  <2>1. \A q \in net : q.op \in Op
    BY DEF Typed, NetType, Request
  <2>2. request.op = i /\ drainer'.todo \subseteq Op /\ drainer'.todo \subseteq drainer.todo
    BY <1>5 DEF Typed, DrainType, request
  <2>3. applied' = applied
    BY <1>3 DEF server
  <2> QED BY <1>4, <1>5, <1>6, <2>1, <2>2, <2>3 DEF InUse, Typed, SameOps, Busy
<1>9. Typed'
  BY <1>4, <1>5, <1>6, <1>7, <1>8 DEF Typed
<1>10. \/ i \in uploaded /\ net' = net /\ reply'.kind = "refused"
       \/ /\ i \notin uploaded /\ reply' = NoReply
          /\ net' = net \cup {[op |-> i, n |-> drainer'.n, running |-> FALSE,
                               expected |-> IF Kind(i) \in Locked THEN local[Wo(i)] ELSE Unlocked]}
  BY <1>3, <1>5 DEF request
<1> QED BY <1>3, <1>4, <1>5, <1>9, <1>10

(* SendNext and Resend say which operation goes. *)
LEMMA SendFacts ==
  ASSUME Typed, SendNext \/ Resend
  PROVE  \E i \in Op :
           /\ Used(i)
           /\ \/ /\ drainer.at = "picking" /\ i \in Sendable /\ \A j \in Sendable : i <= j
                 /\ Transmit(i, queue[i].attempts) /\ queue[i].attempts \in 0..MAX_ADDITIVE_RETRIES
              \/ /\ drainer.at = "retrying" /\ i = drainer.op
                 /\ Transmit(i, drainer.tries) /\ drainer.tries \in 0..MAX_ADDITIVE_RETRIES
<1>1. CASE SendNext
  <2>1. Sendable \subseteq drainer.todo /\ drainer.todo \subseteq Op
    BY DEF Sendable, Typed, DrainType
  <2>2. Sendable \in SUBSET Nat /\ Sendable # {}
    BY <1>1, <2>1 DEF SendNext, Op
  <2> DEFINE i == Least(Sendable)
  <2>3. i \in Sendable /\ \A j \in Sendable : i <= j
    BY <2>2, LeastIsFirst
  <2>4. i \in Op /\ Used(i)
    BY <2>1, <2>3 DEF Typed, InUse
  <2>5. drainer.at = "picking" /\ Transmit(i, queue[i].attempts)
    BY <1>1 DEF SendNext
  <2>6. queue[i].attempts \in 0..MAX_ADDITIVE_RETRIES
    BY <2>4, RowFacts DEF Typed
  <2> HIDE DEF i
  <2> QED BY <2>3, <2>4, <2>5, <2>6
<1>2. CASE Resend
  BY <1>2 DEF Resend, Typed, DrainType, InUse, Busy
<1> QED BY <1>1, <1>2

(* The steps that only move the drain, and perhaps a row, local and cursor. *)
LEMMA DrainerTyped ==
  ASSUME Typed, QueueType', SameOps, PhoneType', DrainType', BudgetType', HistoryType',
         drainer'.todo \subseteq drainer.todo, Busy' => Busy /\ drainer'.op = drainer.op,
         UNCHANGED <<server, net, reply>>
  PROVE  Typed'
<1>1. ServerType' /\ NetType' /\ UNCHANGED <<net, applied>>
  BY DEF server, Typed, ServerType, Bounded, NetType
<1>2. drainer'.todo \subseteq Op
  BY DEF DrainType
<1>3. InUse'
  BY <1>1, <1>2, SameInUse
<1> QED BY <1>1, <1>3 DEF Typed

(* A pull on its way, and one of the background task that ends. *)
LEMMA PullProgressTypes ==
  ASSUME Typed, PullStep("drain") \/ BackgroundPull \/ BackgroundPullFails
  PROVE  /\ PhoneType' /\ BudgetType' /\ HistoryType'
         /\ UNCHANGED <<queue, drainer, uploaded, server, net, reply, gone, conflicts, unguarded>>
         /\ putBack \subseteq putBack'
         /\ budget' = budget \/ Spend("pulls") \/ Spend("failures")
<1>1. ASSUME NEW p \in Puller, PullStep(p)
      PROVE  /\ PhoneType' /\ BudgetType' /\ HistoryType'
             /\ UNCHANGED <<queue, drainer, uploaded, server, net, reply, gone, conflicts, unguarded>>
             /\ putBack \subseteq putBack'
             /\ budget' = budget \/ Spend("pulls")
  BY <1>1, PullStepTypes DEF Typed
<1>2. CASE /\ StoreCursor("background")
           /\ UNCHANGED <<queue, local, drainer, uploaded, server, net, reply, history, budget>>
  <2>1. cursor' \in Nat /\ pulls' \in [Puller -> PullRecord]
    BY <1>2, NoPullType, StoreCursorTypes DEF Typed
  <2> QED BY <1>2, <2>1 DEF Typed, PhoneType, HistoryType, BudgetType, history
<1>3. CASE BackgroundPullFails
  <2>1. BudgetType'
    BY <1>3, SpendTypes DEF BackgroundPullFails, Typed
  <2>2. pulls' \in [Puller -> PullRecord]
    BY <1>3, NoPullType DEF BackgroundPullFails, Typed, PhoneType
  <2> QED BY <1>3, <2>1, <2>2 DEF BackgroundPullFails, Typed, PhoneType, HistoryType, history
<1> QED BY <1>1, <1>2, <1>3, NoPullType DEF BackgroundPull

LEMMA DrainTyped ==
  ASSUME Typed, DrainStep \/ TimeOut \/ Abort \/ BackgroundPull \/ BackgroundPullFails
  PROVE  Typed' /\ SameOps
<1>1. CASE SendNext \/ Resend
  BY <1>1, SendFacts, TransmitSteps
<1>2. CASE OnSuccess
  <2>1. drainer.op \in Op /\ Used(drainer.op)
    BY <1>2 DEF OnSuccess, Received, Typed, DrainType, InUse, Busy
  <2>2. local' \in [WorkOrder -> Nat] /\ uploaded' \subseteq Op
    BY <1>2, <2>1 DEF OnSuccess, Typed, PhoneType, NetType, Reply
  <2>3. /\ DrainType' /\ drainer'.todo = drainer.todo /\ drainer'.op = drainer.op
        /\ Busy
    BY <1>2 DEF OnSuccess, Received, Typed, DrainType, Busy
  <2>4. QueueType' /\ SameOps
    BY <1>2, QueueUnchanged DEF OnSuccess, Typed, QueueType
  <2> QED BY <1>2, <2>2, <2>3, <2>4, DrainerTyped
          DEF OnSuccess, history, Typed, PhoneType, HistoryType, BudgetType
<1>3. CASE Settle
  <2>1. drainer.op \in Op /\ Used(drainer.op)
    BY <1>3 DEF Settle, Typed, DrainType, InUse, Busy
  <2>2. QueueType' /\ SameOps
    BY <1>3, <2>1, DeleteOpRows DEF Settle, Typed
  <2>3. DrainType' /\ drainer'.todo = drainer.todo /\ ~Busy'
    BY <1>3 DEF Settle, Typed, DrainType, Busy
  <2> QED BY <1>3, <2>2, <2>3, DrainerTyped DEF Settle, history, Typed, PhoneType, HistoryType, BudgetType
<1>4. CASE OnLockConflict
  <2>1. drainer.op \in Op /\ Busy
    BY <1>4 DEF OnLockConflict, Received, Typed, DrainType, Busy
  <2>2. HistoryType'
    <3>1. Capped(conflicts[drainer.op] + 1) \in 0..MAX_ADDITIVE_RETRIES
      BY <2>1, CappedType DEF Typed, HistoryType
    <3> QED BY <1>4, <3>1 DEF OnLockConflict, Typed, HistoryType
  <2>3. DrainType' /\ drainer'.todo = drainer.todo /\ drainer'.op = drainer.op
    BY <1>4, <2>1 DEF OnLockConflict, Typed, DrainType, Busy
  <2>4. QueueType' /\ SameOps
    BY <1>4, QueueUnchanged DEF OnLockConflict, Typed, QueueType
  <2> QED BY <1>4, <2>1, <2>2, <2>3, <2>4, DrainerTyped DEF OnLockConflict, Typed, PhoneType, BudgetType
<1>5. CASE RetryAfterConflict
  <2>1. drainer.op \in Op /\ Busy
    BY <1>5 DEF RetryAfterConflict, Typed, DrainType, Busy
  <2>2. drainer.tries + 1 \in 0..MAX_ADDITIVE_RETRIES
    BY <1>5, RetriesAssumption DEF RetryAfterConflict, Typed, DrainType
  <2>3. DrainType' /\ drainer'.todo = drainer.todo /\ drainer'.op = drainer.op
    BY <1>5, <2>1, <2>2 DEF RetryAfterConflict, Typed, DrainType, Busy
  <2>4. QueueType' /\ SameOps
    BY <1>5, QueueUnchanged DEF RetryAfterConflict, Typed, QueueType
  <2>5. PhoneType'
    BY <1>5, StoreCursorTypes, NoPullType DEF RetryAfterConflict, Typed, PhoneType
  <2> QED BY <1>5, <2>1, <2>3, <2>4, <2>5, DrainerTyped
          DEF RetryAfterConflict, history, Typed, HistoryType, BudgetType
<1>6. CASE StopInConflict \/ OnRefused
  <2>1. drainer.op \in Op /\ Used(drainer.op) /\ drainer.tries \in Nat
    BY <1>6 DEF StopInConflict, OnRefused, Received, Typed, DrainType, InUse, Busy
  <2>2. Capped(drainer.tries + 1) \in 0..MAX_ADDITIVE_RETRIES /\ Wo(drainer.op) \in WorkOrder
    BY <2>1, CappedType, RowFacts DEF Typed
  <2>3. QueueType' /\ SameOps
    BY <1>6, <2>1, <2>2, SetOpStatusRows DEF StopInConflict, OnRefused, Queued, Typed
  <2>4. drainer.blocked \cup {Wo(drainer.op)} \subseteq WorkOrder
    BY <2>2 DEF Typed, DrainType
  <2>5. DrainType' /\ drainer'.todo = drainer.todo /\ ~Busy'
    BY <1>6, <2>4 DEF StopInConflict, OnRefused, Typed, DrainType, Busy
  <2>6. PhoneType'
    BY <1>6, StoreCursorTypes, NoPullType DEF StopInConflict, OnRefused, Typed, PhoneType
  <2> QED BY <1>6, <2>3, <2>5, <2>6, DrainerTyped
          DEF StopInConflict, OnRefused, history, Typed, HistoryType, BudgetType
<1>7. CASE OnUnavailable \/ TimeOut
  <2>1. drainer.op \in Op /\ Used(drainer.op) /\ drainer.tries \in Nat
    BY <1>7 DEF OnUnavailable, TimeOut, Received, Typed, DrainType, InUse, Busy
  <2>2. StopDraining /\ Capped(drainer.tries + 1) \in 0..MAX_ADDITIVE_RETRIES
    BY <1>7, <2>1, CappedType DEF OnUnavailable, TimeOut
  <2>3. QueueType' /\ SameOps
    BY <2>1, <2>2, SetOpStatusRows DEF StopDraining, Queued, Typed
  <2>4. DrainType' /\ drainer'.todo = drainer.todo /\ ~Busy'
    BY <2>2 DEF StopDraining, Typed, DrainType, Busy
  <2>5. BudgetType'
    BY <1>7, SpendTypes DEF OnUnavailable, TimeOut, Typed, BudgetType
  <2> QED BY <2>2, <2>3, <2>4, <2>5, DrainerTyped DEF StopDraining, history, Typed, PhoneType, HistoryType
<1>8. CASE FinishDrain
  <2>1. DrainType' /\ drainer'.todo = drainer.todo /\ ~Busy'
    BY <1>8 DEF FinishDrain, Typed, DrainType, Busy
  <2>2. QueueType' /\ SameOps
    BY <1>8, QueueUnchanged DEF FinishDrain, Typed, QueueType
  <2> QED BY <1>8, <2>1, <2>2, DrainerTyped DEF FinishDrain, history, Typed, PhoneType, HistoryType, BudgetType
<1>9. Idle \in [at : {"idle", "picking", "waiting", "settling", "pulling", "retrying", "closing"},
                op : Nat, n : Nat, tries : 0..MAX_ADDITIVE_RETRIES, todo : SUBSET Op, blocked : SUBSET WorkOrder]
      /\ Idle.at = "idle" /\ Idle.todo = {}
  BY RetriesAssumption DEF Idle
<1>10. CASE FinalPull \/ Abort
  <2>1. DrainType' /\ drainer'.todo = {} /\ ~Busy'
    BY <1>9, <1>10 DEF FinalPull, Abort, DrainType, Busy
  <2>2. QueueType' /\ SameOps
    BY <1>10, QueueUnchanged DEF FinalPull, Abort, Typed, QueueType
  <2>3. PhoneType'
    BY <1>10, StoreCursorTypes, NoPullType DEF FinalPull, Abort, Typed, PhoneType
  <2>4. BudgetType'
    BY <1>10, SpendTypes DEF FinalPull, Abort, Typed, BudgetType
  <2> QED BY <1>10, <2>1, <2>2, <2>3, <2>4, DrainerTyped
          DEF FinalPull, Abort, history, Typed, HistoryType
<1>11. CASE PullStep("drain") \/ BackgroundPull \/ BackgroundPullFails
  <2>1. PhoneType' /\ BudgetType' /\ HistoryType' /\ UNCHANGED <<queue, drainer, server, net, reply>>
    BY <1>11, PullProgressTypes
  <2>2. QueueType' /\ SameOps /\ DrainType' /\ (Busy' <=> Busy)
    BY <2>1, QueueUnchanged DEF Typed, QueueType, DrainType, Busy
  <2> QED BY <2>1, <2>2, DrainerTyped
<1> QED BY <1>1, <1>2, <1>3, <1>4, <1>5, <1>6, <1>7, <1>8, <1>10, <1>11 DEF DrainStep

LEMMA PhoneKept ==
  ASSUME Typed, UNCHANGED <<phone, gone, conflicts, putBack>>, unguarded' \subseteq Op
  PROVE  QueueType' /\ PhoneType' /\ DrainType' /\ HistoryType' /\ SameOps
BY QueueUnchanged DEF phone, Typed, QueueType, PhoneType, DrainType, Busy, HistoryType

LEMMA RequestFacts ==
  ASSUME Typed, NEW q \in net
  PROVE  /\ q.op \in Op /\ Used(q.op) /\ q.running \in BOOLEAN /\ q.expected \in Nat
         /\ q = [op |-> q.op, n |-> q.n, running |-> q.running, expected |-> q.expected]
         /\ Wo(q.op) \in WorkOrder
BY RowFacts DEF Typed, NetType, Request, InUse

(* A step of the server makes no request of an operation that was not queued. *)
LEMMA ServerInUse ==
  ASSUME Typed, UNCHANGED phone, \A r \in net' : \E s \in net : r.op = s.op,
         \A j \in Op : applied'[j] > 0 => applied[j] > 0 \/ Used(j)
  PROVE  InUse'
<1>1. drainer' = drainer /\ (Busy' <=> Busy) /\ \A j \in Op : Used(j)' <=> Used(j)
  BY DEF phone, Busy, Used, Status
<1>2. drainer.todo \subseteq Op /\ (Busy => drainer.op \in Op) /\ \A q \in net : q.op \in Op
  BY DEF Typed, DrainType, NetType, Request
<1> QED BY <1>1, <1>2 DEF Typed, InUse

(* An effect moves the instant on. *)
LEMMA ChangeSteps ==
  ASSUME Typed, NEW w \in WorkOrder, version' = [version EXCEPT ![w] = Clock + 1]
  PROVE  /\ version' \in [WorkOrder -> Nat] /\ Bounded' /\ Clock \in Nat /\ version'[w] = Clock + 1
         /\ \A v \in WorkOrder : v # w => version'[v] = version[v]
         /\ \A v \in WorkOrder : version[v] <= version'[v]
<1>1. Clock \in Nat /\ \A v \in WorkOrder : version[v] <= Clock
  BY ClockIsLatest, WorkOrderAssumption DEF Typed, ServerType
<1>2. \A v \in WorkOrder : version'[v] <= Clock + 1 /\ version[v] <= version'[v]
  BY <1>1 DEF Typed, ServerType
<1> QED BY <1>1, <1>2 DEF Bounded, Typed, ServerType

LEMMA TakeEffectSteps ==
  ASSUME Typed, NEW q \in net, TakeEffect(q)
  PROVE  /\ q.running /\ UpToDate(q)
         /\ version' \in [WorkOrder -> Nat] /\ Bounded' /\ Clock \in Nat /\ version'[Wo(q.op)] = Clock + 1
         /\ \A w \in WorkOrder : w # Wo(q.op) => version'[w] = version[w]
         /\ \A w \in WorkOrder : version[w] <= version'[w]
         /\ applied' \in [Op -> Nat] /\ applied'[q.op] = applied[q.op] + 1
         /\ \A j \in Op \ {q.op} : applied'[j] = applied[j]
<1>1. q.op \in Op /\ Wo(q.op) \in WorkOrder
  BY RequestFacts
<1>2. version' = [version EXCEPT ![Wo(q.op)] = Clock + 1] /\ applied' = [applied EXCEPT ![q.op] = @ + 1]
  BY DEF TakeEffect
<1>3. applied' \in [Op -> Nat] /\ applied'[q.op] = applied[q.op] + 1 /\ \A j \in Op \ {q.op} : applied'[j] = applied[j]
  BY <1>1, <1>2 DEF Typed, ServerType
<1>4. q.running /\ UpToDate(q)
  BY DEF TakeEffect
<1> QED BY <1>1, <1>2, <1>3, <1>4, ChangeSteps

(* The key's row after a step of the server. *)
LEMMA RowWritten ==
  ASSUME Typed, NEW i \in Op, NEW row \in KeyRow, keyRow' = [keyRow EXCEPT ![i] = row]
  PROVE  /\ keyRow' \in [Op -> KeyRow] /\ keyRow'[i] = row
         /\ \A j \in Op \ {i} : keyRow'[j] = keyRow[j]
BY DEF Typed, ServerType

LEMMA NoRowType == NoRow \in KeyRow /\ NoRow.state = "ABSENT"
BY DEF NoRow, KeyRow, Unlocked

(* The request the interceptor lets through. *)
Begun(q) ==
  LET r == [q EXCEPT !.running = TRUE] IN
  r \in Request /\ r.op = q.op /\ r.n = q.n /\ r.running = TRUE /\ r.expected = q.expected

Claims(q) ==
  /\ keyRow[q.op] = NoRow \/ keyRow[q.op].state = "STALE"
  /\ reply' = reply /\ net' = (net \ {q}) \cup {[q EXCEPT !.running = TRUE]} /\ Begun(q)
  /\ keyRow'[q.op] = [state |-> "IN_PROGRESS", expected |-> q.expected, version |-> 0]
  /\ \A j \in Op \ {q.op} : keyRow'[j] = keyRow[j]
  /\ unguarded' = IF Runs(q.op) THEN unguarded \cup {q.op} ELSE unguarded

Replays(q) ==
  /\ UNCHANGED <<keyRow, unguarded>>
  /\ \/ Answer(q, "refused", 0)
     \/ keyRow[q.op].state = "IN_PROGRESS" /\ Answer(q, "inProgress", 0)
     \/ keyRow[q.op].state = "DONE" /\ Answer(q, "ok", keyRow[q.op].version)

(* What begin() does: the key is claimed, or its row answers. *)
LEMMA AcceptSteps ==
  ASSUME Typed, NEW q \in net, Accept(q)
  PROVE  /\ ~q.running /\ UNCHANGED <<phone, gone, conflicts, putBack, version, applied, budget>>
         /\ keyRow' \in [Op -> KeyRow]
         /\ Claims(q) \/ Replays(q)
<1>1. ~q.running /\ UNCHANGED <<phone, gone, conflicts, putBack, version, applied, budget>>
  BY DEF Accept, Answer
<1>2. Begun(q) /\ q.op \in Op
  <2>1. q \in Request
    BY DEF Typed, NetType
  <2> QED BY <2>1 DEF Request, Begun
<1> DEFINE row == [state |-> "IN_PROGRESS", expected |-> q.expected, version |-> 0]
<1>3. CASE /\ keyRow[q.op] = NoRow \/ keyRow[q.op].state = "STALE"
           /\ reply' = reply /\ net' = (net \ {q}) \cup {[q EXCEPT !.running = TRUE]}
           /\ keyRow' = [keyRow EXCEPT ![q.op] = row]
           /\ unguarded' = IF Runs(q.op) THEN unguarded \cup {q.op} ELSE unguarded
  <2>1. row \in KeyRow
    BY RequestFacts DEF KeyRow
  <2> HIDE DEF row
  <2>2. keyRow' \in [Op -> KeyRow] /\ keyRow'[q.op] = row /\ \A j \in Op \ {q.op} : keyRow'[j] = keyRow[j]
    BY <1>2, <1>3, <2>1, RowWritten
  <2> QED BY <1>1, <1>2, <1>3, <2>2 DEF Claims, row
<1>4. CASE Replays(q)
  BY <1>1, <1>4 DEF Replays, Typed, ServerType
<1> QED BY <1>3, <1>4 DEF Accept, Replays

LEMMA CommitSteps ==
  ASSUME Typed, NEW q \in net, Commit(q)
  PROVE  /\ TakeEffect(q) /\ UNCHANGED <<phone, history, budget>>
         /\ Answer(q, "ok", Clock + 1)
         /\ keyRow[q.op] # NoRow /\ keyRow' \in [Op -> KeyRow]
         /\ keyRow'[q.op].state = "DONE" /\ keyRow'[q.op].version = Clock + 1
         /\ \A j \in Op \ {q.op} : keyRow'[j] = keyRow[j]
<1>1. TakeEffect(q) /\ UNCHANGED <<phone, history, budget>> /\ Answer(q, "ok", Clock + 1) /\ keyRow[q.op] # NoRow
  BY DEF Commit, Answer, history
<1>2. q.op \in Op /\ Clock \in Nat
  BY <1>1, TakeEffectSteps, RequestFacts
<1> DEFINE row == [keyRow[q.op] EXCEPT !.state = "DONE", !.version = Clock + 1]
<1>3. row \in KeyRow /\ row.state = "DONE" /\ row.version = Clock + 1
  <2>1. keyRow[q.op] \in KeyRow /\ Clock + 1 \in Nat
    BY <1>2 DEF Typed, ServerType
  <2> QED BY <2>1 DEF KeyRow
<1>4. keyRow' = [keyRow EXCEPT ![q.op] = row]
  BY DEF Commit
<1> HIDE DEF row
<1> QED BY <1>1, <1>2, <1>3, <1>4, RowWritten

LEMMA CommitUnrecordedSteps ==
  ASSUME Typed, NEW q \in net, CommitUnrecorded(q)
  PROVE  /\ TakeEffect(q) /\ UNCHANGED <<phone, gone, conflicts, putBack>>
         /\ Answer(q, "unavailable", 0) /\ unguarded' = unguarded \cup {q.op}
         /\ (keyRow[q.op] = NoRow /\ budget' = budget) \/ Spend("failures")
         /\ keyRow' \in [Op -> KeyRow] /\ keyRow'[q.op] \in {NoRow, keyRow[q.op]}
         /\ \A j \in Op \ {q.op} : keyRow'[j] = keyRow[j]
<1>1. keyRow' = [keyRow EXCEPT ![q.op] = NoRow] \/ keyRow' = keyRow
  BY DEF CommitUnrecorded, Release
<1>2. /\ keyRow' \in [Op -> KeyRow] /\ keyRow'[q.op] \in {NoRow, keyRow[q.op]}
      /\ \A j \in Op \ {q.op} : keyRow'[j] = keyRow[j]
  BY <1>1, NoRowType, RequestFacts, RowWritten DEF Typed, ServerType
<1> QED BY <1>2 DEF CommitUnrecorded, Answer

LEMMA RejectSteps ==
  ASSUME Typed, NEW q \in net, Reject(q)
  PROVE  /\ q.running /\ UNCHANGED <<phone, history, version, applied>>
         /\ \/ ~UpToDate(q) /\ Answer(q, "conflict", 0) /\ budget' = budget
            \/ Answer(q, "refused", 0) /\ budget' = budget
            \/ Answer(q, "unavailable", 0) /\ Spend("failures")
         /\ keyRow' \in [Op -> KeyRow] /\ keyRow'[q.op] \in {NoRow, keyRow[q.op]}
         /\ \A j \in Op \ {q.op} : keyRow'[j] = keyRow[j]
<1>1. keyRow' = [keyRow EXCEPT ![q.op] = NoRow] \/ keyRow' = keyRow
  BY DEF Reject, Release
<1>2. /\ keyRow' \in [Op -> KeyRow] /\ keyRow'[q.op] \in {NoRow, keyRow[q.op]}
      /\ \A j \in Op \ {q.op} : keyRow'[j] = keyRow[j]
  BY <1>1, NoRowType, RequestFacts, RowWritten DEF Typed, ServerType
<1> QED BY <1>2 DEF Reject, Answer, history

(* A claim grows stale, or a row is purged. *)
LEMMA AgeSteps ==
  ASSUME Typed, NEW i \in Op, GrowStale(i) \/ Purge(i)
  PROVE  /\ UNCHANGED <<phone, gone, conflicts, putBack, version, applied, net, reply>>
         /\ Spend("ages") \/ (~Runs(i) /\ keyRow[i].state = "IN_PROGRESS" /\ UNCHANGED <<unguarded, budget>>)
         /\ \/ /\ keyRow[i].state = "IN_PROGRESS" /\ keyRow'[i].state = "STALE" /\ unguarded' = unguarded
            \/ /\ keyRow'[i] = NoRow /\ ~Runs(i)
               /\ unguarded' = IF keyRow[i].state = "DONE" THEN unguarded \cup {i} ELSE unguarded
         /\ keyRow' \in [Op -> KeyRow] /\ \A j \in Op \ {i} : keyRow'[j] = keyRow[j]
<1>1. CASE GrowStale(i)
  <2> DEFINE row == [keyRow[i] EXCEPT !.state = "STALE"]
  <2>1. row \in KeyRow /\ row.state = "STALE"
    BY DEF Typed, ServerType, KeyRow
  <2>2. keyRow' = [keyRow EXCEPT ![i] = row]
    BY <1>1 DEF GrowStale
  <2> HIDE DEF row
  <2>3. keyRow' \in [Op -> KeyRow] /\ keyRow'[i] = row /\ \A j \in Op \ {i} : keyRow'[j] = keyRow[j]
    BY <2>1, <2>2, RowWritten
  <2>4. /\ UNCHANGED <<phone, history, version, applied, net, reply>> /\ keyRow[i].state = "IN_PROGRESS"
        /\ Spend("ages") \/ (~Runs(i) /\ budget' = budget)
    BY <1>1 DEF GrowStale
  <2> QED BY <2>1, <2>3, <2>4 DEF history
<1>2. CASE Purge(i)
  <2>1. keyRow' \in [Op -> KeyRow] /\ keyRow'[i] = NoRow /\ \A j \in Op \ {i} : keyRow'[j] = keyRow[j]
    BY <1>2, NoRowType, RowWritten DEF Purge
  <2> QED BY <1>2, <2>1 DEF Purge
<1> QED BY <1>1, <1>2

LEMMA ServerTyped ==
  ASSUME Typed,
         \/ \E i \in Op : Begin(i) \/ Finish(i) \/ GrowStale(i) \/ Purge(i)
         \/ \E q \in net : Lose(q)
         \/ \E w \in WorkOrder : Touch(w)
  PROVE  Typed' /\ SameOps
<1>0. ASSUME UNCHANGED <<phone, gone, conflicts, putBack>>, unguarded' \subseteq Op, ServerType', NetType', BudgetType',
             \A r \in net' : \E s \in net : r.op = s.op,
             \A j \in Op : applied'[j] > 0 => applied[j] > 0 \/ Used(j)
      PROVE  Typed' /\ SameOps
  BY <1>0, PhoneKept, ServerInUse DEF Typed
<1>1. ASSUME NEW q \in net, Accept(q) PROVE Typed' /\ SameOps
  <2>1. UNCHANGED <<phone, gone, conflicts, putBack, version, applied, budget>> /\ keyRow' \in [Op -> KeyRow] /\ q.op \in Op
    BY <1>1, AcceptSteps, RequestFacts
  <2>2. ServerType' /\ BudgetType'
    BY <2>1 DEF Typed, ServerType, Bounded, BudgetType
  <2>3. CASE Claims(q)
    <3> DEFINE r == [q EXCEPT !.running = TRUE]
    <3>1. r \in Request /\ r.op = q.op /\ net' = (net \ {q}) \cup {r} /\ reply' = reply
      BY <2>3 DEF Claims, Begun
    <3> HIDE DEF r
    <3>2. IsFiniteSet(net')
      BY <3>1, FS_RemoveElement, FS_AddElement DEF Typed, NetType
    <3>3. NetType' /\ \A t \in net' : \E s \in net : t.op = s.op
      BY <3>1, <3>2 DEF Typed, NetType
    <3>4. unguarded' \subseteq Op
      BY <2>1, <2>3 DEF Claims, Typed, HistoryType
    <3> QED BY <1>0, <2>1, <2>2, <3>3, <3>4
  <2>4. CASE Replays(q)
    <3>1. keyRow[q.op].version \in Nat
      BY <2>1 DEF Typed, ServerType, KeyRow
    <3>2. NetType' /\ net' \subseteq net
      BY <2>4, <3>1, AnswerTypes DEF Typed, Replays
    <3>3. unguarded' \subseteq Op
      BY <2>4 DEF Replays, Typed, HistoryType
    <3> QED BY <1>0, <2>1, <2>2, <3>2, <3>3
  <2> QED BY <1>1, <2>3, <2>4, AcceptSteps
<1>2. ASSUME NEW q \in net, Commit(q) \/ CommitUnrecorded(q) PROVE Typed' /\ SameOps
  <2>1. /\ TakeEffect(q) /\ UNCHANGED <<phone, gone, conflicts, putBack>> /\ keyRow' \in [Op -> KeyRow]
        /\ Answer(q, "ok", Clock + 1) \/ Answer(q, "unavailable", 0)
        /\ unguarded' \subseteq Op /\ (budget' = budget \/ Spend("failures"))
    BY <1>2, CommitSteps, CommitUnrecordedSteps, RequestFacts DEF history, Typed, HistoryType
  <2>2. Clock \in Nat /\ ServerType' /\ \A j \in Op : applied'[j] > 0 => applied[j] > 0 \/ Used(j)
    BY <2>1, TakeEffectSteps, RequestFacts DEF ServerType
  <2>3. NetType' /\ net' \subseteq net
    BY <2>1, <2>2, AnswerTypes DEF Typed
  <2>4. BudgetType'
    BY <2>1, SpendTypes DEF Typed, BudgetType
  <2> QED BY <1>0, <2>1, <2>2, <2>3, <2>4
<1>3. ASSUME NEW q \in net, Reject(q) PROVE Typed' /\ SameOps
  <2>1. /\ UNCHANGED <<phone, history, version, applied>> /\ keyRow' \in [Op -> KeyRow]
        /\ Answer(q, "conflict", 0) \/ Answer(q, "refused", 0) \/ Answer(q, "unavailable", 0)
        /\ budget' = budget \/ Spend("failures")
    BY <1>3, RejectSteps
  <2>2. NetType' /\ net' \subseteq net
    BY <2>1, AnswerTypes DEF Typed
  <2>3. ServerType' /\ BudgetType' /\ unguarded' \subseteq Op
    BY <2>1, SpendTypes DEF Typed, ServerType, Bounded, BudgetType, HistoryType, history
  <2> QED BY <1>0, <2>1, <2>2, <2>3 DEF history
<1>4. ASSUME NEW i \in Op, GrowStale(i) \/ Purge(i) PROVE Typed' /\ SameOps
  <2>1. /\ UNCHANGED <<phone, gone, conflicts, putBack, version, applied, net, reply>> /\ keyRow' \in [Op -> KeyRow]
        /\ unguarded' \subseteq Op /\ (budget' = budget \/ Spend("ages"))
    BY <1>4, AgeSteps DEF Typed, HistoryType
  <2>2. ServerType' /\ NetType' /\ BudgetType'
    BY <2>1, SpendTypes DEF Typed, ServerType, Bounded, NetType, BudgetType
  <2> QED BY <1>0, <2>1, <2>2
<1>5. ASSUME NEW q \in net, Lose(q) PROVE Typed' /\ SameOps
  <2>1. UNCHANGED <<phone, server, history, reply, budget>> /\ net' = net \ {q}
    BY <1>5 DEF Lose
  <2>2. NetType'
    BY <2>1, FS_RemoveElement DEF Typed, NetType
  <2>3. ServerType' /\ BudgetType' /\ unguarded' \subseteq Op
    BY <2>1 DEF server, history, Typed, ServerType, Bounded, BudgetType, HistoryType
  <2> QED BY <1>0, <2>1, <2>2, <2>3 DEF history, server
<1>6. ASSUME NEW w \in WorkOrder, Touch(w) PROVE Typed' /\ SameOps
  <2>1. /\ UNCHANGED <<phone, keyRow, applied, net, reply, history>> /\ Spend("touches")
        /\ version' = [version EXCEPT ![w] = Clock + 1]
    BY <1>6 DEF Touch
  <2>2. ServerType' /\ NetType' /\ BudgetType' /\ unguarded' \subseteq Op
    BY <2>1, SpendTypes, ChangeSteps DEF Typed, ServerType, NetType, HistoryType, history
  <2> QED BY <1>0, <2>1, <2>2 DEF history
<1> QED BY <1>1, <1>2, <1>3, <1>4, <1>5, <1>6 DEF Begin, Finish

LEMMA StepTyped == Typed /\ [Next]_vars => Typed'
<1> SUFFICES ASSUME Typed, [Next]_vars PROVE Typed'
  OBVIOUS
<1>1. CASE UNCHANGED vars
  BY <1>1 DEF vars, Typed, QueueType, PhoneType, DrainType, Busy, ServerType, Bounded, NetType, HistoryType, BudgetType,
              InUse, Used, Status
<1> QED BY <1>1, UserTyped, StartDrainTyped, DrainTyped, ServerTyped DEF Next

(* The type invariant: every variable of the phone, the network and the backend. *)
THEOREM TypeCorrect == Spec => []TypeOK
<1> QED BY InitTyped, StepTyped, TypedIsTypeOK, PTL DEF Spec

-----------------------------------------------------------------------------
(* An operation takes effect at most once *)

(* A row that is done stands for an effect.  Of an operation that is not unguarded, the row is
   claimed while a request of it runs, no second one runs, and the row is done exactly when the
   operation took effect, once. *)
Guarded(i) ==
  /\ \A q \in net : q.op = i /\ q.running => keyRow[i].state \in {"IN_PROGRESS", "STALE"}
  /\ \A q, r \in net : q.op = i /\ r.op = i /\ q.running /\ r.running => q = r
  /\ applied[i] = IF keyRow[i].state = "DONE" THEN 1 ELSE 0

KeyInv == \A i \in Op : /\ keyRow[i].state = "DONE" => applied[i] > 0
                        /\ i \notin unguarded => Guarded(i)

(* A step of the interceptor, of the handler or of the clean-up. *)
Serves == \/ \E q \in net : Accept(q) \/ Commit(q) \/ CommitUnrecorded(q) \/ Reject(q)
          \/ \E i \in Op : GrowStale(i) \/ Purge(i)

(* The other steps change no row, running request or effect. *)
LEMMA OtherSteps ==
  ASSUME Typed, [Next]_vars,
         ~SendNext, ~Resend, ~Serves, \A q \in net : ~Lose(q)
  PROVE  UNCHANGED <<net, keyRow, applied, unguarded>>
<1>1. CASE PullStep("drain") \/ BackgroundPull \/ BackgroundPullFails
  BY <1>1, PullProgressTypes DEF server
<1> QED
  BY <1>1
     DEF Serves, Next, UserStep, DrainStep, Begin, Finish, vars, server, history, Enqueue, RetryOp, DiscardOp, StartDrain,
         OnSuccess, Settle, OnLockConflict, RetryAfterConflict, StopInConflict, OnRefused, OnUnavailable, TimeOut,
         StopDraining, FinishDrain, FinalPull, Abort, Touch

LEMMA InitKey == Init => KeyInv
BY DEF Init, KeyInv, Guarded, NoRow

(* An operation whose row, effect and running requests are left alone stays guarded. *)
LEMMA GuardedStays ==
  ASSUME NEW i, Guarded(i), keyRow'[i] = keyRow[i], applied'[i] = applied[i],
         \A q \in net' : q.op = i /\ q.running => q \in net
  PROVE  Guarded(i)'
BY DEF Guarded

LEMMA StepKey == Typed /\ KeyInv /\ [Next]_vars => KeyInv'
<1> SUFFICES ASSUME Typed, KeyInv, [Next]_vars PROVE KeyInv'
  OBVIOUS
<1>1. CASE SendNext \/ Resend
  <2>1. PICK i \in Op, tries \in 0..MAX_ADDITIVE_RETRIES : Used(i) /\ Transmit(i, tries)
    BY <1>1, SendFacts
  <2>2. UNCHANGED <<keyRow, applied, unguarded>> /\ \A q \in net' \ net : q.running = FALSE
    BY <2>1, TransmitSteps DEF server, history
  <2>3. ASSUME NEW j \in Op, j \notin unguarded' PROVE Guarded(j)'
    BY <2>2, <2>3, GuardedStays DEF KeyInv
  <2>4. \A j \in Op : keyRow'[j].state = "DONE" => applied'[j] > 0
    BY <2>2 DEF KeyInv
  <2> QED BY <2>3, <2>4 DEF KeyInv
<1>2. ASSUME NEW q \in net, Accept(q) PROVE KeyInv'
  <2>0. /\ q.op \in Op /\ q.running = FALSE /\ applied' = applied
    BY <1>2, AcceptSteps, RequestFacts
  <2>1. CASE Replays(q)
    <3>1. UNCHANGED <<keyRow, applied, unguarded>> /\ net' = net \ {q}
      BY <2>0, <2>1 DEF Replays, Answer
    <3>2. ASSUME NEW j \in Op, j \notin unguarded' PROVE Guarded(j)'
      BY <3>1, <3>2, GuardedStays DEF KeyInv
    <3>3. \A j \in Op : keyRow'[j].state = "DONE" => applied'[j] > 0
      BY <3>1 DEF KeyInv
    <3> QED BY <3>2, <3>3 DEF KeyInv
  <2>2. CASE Claims(q)
    <3> DEFINE r0 == [q EXCEPT !.running = TRUE]
    <3>1. r0.op = q.op /\ r0.running = TRUE /\ net' = (net \ {q}) \cup {r0}
      BY <2>2 DEF Claims, Begun
    <3> HIDE DEF r0
    <3>2. /\ keyRow'[q.op].state = "IN_PROGRESS" /\ \A j \in Op \ {q.op} : keyRow'[j] = keyRow[j]
          /\ keyRow[q.op].state \in {"ABSENT", "STALE"}
      BY <2>2, NoRowType DEF Claims
    <3>3. /\ unguarded \subseteq unguarded'
          /\ q.op \notin unguarded' => \A r \in net : r.op = q.op => r.running = FALSE
      <4>1. \A r \in net : r.running \in BOOLEAN
        BY RequestFacts
      <4> QED BY <2>2, <4>1 DEF Claims, Runs
    <3>4. ASSUME NEW j \in Op, j # q.op, j \notin unguarded' PROVE Guarded(j)'
      BY <2>0, <3>1, <3>2, <3>3, <3>4, GuardedStays DEF KeyInv
    <3>5. ASSUME q.op \notin unguarded' PROVE Guarded(q.op)'
      <4>1. applied[q.op] = 0
        BY <2>0, <3>2, <3>3, <3>5 DEF KeyInv, Guarded
      <4>2. \A r \in net' : r.op = q.op /\ r.running => r = r0
        BY <3>1, <3>3, <3>5
      <4> QED BY <2>0, <3>2, <4>1, <4>2 DEF Guarded
    <3>6. \A j \in Op : keyRow'[j].state = "DONE" => applied'[j] > 0
      BY <2>0, <3>2 DEF KeyInv
    <3> QED BY <3>4, <3>5, <3>6 DEF KeyInv
  <2> QED BY <1>2, <2>1, <2>2, AcceptSteps
<1>3. ASSUME NEW q \in net, Commit(q) PROVE KeyInv'
  <2>1. /\ q.op \in Op /\ q.running /\ net' = net \ {q} /\ unguarded' = unguarded
        /\ keyRow'[q.op].state = "DONE" /\ \A j \in Op \ {q.op} : keyRow'[j] = keyRow[j]
        /\ applied'[q.op] = applied[q.op] + 1 /\ \A j \in Op \ {q.op} : applied'[j] = applied[j]
        /\ applied[q.op] \in Nat
    BY <1>3, CommitSteps, TakeEffectSteps, RequestFacts DEF Answer, history, Typed, ServerType
  <2>2. ASSUME NEW j \in Op, j # q.op, j \notin unguarded' PROVE Guarded(j)'
    BY <2>1, <2>2, GuardedStays DEF KeyInv
  <2>3. ASSUME q.op \notin unguarded' PROVE Guarded(q.op)'
    <3>1. Guarded(q.op)
      BY <2>1, <2>3 DEF KeyInv
    <3>2. applied[q.op] = 0 /\ \A r \in net' : r.op = q.op => ~r.running
      BY <2>1, <3>1 DEF Guarded
    <3> QED BY <2>1, <3>2 DEF Guarded
  <2>4. \A j \in Op : keyRow'[j].state = "DONE" => applied'[j] > 0
    BY <2>1 DEF KeyInv
  <2> QED BY <2>2, <2>3, <2>4 DEF KeyInv
<1>4. ASSUME NEW q \in net, CommitUnrecorded(q) PROVE KeyInv'
  <2>1. /\ q.op \in Op /\ net' = net \ {q} /\ unguarded' = unguarded \cup {q.op}
        /\ \A j \in Op \ {q.op} : keyRow'[j] = keyRow[j] /\ applied'[j] = applied[j]
        /\ applied'[q.op] = applied[q.op] + 1 /\ applied[q.op] \in Nat
    BY <1>4, CommitUnrecordedSteps, TakeEffectSteps, RequestFacts DEF Answer, Typed, ServerType
  <2>2. ASSUME NEW j \in Op, j \notin unguarded' PROVE Guarded(j)'
    <3>1. j # q.op /\ Guarded(j)
      BY <2>1, <2>2 DEF KeyInv
    <3> QED BY <2>1, <3>1, GuardedStays
  <2>3. \A j \in Op : keyRow'[j].state = "DONE" => applied'[j] > 0
    BY <2>1 DEF KeyInv
  <2> QED BY <2>2, <2>3 DEF KeyInv
<1>5. ASSUME NEW q \in net, Reject(q) PROVE KeyInv'
  <2>1. /\ q.op \in Op /\ q.running /\ net' = net \ {q} /\ UNCHANGED <<applied, unguarded>>
        /\ keyRow'[q.op] \in {NoRow, keyRow[q.op]} /\ \A j \in Op \ {q.op} : keyRow'[j] = keyRow[j]
    BY <1>5, RejectSteps, RequestFacts DEF Answer, history
  <2>2. ASSUME NEW j \in Op, j # q.op, j \notin unguarded' PROVE Guarded(j)'
    BY <2>1, <2>2, GuardedStays DEF KeyInv
  <2>3. ASSUME q.op \notin unguarded' PROVE Guarded(q.op)'
    <3>1. Guarded(q.op)
      BY <2>1, <2>3 DEF KeyInv
    <3>2. keyRow[q.op].state # "DONE" /\ \A r \in net' : r.op = q.op => ~r.running
      BY <2>1, <3>1 DEF Guarded
    <3>3. keyRow'[q.op].state # "DONE"
      BY <2>1, <3>2, NoRowType
    <3> QED BY <2>1, <3>1, <3>2, <3>3 DEF Guarded
  <2>4. \A j \in Op : keyRow'[j].state = "DONE" => applied'[j] > 0
    BY <2>1, NoRowType DEF KeyInv
  <2> QED BY <2>2, <2>3, <2>4 DEF KeyInv
<1>6. ASSUME NEW i \in Op, GrowStale(i) \/ Purge(i) PROVE KeyInv'
  <2>1. UNCHANGED <<applied, net>> /\ \A j \in Op \ {i} : keyRow'[j] = keyRow[j]
    BY <1>6, AgeSteps
  <2>2. CASE keyRow[i].state = "IN_PROGRESS" /\ keyRow'[i].state = "STALE" /\ unguarded' = unguarded
    BY <2>1, <2>2 DEF KeyInv, Guarded
  <2>3. CASE /\ keyRow'[i] = NoRow /\ ~Runs(i)
             /\ unguarded' = IF keyRow[i].state = "DONE" THEN unguarded \cup {i} ELSE unguarded
    BY <2>1, <2>3, NoRowType DEF KeyInv, Guarded, Runs
  <2> QED BY <1>6, <2>2, <2>3, AgeSteps
<1>7. ASSUME NEW q \in net, Lose(q) PROVE KeyInv'
  <2>1. net' \subseteq net /\ UNCHANGED <<keyRow, applied, unguarded>>
    BY <1>7 DEF Lose, server, history
  <2> QED BY <2>1 DEF KeyInv, Guarded
<1>8. CASE UNCHANGED <<net, keyRow, applied, unguarded>>
  BY <1>8 DEF KeyInv, Guarded
<1> QED BY <1>1, <1>2, <1>3, <1>4, <1>5, <1>6, <1>7, <1>8, OtherSteps DEF Serves

(* However often timeouts, killed apps and the retry button send it again, an operation takes effect
   at most once, unless its key row stopped telling what its requests did: the response was not
   recorded, the row was purged after 48 hours, or the claim was taken over while the first request
   still ran. *)
THEOREM EffectAtMostOnce == Spec => []AppliedAtMostOnce
<1>1. Typed /\ KeyInv => AppliedAtMostOnce
  BY DEF KeyInv, Guarded, AppliedAtMostOnce, Typed, ServerType
<1> QED BY <1>1, InitTyped, StepTyped, InitKey, StepKey, PTL DEF Spec

-----------------------------------------------------------------------------
(* What each step of the phone does *)

(* The row of an operation that a step of the drain writes to: nothing if it was deleted. *)
Writes(i, status, attempts) ==
  \A j \in Op : /\ Status(j)' = IF j = i /\ Status(i) \in Queued THEN status ELSE Status(j)
                /\ queue'[j].attempts = IF j = i /\ Status(i) \in Queued THEN attempts ELSE queue[j].attempts

WritesNothing == \A j \in Op : Status(j)' = Status(j) /\ queue'[j].attempts = queue[j].attempts

DrainKeeps == /\ drainer'.op = drainer.op /\ drainer'.tries = drainer.tries
              /\ drainer'.todo = drainer.todo /\ drainer'.blocked = drainer.blocked

LEMMA EnqueueSteps ==
  ASSUME Typed, NEW i \in Op, NEW w \in WorkOrder, NEW k \in Kinds, Enqueue(i, w, k)
  PROVE  /\ ~Used(i) /\ \A j \in Op : j < i => Used(j)
         /\ \A j \in Op \ {i} : queue'[j] = queue[j]
         /\ Status(i)' = "PENDING" /\ queue'[i].attempts = 0 /\ Kind(i)' = k /\ Wo(i)' = w
         /\ UNCHANGED <<local, cursor, pulls, drainer, uploaded, server, net, reply, history, budget>>
BY DEF Enqueue, Used, Status, Kind, Wo, Typed, QueueType

LEMMA RetryOpSteps ==
  ASSUME Typed, NEW i \in Op, RetryOp(i)
  PROVE  /\ Status(i) \in {"FAILED", "CONFLICT"} /\ Spend("retries") /\ SameOps /\ Writes(i, "PENDING", 0)
         /\ conflicts' = [conflicts EXCEPT ![i] = 0]
         /\ UNCHANGED <<local, cursor, pulls, drainer, uploaded, server, net, reply, gone, unguarded, putBack>>
<1>1. 0 \in 0..MAX_ADDITIVE_RETRIES /\ "PENDING" \in Queued
  BY RetriesAssumption DEF Queued
<1> QED BY <1>1, SetOpStatusRows DEF RetryOp, Typed, Writes

LEMMA DiscardOpSteps ==
  ASSUME Typed, NEW i \in Op, DiscardOp(i)
  PROVE  /\ Used(i) /\ SameOps /\ gone' = gone \cup {i}
         /\ Status(i) \in {"FAILED", "CONFLICT"} \/ Kind(i) = "part_add"
         /\ \A j \in Op : /\ Status(j)' = IF j = i THEN "GONE" ELSE Status(j)
                          /\ queue'[j].attempts = queue[j].attempts
         /\ UNCHANGED <<local, cursor, pulls, drainer, uploaded, server, net, reply, conflicts, unguarded, putBack, budget>>
<1>1. Used(i)
  BY DEF DiscardOp, Used, Queued
<1> QED BY <1>1, DeleteOpRows DEF DiscardOp, Typed

LEMMA StartDrainSteps ==
  ASSUME Typed, StartDrain
  PROVE  /\ drainer.at = "idle" /\ SameOps
         /\ \A j \in Op : /\ Status(j)' = IF Status(j) = "IN_FLIGHT" THEN "PENDING" ELSE Status(j)
                          /\ queue'[j].attempts = queue[j].attempts
         /\ drainer'.at = "picking" /\ drainer'.todo = {i \in Op : Status(i) \in {"PENDING", "IN_FLIGHT"}}
         /\ drainer'.blocked = {Wo(i) : i \in {j \in Op : Blocks(j)}}
         /\ UNCHANGED <<local, cursor, pulls, uploaded, server, net, reply, history, budget>>
<1>1. ASSUME NEW j \in Op PROVE /\ Status(j)' = IF Status(j) = "IN_FLIGHT" THEN "PENDING" ELSE Status(j)
                               /\ queue'[j].attempts = queue[j].attempts
  <2>1. CASE Status(j) = "IN_FLIGHT"
    <3>1. queue[j] \in [kind : Kinds, wo : WorkOrder, status : Queued \cup {"GONE"}, attempts : 0..MAX_ADDITIVE_RETRIES]
      BY <2>1 DEF Typed, QueueType, Row, NoOp, Status
    <3>2. queue'[j] = [kind |-> queue[j].kind, wo |-> queue[j].wo, status |-> "PENDING", attempts |-> queue[j].attempts]
      BY <2>1, <3>1 DEF StartDrain
    <3> QED BY <2>1, <3>2 DEF Status
  <2>2. CASE Status(j) # "IN_FLIGHT"
    BY <2>2 DEF StartDrain, Status
  <2> QED BY <2>1, <2>2
<1> QED BY <1>1, StartDrainTyped DEF StartDrain, Idle

LEMMA BusyOp ==
  ASSUME Typed, Busy
  PROVE  /\ drainer.op \in Op /\ Used(drainer.op) /\ drainer.tries \in 0..MAX_ADDITIVE_RETRIES
         /\ Kind(drainer.op) \in Kinds /\ Wo(drainer.op) \in WorkOrder /\ Status(drainer.op) \in Queued \cup {"GONE"}
         /\ Capped(drainer.tries + 1) \in 0..MAX_ADDITIVE_RETRIES
<1>1. drainer.op \in Op /\ Used(drainer.op) /\ drainer.tries \in 0..MAX_ADDITIVE_RETRIES
  BY DEF Typed, DrainType, InUse
<1>2. drainer.tries + 1 \in Nat
  BY <1>1
<1> QED BY <1>1, <1>2, CappedType, RowFacts DEF Typed

LEMMA OnSuccessSteps ==
  ASSUME Typed, OnSuccess
  PROVE  /\ drainer.at = "waiting" /\ reply.kind = "ok" /\ SameOps /\ WritesNothing
         /\ drainer'.at = "settling" /\ DrainKeeps
         /\ local' = [local EXCEPT ![Wo(drainer.op)] = reply.version]
         /\ UNCHANGED <<queue, cursor, pulls, server, net, reply, history, budget>>
BY QueueUnchanged DEF OnSuccess, Received, WritesNothing, DrainKeeps, Typed, DrainType

LEMMA SettleSteps ==
  ASSUME Typed, Settle
  PROVE  /\ drainer.at = "settling" /\ SameOps /\ drainer'.at = "picking" /\ DrainKeeps
         /\ \A j \in Op : /\ Status(j)' = IF j = drainer.op THEN "GONE" ELSE Status(j)
                          /\ queue'[j].attempts = queue[j].attempts
         /\ UNCHANGED <<local, cursor, pulls, uploaded, server, net, reply, history, budget>>
<1>1. drainer.op \in Op /\ Used(drainer.op)
  BY BusyOp DEF Settle, Busy
<1>2. drainer'.at = "picking" /\ DrainKeeps
  BY DEF Settle, DrainKeeps, Typed, DrainType
<1> QED BY <1>1, <1>2, DeleteOpRows DEF Settle, Typed

LEMMA OnLockConflictSteps ==
  ASSUME Typed, OnLockConflict
  PROVE  /\ drainer.at = "waiting" /\ reply.kind = "conflict" /\ SameOps /\ WritesNothing
         /\ drainer'.at = "pulling" /\ DrainKeeps
         /\ conflicts' = [conflicts EXCEPT ![drainer.op] = Capped(@ + 1)]
         /\ UNCHANGED <<queue, local, cursor, pulls, uploaded, server, net, reply, gone, unguarded, putBack, budget>>
BY QueueUnchanged DEF OnLockConflict, Received, WritesNothing, DrainKeeps, Typed, DrainType

LEMMA RetryAfterConflictSteps ==
  ASSUME Typed, RetryAfterConflict
  PROVE  /\ drainer.at = "pulling" /\ Additive(drainer.op) /\ drainer.tries + 1 < MAX_ADDITIVE_RETRIES
         /\ SameOps /\ WritesNothing /\ StoreCursor("drain")
         /\ drainer'.at = "retrying" /\ drainer'.op = drainer.op /\ drainer'.tries = drainer.tries + 1
         /\ drainer'.todo = drainer.todo /\ drainer'.blocked = drainer.blocked
         /\ UNCHANGED <<queue, local, uploaded, server, net, reply, history, budget>>
BY QueueUnchanged DEF RetryAfterConflict, WritesNothing, Typed, DrainType

LEMMA StopInConflictSteps ==
  ASSUME Typed, StopInConflict
  PROVE  /\ drainer.at = "pulling"
         /\ ~Additive(drainer.op) \/ drainer.tries + 1 >= MAX_ADDITIVE_RETRIES
         /\ SameOps /\ Writes(drainer.op, "CONFLICT", Capped(drainer.tries + 1)) /\ StoreCursor("drain")
         /\ drainer'.at = "picking" /\ drainer'.op = drainer.op /\ drainer'.todo = drainer.todo
         /\ drainer'.blocked = drainer.blocked \cup {Wo(drainer.op)}
         /\ UNCHANGED <<local, uploaded, server, net, reply, history, budget>>
<1>1. drainer.op \in Op /\ Capped(drainer.tries + 1) \in 0..MAX_ADDITIVE_RETRIES /\ "CONFLICT" \in Queued
  BY BusyOp DEF StopInConflict, Busy, Queued
<1>2. /\ drainer'.at = "picking" /\ drainer'.op = drainer.op /\ drainer'.todo = drainer.todo
      /\ drainer'.blocked = drainer.blocked \cup {Wo(drainer.op)}
  BY DEF StopInConflict, Typed, DrainType
<1> QED BY <1>1, <1>2, SetOpStatusRows DEF StopInConflict, Typed, Writes

LEMMA OnRefusedSteps ==
  ASSUME Typed, OnRefused
  PROVE  /\ drainer.at = "waiting" /\ reply.kind = "refused"
         /\ SameOps /\ Writes(drainer.op, "FAILED", Capped(drainer.tries + 1))
         /\ drainer'.at = "picking" /\ drainer'.op = drainer.op /\ drainer'.todo = drainer.todo
         /\ drainer.blocked \subseteq drainer'.blocked
         /\ Additive(drainer.op) \/ Wo(drainer.op) \in drainer'.blocked
         /\ UNCHANGED <<local, cursor, pulls, uploaded, server, net, reply, history, budget>>
<1>1. drainer.op \in Op /\ Capped(drainer.tries + 1) \in 0..MAX_ADDITIVE_RETRIES /\ "FAILED" \in Queued
  BY BusyOp DEF OnRefused, Received, Busy, Queued
<1>2. /\ drainer'.at = "picking" /\ drainer'.op = drainer.op /\ drainer'.todo = drainer.todo
      /\ drainer.blocked \subseteq drainer'.blocked
      /\ Additive(drainer.op) \/ Wo(drainer.op) \in drainer'.blocked
  BY DEF OnRefused, Typed, DrainType
<1> QED BY <1>1, <1>2, SetOpStatusRows DEF OnRefused, Received, Typed, Writes

(* An answer that says to wait, or none at all: the drain stops. *)
LEMMA StopSteps ==
  ASSUME Typed, OnUnavailable \/ TimeOut
  PROVE  /\ drainer.at = "waiting"
         /\ \/ reply.kind \in {"unavailable", "inProgress"} /\ budget' = budget
            \/ Spend("failures")
         /\ SameOps /\ Writes(drainer.op, "PENDING", Capped(drainer.tries + 1)) /\ drainer'.at = "closing"
         /\ UNCHANGED <<local, cursor, pulls, uploaded, server, net, reply, history>>
<1>1. drainer.op \in Op /\ Capped(drainer.tries + 1) \in 0..MAX_ADDITIVE_RETRIES /\ "PENDING" \in Queued
  BY BusyOp DEF OnUnavailable, TimeOut, Received, Busy, Queued
<1>2. drainer'.at = "closing"
  BY DEF OnUnavailable, TimeOut, StopDraining, Typed, DrainType
<1> QED BY <1>1, <1>2, SetOpStatusRows DEF OnUnavailable, TimeOut, StopDraining, Received, Typed, Writes

LEMMA FinishDrainSteps ==
  ASSUME Typed, FinishDrain
  PROVE  /\ drainer.at = "picking" /\ drainer'.at = "closing" /\ SameOps /\ WritesNothing
         /\ UNCHANGED <<queue, local, cursor, pulls, uploaded, server, net, reply, history, budget>>
BY QueueUnchanged DEF FinishDrain, WritesNothing, Typed, DrainType

LEMMA EndSteps ==
  ASSUME Typed, FinalPull \/ Abort
  PROVE  /\ drainer.at # "idle" /\ drainer' = Idle /\ drainer'.at = "idle" /\ drainer'.todo = {}
         /\ SameOps /\ WritesNothing
         /\ \/ drainer.at = "closing" /\ StoreCursor("drain") /\ budget' = budget
            \/ Spend("failures") /\ \A p \in Puller : pulls'[p] \in {pulls[p], NoPull}
         /\ pulls'["drain"] = NoPull
         /\ UNCHANGED <<queue, local, uploaded, server, net, reply, history>>
BY QueueUnchanged, NoPullType DEF FinalPull, Abort, StoreCursor, WritesNothing, Idle, Typed, PhoneType

(* A pull on its way, of the drain or of the background task, touches no operation. *)
PullProgress == PullStep("drain") \/ BackgroundPull \/ BackgroundPullFails

LEMMA PullProgressSteps ==
  ASSUME Typed, PullProgress
  PROVE  /\ SameOps /\ WritesNothing
         /\ UNCHANGED <<queue, drainer, uploaded, server, net, reply, gone, conflicts, unguarded>>
         /\ putBack \subseteq putBack'
         /\ budget' = budget \/ Spend("pulls") \/ Spend("failures")
<1>1. /\ UNCHANGED <<queue, drainer, uploaded, server, net, reply, gone, conflicts, unguarded>>
      /\ putBack \subseteq putBack'
      /\ budget' = budget \/ Spend("pulls") \/ Spend("failures")
  BY PullProgressTypes DEF PullProgress
<1> QED BY <1>1, QueueUnchanged DEF WritesNothing

(* The steps of the server leave the phone alone, except that it may hear an answer. *)
LEMMA ServerSteps ==
  ASSUME Typed,
         Serves \/ (\E q \in net : Lose(q)) \/ (\E w \in WorkOrder : Touch(w))
  PROVE  /\ UNCHANGED <<queue, local, cursor, pulls, drainer, uploaded, gone, conflicts, putBack>>
         /\ SameOps /\ WritesNothing
<1>1. UNCHANGED <<phone, gone, conflicts, putBack>>
  BY AcceptSteps, CommitSteps, CommitUnrecordedSteps, RejectSteps, AgeSteps DEF Serves, Lose, Touch, history
<1> QED BY <1>1, QueueUnchanged DEF phone, WritesNothing

-----------------------------------------------------------------------------
(* Nothing is lost *)

(* The drain takes an operation for done only when it took effect. *)
LostInv ==
  /\ drainer.at = "waiting" /\ reply.kind = "ok" => applied[drainer.op] > 0
  /\ drainer.at = "settling" => applied[drainer.op] > 0
  /\ NothingLost

LEMMA InitLost == Init => LostInv
BY DEF Init, LostInv, NothingLost, Idle, Status, NoOp

(* What took effect, and what was discarded, stays so. *)
LEMMA EffectsStay ==
  ASSUME Typed, [Next]_vars
  PROVE  gone \subseteq gone' /\ \A j \in Op : applied[j] > 0 => applied'[j] > 0
<1>1. CASE SendNext \/ Resend
  <2>1. PICK i \in Op, tries \in 0..MAX_ADDITIVE_RETRIES : Used(i) /\ Transmit(i, tries)
    BY <1>1, SendFacts
  <2> QED BY <2>1, TransmitSteps DEF server, history
<1>2. ASSUME NEW q \in net, Accept(q) \/ Reject(q) \/ Lose(q)
      PROVE  gone \subseteq gone' /\ \A j \in Op : applied[j] > 0 => applied'[j] > 0
  BY <1>2, AcceptSteps, RejectSteps DEF Lose, history, server
<1>3. ASSUME NEW q \in net, Commit(q) \/ CommitUnrecorded(q)
      PROVE  gone \subseteq gone' /\ \A j \in Op : applied[j] > 0 => applied'[j] > 0
  <2>1. q.op \in Op /\ applied[q.op] \in Nat /\ TakeEffect(q) /\ gone' = gone
    BY <1>3, RequestFacts, CommitSteps, CommitUnrecordedSteps DEF Typed, ServerType, history
  <2> QED BY <2>1, TakeEffectSteps
<1>4. ASSUME NEW i \in Op, GrowStale(i) \/ Purge(i)
      PROVE  gone \subseteq gone' /\ \A j \in Op : applied[j] > 0 => applied'[j] > 0
  BY <1>4, AgeSteps
<1>5. CASE ~SendNext /\ ~Resend /\ ~Serves /\ \A q \in net : ~Lose(q)
  <2>1. applied' = applied
    BY <1>5, OtherSteps
  <2>2. gone \subseteq gone'
    <3>1. CASE PullProgress
      BY <3>1, PullProgressSteps
    <3> QED
      BY <1>5, <3>1
         DEF PullProgress, Serves, Next, UserStep, DrainStep, Begin, Finish, vars, history, Enqueue, RetryOp, DiscardOp,
             StartDrain, OnSuccess, Settle, OnLockConflict, RetryAfterConflict, StopInConflict, OnRefused, OnUnavailable,
             TimeOut, StopDraining, FinishDrain, FinalPull, Abort, Touch
  <2> QED BY <2>1, <2>2
<1> QED BY <1>1, <1>2, <1>3, <1>4, <1>5 DEF Serves

(* Only Settle and the technician delete a row. *)
LEMMA StepLost == Typed /\ KeyInv /\ LostInv /\ [Next]_vars => LostInv'
<1> SUFFICES ASSUME Typed, KeyInv, LostInv, [Next]_vars PROVE LostInv'
  OBVIOUS
<1>0. gone \subseteq gone' /\ \A j \in Op : applied[j] > 0 => applied'[j] > 0
  BY EffectsStay
<1>1. ASSUME NEW i \in Op, NEW w \in WorkOrder, NEW k \in Kinds, Enqueue(i, w, k) PROVE LostInv'
  BY <1>0, <1>1, EnqueueSteps DEF LostInv, NothingLost, server, Status
<1>2. ASSUME NEW i \in Op, RetryOp(i) PROVE LostInv'
  BY <1>0, <1>2, RetryOpSteps DEF LostInv, NothingLost, server, Writes
<1>3. ASSUME NEW i \in Op, DiscardOp(i) PROVE LostInv'
  BY <1>0, <1>3, DiscardOpSteps DEF LostInv, NothingLost, server
<1>4. CASE StartDrain
  BY <1>0, <1>4, StartDrainSteps DEF LostInv, NothingLost
<1>5. CASE SendNext \/ Resend
  <2>1. PICK i \in Op, tries \in 0..MAX_ADDITIVE_RETRIES : Used(i) /\ Transmit(i, tries)
    BY <1>5, SendFacts
  <2>2. reply'.kind # "ok" /\ drainer'.at = "waiting"
    BY <2>1, TransmitSteps DEF NoReply
  <2>3. \A j \in Op : Status(j)' = "GONE" => Status(j) = "GONE"
    BY <2>1, TransmitSteps
  <2> QED BY <1>0, <2>2, <2>3 DEF LostInv, NothingLost
<1>6. CASE OnSuccess
  <2>1. drainer.op \in Op /\ UNCHANGED applied
    BY <1>6, OnSuccessSteps, BusyOp DEF Busy, server
  <2> QED BY <1>0, <1>6, <2>1, OnSuccessSteps DEF LostInv, NothingLost, WritesNothing, DrainKeeps
<1>7. CASE Settle
  <2>1. drainer.op \in Op
    BY <1>7, SettleSteps, BusyOp DEF Busy
  <2> QED BY <1>0, <1>7, <2>1, SettleSteps DEF LostInv, NothingLost
<1>8. CASE OnLockConflict \/ RetryAfterConflict
  BY <1>0, <1>8, OnLockConflictSteps, RetryAfterConflictSteps DEF LostInv, NothingLost, WritesNothing
<1>9. CASE StopInConflict \/ OnRefused \/ OnUnavailable \/ TimeOut
  BY <1>0, <1>9, StopInConflictSteps, OnRefusedSteps, StopSteps DEF LostInv, NothingLost, Writes
<1>10. CASE FinishDrain \/ FinalPull \/ Abort
  BY <1>0, <1>10, FinishDrainSteps, EndSteps DEF LostInv, NothingLost, WritesNothing
<1>11. CASE PullProgress
  BY <1>0, <1>11, PullProgressSteps DEF LostInv, NothingLost, WritesNothing, server
<1>12. ASSUME drainer' = drainer,
              reply' = reply \/ (drainer.at = "waiting" => applied'[drainer.op] > 0) \/ reply'.kind # "ok",
              WritesNothing
       PROVE  LostInv'
  <2>1. drainer.at \in {"waiting", "settling"} => drainer.op \in Op
    BY DEF Typed, DrainType, Busy
  <2> QED BY <1>0, <1>12, <2>1 DEF LostInv, NothingLost, WritesNothing
<1>13. ASSUME NEW q \in net, Accept(q) \/ Commit(q) \/ CommitUnrecorded(q) \/ Reject(q) \/ Lose(q) PROVE LostInv'
  <2>1. drainer' = drainer /\ WritesNothing
    BY <1>13, ServerSteps DEF Serves
  <2>2. q.op \in Op
    BY RequestFacts
  <2>3. CASE Accept(q)
    <3>1. keyRow[q.op].state = "DONE" => applied'[q.op] > 0
      BY <1>0, <2>2 DEF KeyInv
    <3>2. CASE Claims(q)
      BY <1>12, <2>1, <3>2 DEF Claims
    <3>3. CASE Replays(q)
      <4>1. CASE Answer(q, "refused", 0) \/ Answer(q, "inProgress", 0)
        BY <1>12, <2>1, <4>1 DEF Answer
      <4>2. CASE keyRow[q.op].state = "DONE" /\ Answer(q, "ok", keyRow[q.op].version)
        BY <1>12, <2>1, <3>1, <4>2 DEF Answer
      <4> QED BY <3>3, <4>1, <4>2 DEF Replays
    <3> QED BY <2>3, <3>2, <3>3, AcceptSteps
  <2>4. CASE Commit(q)
    <3>1. applied'[q.op] > 0
      BY <2>2, <2>4, CommitSteps, TakeEffectSteps DEF Typed, ServerType
    <3> QED BY <1>12, <2>1, <2>4, <3>1, CommitSteps DEF Answer
  <2>5. CASE CommitUnrecorded(q) \/ Reject(q)
    <3>1. reply' = reply \/ reply'.kind # "ok"
      BY <2>5, CommitUnrecordedSteps, RejectSteps DEF Answer
    <3> QED BY <1>12, <2>1, <3>1
  <2>6. CASE Lose(q)
    BY <1>12, <2>1, <2>6 DEF Lose
  <2> QED BY <1>13, <2>3, <2>4, <2>5, <2>6
<1>14. ASSUME NEW w \in WorkOrder, Touch(w) PROVE LostInv'
  BY <1>12, <1>14, ServerSteps DEF Touch
<1>15. CASE UNCHANGED vars
  BY <1>12, <1>15, QueueUnchanged DEF vars, WritesNothing
<1>16. ASSUME NEW i \in Op, GrowStale(i) \/ Purge(i) PROVE LostInv'
  <2>1. drainer' = drainer /\ WritesNothing /\ reply' = reply
    BY <1>16, ServerSteps, AgeSteps DEF Serves
  <2> QED BY <1>12, <2>1
<1> QED BY <1>1, <1>2, <1>3, <1>4, <1>5, <1>6, <1>7, <1>8, <1>9, <1>10, <1>11, <1>13, <1>14, <1>15, <1>16
        DEF PullProgress, Next, UserStep, DrainStep, Begin, Finish

(* An operation leaves the queue only once it took effect, or when the technician discards it. *)
THEOREM NoOperationIsLost == Spec => []NothingLost
<1>1. LostInv => NothingLost
  BY DEF LostInv
<1> QED BY <1>1, InitTyped, StepTyped, InitKey, StepKey, InitLost, StepLost, PTL DEF Spec

-----------------------------------------------------------------------------
(* Transitions and part removals keep their place *)

(* i has to take effect before j. *)
Before(i, j) == i < j /\ Wo(i) = Wo(j) /\ Kind(i) \in BLOCKING_KINDS

Done(i) == applied[i] > 0 \/ i \in gone

(* What took effect, is under way, or is in the hands of the drain has nothing left before it; what
   the drain has still to send has before it only what is done, what the drain will send first, and
   what it is about to decide on. *)
OrderInv ==
  /\ \A i, j \in Op : Before(i, j) /\ applied[j] > 0 => Done(i)
  /\ \A q \in net, i \in Op : Before(i, q.op) => Done(i)
  /\ Busy => \A i \in Op : Before(i, drainer.op) => Done(i)
  /\ Busy => \A j \in drainer.todo : j > drainer.op
  /\ drainer.at \notin {"idle", "closing"} =>
       \A i \in Op, j \in drainer.todo :
         Before(i, j) /\ Wo(j) \notin drainer.blocked => Done(i) \/ i \in drainer.todo \/ (Busy /\ i = drainer.op)

LEMMA InitOrder == Init => OrderInv
BY DEF Init, OrderInv, Idle, Busy

LEMMA StepOrder == Typed /\ KeyInv /\ LostInv /\ OrderInv /\ [Next]_vars => OrderInv'
<1> SUFFICES ASSUME Typed, KeyInv, LostInv, OrderInv, [Next]_vars PROVE OrderInv'
  OBVIOUS
<1>0. \A i \in Op : Done(i) => Done(i)'
  BY EffectsStay DEF Done
<1>a. /\ \A q \in net : q.op \in Op /\ Used(q.op)
      /\ Busy => drainer.op \in Op /\ Used(drainer.op)
      /\ drainer.todo \subseteq Op /\ \A j \in drainer.todo : Used(j)
      /\ \A j \in Op : applied[j] > 0 => Used(j)
  BY RequestFacts, BusyOp DEF Typed, InUse, DrainType
<1>b. ASSUME SameOps, UNCHANGED applied, net' \subseteq net, drainer'.todo \subseteq drainer.todo,
             Busy' => Busy /\ drainer'.op = drainer.op,
             drainer'.at \notin {"idle", "closing"} =>
               /\ drainer.at \notin {"idle", "closing"} /\ drainer'.todo = drainer.todo
               /\ drainer.blocked \subseteq drainer'.blocked
               /\ Busy /\ ~Busy' => \A i \in Op : i = drainer.op =>
                    Done(i)' \/ Wo(i) \in drainer'.blocked \/ Kind(i) \notin BLOCKING_KINDS
      PROVE  OrderInv'
  <2>1. \A i, j \in Op : Before(i, j)' <=> Before(i, j)
    BY <1>b DEF SameOps, Before
  <2>2. \A i, j \in Op : Before(i, j)' /\ applied'[j] > 0 => Done(i)'
    BY <1>0, <1>b, <2>1 DEF OrderInv
  <2>3. \A q \in net', i \in Op : Before(i, q.op)' => Done(i)'
    BY <1>0, <1>a, <1>b, <2>1 DEF OrderInv
  <2>4. Busy' => /\ \A i \in Op : Before(i, drainer.op)' => Done(i)'
                 /\ \A j \in drainer'.todo : j > drainer'.op
    BY <1>0, <1>a, <1>b, <2>1 DEF OrderInv
  <2>5. ASSUME drainer'.at \notin {"idle", "closing"}, NEW i \in Op, NEW j \in drainer'.todo,
               Before(i, j)', Wo(j)' \notin drainer'.blocked
        PROVE  Done(i)' \/ i \in drainer'.todo \/ (Busy' /\ i = drainer'.op)
    <3>1. j \in Op /\ j \in drainer.todo /\ Before(i, j) /\ Wo(j) \notin drainer.blocked /\ Wo(j) \notin drainer'.blocked
      BY <1>a, <1>b, <2>1, <2>5 DEF SameOps
    <3>2. Done(i) \/ i \in drainer.todo \/ (Busy /\ i = drainer.op)
      BY <1>b, <2>5, <3>1 DEF OrderInv
    <3>3. CASE Busy /\ i = drainer.op /\ ~Busy'
      BY <1>b, <2>5, <3>1, <3>3 DEF Before
    <3> QED BY <1>0, <1>b, <2>5, <3>2, <3>3
  <2> QED BY <1>b, <2>2, <2>3, <2>4, <2>5 DEF OrderInv
<1>1. ASSUME NEW k \in Op, NEW w \in WorkOrder, NEW kind \in Kinds, Enqueue(k, w, kind) PROVE OrderInv'
  <2>1. /\ ~Used(k) /\ \A j \in Op \ {k} : queue'[j] = queue[j]
        /\ UNCHANGED <<drainer, applied, net, gone>>
    BY <1>1, EnqueueSteps DEF server, history
  <2>2. \A i, j \in Op : Used(j) => (Before(i, j)' <=> Before(i, j))
    <3> SUFFICES ASSUME NEW i \in Op, NEW j \in Op, Used(j) PROVE Before(i, j)' <=> Before(i, j)
      OBVIOUS
    <3>1. i < j => i # k
      BY <2>1 DEF Typed, InUse
    <3>2. j # k
      BY <2>1
    <3> QED BY <2>1, <3>1, <3>2 DEF Before, Kind, Wo
  <2>3. \A j \in drainer.todo : Used(j) /\ j \in Op /\ Wo(j)' = Wo(j)
    BY <1>a, <2>1 DEF Wo
  <2>4. (Busy' <=> Busy) /\ \A i \in Op : Done(i)' <=> Done(i)
    BY <2>1 DEF Busy, Done
  <2>5. Busy => \A i \in Op : Before(i, drainer.op)' <=> Before(i, drainer.op)
    BY <1>a, <2>1, <2>2
  <2>6. (\A i, j \in Op : Before(i, j) /\ applied[j] > 0 => Done(i))'
    BY <1>a, <2>1, <2>2, <2>4 DEF OrderInv
  <2>7. (\A q \in net, i \in Op : Before(i, q.op) => Done(i))'
    BY <1>a, <2>1, <2>2, <2>4 DEF OrderInv
  <2>8. (Busy => \A i \in Op : Before(i, drainer.op) => Done(i))'
    BY <2>1, <2>4, <2>5 DEF OrderInv
  <2>9. (drainer.at \notin {"idle", "closing"} =>
           \A i \in Op, j \in drainer.todo :
             Before(i, j) /\ Wo(j) \notin drainer.blocked => Done(i) \/ i \in drainer.todo \/ (Busy /\ i = drainer.op))'
    BY <2>1, <2>2, <2>3, <2>4 DEF OrderInv
  <2> QED BY <2>1, <2>4, <2>6, <2>7, <2>8, <2>9 DEF OrderInv
<1>2. CASE \E i \in Op : RetryOp(i) \/ DiscardOp(i)
  <2>1. SameOps /\ UNCHANGED <<drainer, applied, net>>
    BY <1>2, RetryOpSteps, DiscardOpSteps DEF server
  <2> QED BY <1>b, <2>1 DEF Busy
<1>3. CASE StartDrain
  <2>1. /\ SameOps /\ ~Busy' /\ UNCHANGED <<applied, net, gone>>
        /\ drainer'.todo = {i \in Op : Status(i) \in {"PENDING", "IN_FLIGHT"}}
        /\ drainer'.blocked = {Wo(i) : i \in {j \in Op : Blocks(j)}}
    BY <1>3, StartDrainSteps DEF Busy, server, history
  <2>2. \A i, j \in Op : Before(i, j)' <=> Before(i, j)
    BY <2>1 DEF SameOps, Before
  <2>3. ASSUME NEW i \in Op, NEW j \in drainer'.todo, Before(i, j), Wo(j) \notin drainer'.blocked
        PROVE  Done(i) \/ i \in drainer'.todo
    <3>1. j \in Op /\ Used(j)
      BY <2>1 DEF Used
    <3>2. Used(i)
      BY <2>3, <3>1 DEF Typed, InUse, Before
    <3>3. Status(i) \in Queued \cup {"GONE"}
      BY <3>2, RowFacts DEF Typed
    <3>4. ~Blocks(i)
      BY <2>1, <2>3 DEF Before
    <3>5. Status(i) \in {"PENDING", "IN_FLIGHT", "GONE"}
      BY <2>3, <3>3, <3>4 DEF Blocks, Before, Queued
    <3> QED BY <2>1, <3>5 DEF LostInv, NothingLost, Done
  <2>4. \A j \in Op : Wo(j)' = Wo(j)
    BY <2>1 DEF SameOps
  <2> QED BY <1>0, <1>a, <2>1, <2>2, <2>3, <2>4 DEF OrderInv
<1>4. CASE SendNext \/ Resend
  <2>1. PICK i \in Op, tries \in 0..MAX_ADDITIVE_RETRIES :
          /\ Used(i) /\ Transmit(i, tries)
          /\ \/ drainer.at = "picking" /\ i \in Sendable /\ \A j \in Sendable : i <= j
             \/ drainer.at = "retrying" /\ i = drainer.op
    BY <1>4, SendFacts
  <2>2. /\ SameOps /\ UNCHANGED <<applied, gone>> /\ Busy' /\ drainer'.op = i
        /\ drainer'.todo = drainer.todo \ 1..i /\ drainer'.blocked = drainer.blocked
        /\ \A q \in net' \ net : q.op = i
    BY <2>1, TransmitSteps DEF Busy, server, history
  <2>3. \A k \in Op : Before(k, i) => Done(k)
    <3>1. CASE drainer.at = "picking" /\ i \in Sendable /\ \A j \in Sendable : i <= j
      <4> SUFFICES ASSUME NEW k \in Op, Before(k, i) PROVE Done(k)
        OBVIOUS
      <4>1. i \in drainer.todo /\ Wo(i) \notin drainer.blocked /\ ~Busy
        BY <3>1 DEF Sendable, Busy
      <4>2. k \notin Sendable
        BY <3>1 DEF Before, Op
      <4>3. k \notin drainer.todo
        BY <4>1, <4>2 DEF Sendable, Before
      <4> QED BY <3>1, <4>1, <4>3 DEF OrderInv
    <3>2. CASE drainer.at = "retrying" /\ i = drainer.op
      BY <3>2 DEF OrderInv, Busy
    <3> QED BY <2>1, <3>1, <3>2
  <2>4. \A k, j \in Op : Before(k, j)' <=> Before(k, j)
    BY <2>2 DEF SameOps, Before
  <2>5. \A j \in drainer'.todo : j \in Op /\ j \in drainer.todo /\ j > i /\ Wo(j)' = Wo(j)
    BY <1>a, <2>2 DEF Op, SameOps
  <2>6. ASSUME NEW k \in Op, NEW j \in drainer'.todo, Before(k, j), Wo(j) \notin drainer.blocked
        PROVE  Done(k) \/ k \in drainer'.todo \/ k = i
    <3>1. CASE k \in drainer.todo /\ k < i
      <4>1. drainer.at = "retrying" => k > i
        BY <2>1, <3>1 DEF OrderInv, Busy
      <4>2. k \in Sendable
        BY <2>6, <3>1 DEF Sendable, Before
      <4> QED BY <2>1, <3>1, <4>1, <4>2 DEF Op
    <3>2. CASE ~(k \in drainer.todo /\ k < i)
      <4>1. Done(k) \/ k \in drainer.todo \/ k = i
        BY <2>1, <2>5, <2>6 DEF OrderInv, Busy
      <4> QED BY <2>2, <3>2, <4>1 DEF Op
    <3> QED BY <3>1, <3>2
  <2>7. \A k \in Op : Done(k)' <=> Done(k)
    BY <2>2 DEF Done
  <2>8. (\A k, j \in Op : Before(k, j) /\ applied[j] > 0 => Done(k))'
    BY <2>2, <2>4, <2>7 DEF OrderInv
  <2>9. (\A q \in net, k \in Op : Before(k, q.op) => Done(k))'
    BY <1>a, <2>2, <2>3, <2>4, <2>7 DEF OrderInv
  <2>10. (Busy => \A k \in Op : Before(k, drainer.op) => Done(k))'
    BY <2>2, <2>3, <2>4, <2>7
  <2>11. (Busy => \A j \in drainer.todo : j > drainer.op)'
    BY <2>2, <2>5
  <2>12. (drainer.at \notin {"idle", "closing"} =>
            \A k \in Op, j \in drainer.todo :
              Before(k, j) /\ Wo(j) \notin drainer.blocked => Done(k) \/ k \in drainer.todo \/ (Busy /\ k = drainer.op))'
    BY <2>2, <2>4, <2>5, <2>6, <2>7
  <2> QED BY <2>8, <2>9, <2>10, <2>11, <2>12 DEF OrderInv
<1>5. CASE OnSuccess \/ OnLockConflict \/ RetryAfterConflict
  <2>1. /\ SameOps /\ UNCHANGED <<applied, net>> /\ Busy /\ Busy' /\ drainer'.op = drainer.op
        /\ drainer'.todo = drainer.todo /\ drainer'.blocked = drainer.blocked
    BY <1>5, OnSuccessSteps, OnLockConflictSteps, RetryAfterConflictSteps DEF Busy, DrainKeeps, server
  <2> QED BY <1>b, <2>1 DEF Busy
<1>6. CASE Settle
  <2>1. /\ SameOps /\ UNCHANGED <<applied, net, gone>> /\ Busy /\ ~Busy' /\ DrainKeeps /\ drainer'.at = "picking"
        /\ drainer.at = "settling"
    BY <1>6, SettleSteps DEF Busy, server, history
  <2>2. \A i \in Op : i = drainer.op => Done(i)'
    BY <2>1 DEF Done, LostInv
  <2> QED BY <1>b, <2>1, <2>2 DEF DrainKeeps
<1>7. CASE StopInConflict \/ OnRefused
  <2>1. /\ SameOps /\ UNCHANGED <<applied, net, gone>> /\ Busy /\ ~Busy' /\ drainer'.todo = drainer.todo
        /\ drainer.blocked \subseteq drainer'.blocked
        /\ Wo(drainer.op) \in drainer'.blocked \/ Additive(drainer.op)
        /\ drainer.at \notin {"idle", "closing"}
    BY <1>7, StopInConflictSteps, OnRefusedSteps DEF Busy, server, history
  <2> QED BY <1>b, <2>1 DEF Additive
<1>8. CASE OnUnavailable \/ TimeOut \/ FinishDrain \/ FinalPull \/ Abort
  <2>1. SameOps /\ UNCHANGED <<applied, net>> /\ drainer'.at \in {"idle", "closing"}
    BY <1>8, StopSteps, FinishDrainSteps, EndSteps DEF server
  <2>2. drainer'.todo \subseteq drainer.todo
    BY <1>8, EndSteps DEF OnUnavailable, TimeOut, StopDraining, FinishDrain, Typed, DrainType
  <2> QED BY <1>b, <2>1, <2>2 DEF Busy
<1>9. CASE PullProgress \/ UNCHANGED vars
  <2>1. SameOps /\ UNCHANGED <<applied, net, drainer>>
    BY <1>9, PullProgressSteps, QueueUnchanged DEF vars, server
  <2> QED BY <1>b, <2>1 DEF Busy
<1>10. CASE \/ \E q \in net : Reject(q) \/ Lose(q)
            \/ \E i \in Op : GrowStale(i) \/ Purge(i)
            \/ \E w \in WorkOrder : Touch(w)
  <2>1. SameOps /\ UNCHANGED drainer
    BY <1>10, ServerSteps DEF Serves
  <2>2. applied' = applied /\ net' \subseteq net
    BY <1>10, RejectSteps, AgeSteps DEF Lose, Touch, Answer, server
  <2> QED BY <1>b, <2>1, <2>2 DEF Busy
<1>11. ASSUME NEW q \in net, Accept(q) \/ Commit(q) \/ CommitUnrecorded(q) PROVE OrderInv'
  <2>1. SameOps /\ UNCHANGED <<drainer, gone>>
    BY <1>11, ServerSteps DEF Serves
  <2>2. \A r \in net' : \E s \in net : r.op = s.op
    BY <1>11, AcceptSteps, CommitSteps, CommitUnrecordedSteps DEF Claims, Replays, Answer, Begun
  <2>3. \A j \in Op : applied'[j] > 0 => applied[j] > 0 \/ j = q.op
    BY <1>11, AcceptSteps, CommitSteps, CommitUnrecordedSteps, TakeEffectSteps
  <2>4. \A k, j \in Op : Before(k, j)' <=> Before(k, j)
    BY <2>1 DEF SameOps, Before
  <2>5. (\A k, j \in Op : Before(k, j) /\ applied[j] > 0 => Done(k))'
    BY <1>0, <2>3, <2>4 DEF OrderInv
  <2>6. (\A r \in net, k \in Op : Before(k, r.op) => Done(k))'
    BY <1>0, <1>a, <2>2, <2>4 DEF OrderInv
  <2>7. (Busy => \A k \in Op : Before(k, drainer.op) => Done(k))'
    BY <1>0, <1>a, <2>1, <2>4 DEF OrderInv, Busy
  <2>8. (drainer.at \notin {"idle", "closing"} =>
            \A k \in Op, j \in drainer.todo :
              Before(k, j) /\ Wo(j) \notin drainer.blocked => Done(k) \/ k \in drainer.todo \/ (Busy /\ k = drainer.op))'
    <3>1. \A j \in drainer.todo : j \in Op /\ Wo(j)' = Wo(j)
      BY <1>a, <2>1 DEF SameOps
    <3> QED BY <1>0, <2>1, <2>4, <3>1 DEF OrderInv, Busy
  <2> QED BY <2>1, <2>5, <2>6, <2>7, <2>8 DEF OrderInv, Busy
<1> QED BY <1>1, <1>2, <1>3, <1>4, <1>5, <1>6, <1>7, <1>8, <1>9, <1>10, <1>11
        DEF PullProgress, Next, UserStep, DrainStep, Begin, Finish

(* A transition or a part removal holds back the later operations of its work order: none takes effect
   before it did, or was discarded, however the answers come and whatever is retried. *)
THEOREM OperationsInOrder == Spec => []InOrder
<1>1. OrderInv => InOrder
  BY DEF OrderInv, InOrder, Before, Done
<1> QED BY <1>1, InitTyped, StepTyped, InitKey, StepKey, InitLost, StepLost, InitOrder, StepOrder, PTL DEF Spec

-----------------------------------------------------------------------------
(* While nothing failed *)

(* What only a failure does. *)
LEMMA CalmSteps ==
  ASSUME Typed, [Next]_vars, NothingFailed'
  PROVE  NothingFailed /\ ~Spend("failures") /\ ~Spend("ages")
<1>1. ~Spend("failures") /\ ~Spend("ages")
  BY BoundsAssumption DEF Typed, BudgetType, Spend, NothingFailed
<1>2. CASE budget' = budget
  BY <1>1, <1>2 DEF NothingFailed
<1>3. ASSUME NEW what \in {"touches", "retries", "pulls"}, Spend(what) PROVE NothingFailed
  BY <1>3 DEF Typed, BudgetType, Spend, NothingFailed
<1>4. CASE SendNext \/ Resend
  <2>1. PICK i \in Op, tries \in 0..MAX_ADDITIVE_RETRIES : Used(i) /\ Transmit(i, tries)
    BY <1>4, SendFacts
  <2> QED BY <1>1, <1>2, <2>1, TransmitSteps
<1>5. CASE PullProgress
  BY <1>1, <1>2, <1>3, <1>5, PullProgressSteps
<1>6. CASE Serves
  <2>1. budget' = budget
    BY <1>1, <1>6, AcceptSteps, CommitSteps, CommitUnrecordedSteps, RejectSteps, AgeSteps DEF Serves
  <2> QED BY <1>1, <1>2, <2>1
<1> QED BY <1>1, <1>2, <1>3, <1>4, <1>5, <1>6
        DEF PullProgress, Serves, Next, UserStep, DrainStep, Begin, Finish, vars, Enqueue, RetryOp, DiscardOp, StartDrain,
            OnSuccess, Settle, OnLockConflict, RetryAfterConflict, StopInConflict, OnRefused, OnUnavailable, TimeOut,
            FinishDrain, FinalPull, Abort, Touch, Lose

(* Every key row tells what the requests of its operation did. *)
CalmRows ==
  /\ unguarded = {}
  /\ \A i \in Op : keyRow[i].state # "STALE" /\ (keyRow[i].state = "IN_PROGRESS" => Runs(i))

(* The drain waits for the only request there is, an operation is marked IN_FLIGHT while the drain
   works on it and then only, and no answer tells the drain to stop. *)
CalmDrain ==
  /\ \A q \in net : /\ drainer.at = "waiting" /\ reply.kind = "none"
                    /\ q.op = drainer.op /\ q.n = drainer.n
  /\ \A q, r \in net : q = r
  /\ reply.kind \notin {"inProgress", "unavailable"}
  /\ Busy => Status(drainer.op) \in {"IN_FLIGHT", "GONE"} /\ drainer.op \notin drainer.todo
  /\ \A i \in Op : Status(i) = "IN_FLIGHT" => Busy /\ drainer.op = i
  /\ \A i \in drainer.todo : Status(i) \in {"PENDING", "GONE"}

CalmInv == NothingFailed => CalmRows /\ CalmDrain

LEMMA InitCalm == Init => CalmInv
BY DEF Init, CalmInv, CalmRows, CalmDrain, Idle, NoReply, NoRow, Busy, Status, NoOp

(* Nothing grows old, and nothing commits that is not recorded. *)
LEMMA CalmServes ==
  ASSUME Typed, KeyInv, CalmInv, NothingFailed, ~Spend("failures"), ~Spend("ages")
  PROVE  /\ \A q \in net : ~CommitUnrecorded(q)
         /\ \A i \in Op : ~GrowStale(i) /\ ~Purge(i)
         /\ \A q \in net : q.running => keyRow[q.op].state = "IN_PROGRESS"
         /\ \A i \in Op : applied[i] = IF keyRow[i].state = "DONE" THEN 1 ELSE 0
<1>1. \A q \in net : q.op \in Op
  BY RequestFacts
<1>2. \A i \in Op : Guarded(i) /\ keyRow[i].state # "STALE"
  BY DEF KeyInv, CalmInv, CalmRows
<1>3. \A q \in net : q.running => keyRow[q.op].state = "IN_PROGRESS"
  BY <1>1, <1>2 DEF Guarded
<1>4. \A q \in net : ~CommitUnrecorded(q)
  BY <1>3, CommitUnrecordedSteps, TakeEffectSteps, NoRowType
<1>5. \A i \in Op : ~GrowStale(i) /\ ~Purge(i)
  BY AgeSteps DEF CalmInv, CalmRows, Purge, GrowStale
<1> QED BY <1>2, <1>3, <1>4, <1>5 DEF Guarded

(* Which step may come next, and what it does, when nothing failed: the steps grouped by what they
   write.  The server answers the request the drain waits for, and is heard. *)
LEMMA CalmAnswer ==
  ASSUME Typed, KeyInv, CalmInv, NothingFailed, NEW q \in net,
         Accept(q) \/ Commit(q) \/ CommitUnrecorded(q) \/ Reject(q) \/ Lose(q), ~Spend("failures"), ~Spend("ages")
  PROVE  /\ net = {q} /\ drainer.at = "waiting" /\ reply.kind = "none" /\ q.op = drainer.op /\ q.n = drainer.n
         /\ UNCHANGED <<queue, local, cursor, pulls, drainer, uploaded, history, budget>> /\ SameOps /\ WritesNothing
         /\ \A i \in Op : i # q.op => keyRow'[i] = keyRow[i]
         /\ \/ /\ reply' = reply /\ UNCHANGED <<version, applied>>
               /\ keyRow[q.op].state = "ABSENT" /\ keyRow'[q.op].state = "IN_PROGRESS"
               /\ \E r : net' = {r} /\ r.op = q.op /\ r.n = q.n /\ r.expected = q.expected /\ r.running
            \/ /\ net' = {} /\ reply'.kind = "refused" /\ UNCHANGED <<version, applied>>
               /\ keyRow'[q.op].state \in {"ABSENT", "DONE"}
            \/ /\ net' = {} /\ keyRow[q.op].state = "DONE" /\ UNCHANGED <<version, applied, keyRow>>
               /\ reply'.kind = "ok" /\ reply'.version = keyRow[q.op].version
            \/ /\ net' = {} /\ Commit(q) /\ reply'.kind = "ok" /\ reply'.version = version'[Wo(q.op)]
               /\ keyRow'[q.op].state = "DONE"
            \/ /\ net' = {} /\ keyRow[q.op].state = "IN_PROGRESS" /\ ~UpToDate(q) /\ reply'.kind = "conflict"
               /\ UNCHANGED <<version, applied>> /\ keyRow'[q.op].state = "ABSENT"
<1>1. /\ net = {q} /\ drainer.at = "waiting" /\ reply.kind = "none" /\ q.op = drainer.op /\ q.n = drainer.n
      /\ net \ {q} = {} /\ q.op \in Op
  BY RequestFacts DEF CalmInv, CalmDrain
<1>2. UNCHANGED <<queue, local, cursor, pulls, drainer, uploaded, gone, conflicts, putBack>> /\ SameOps /\ WritesNothing
  BY ServerSteps DEF Serves
<1>3. ~Lose(q) /\ ~CommitUnrecorded(q)
  BY <1>1, CalmServes DEF Lose
<1>4. ASSUME NEW kind, NEW v, Answer(q, kind, v) PROVE net' = {} /\ reply'.kind = kind /\ reply'.version = v
  BY <1>1, <1>4 DEF Answer
<1>5. CASE Accept(q)
  <2>0. UNCHANGED <<version, applied, budget>> /\ keyRow' \in [Op -> KeyRow]
    BY <1>5, AcceptSteps
  <2>1. q.running = FALSE /\ keyRow[q.op].state \in {"ABSENT", "DONE"}
    <3>1. q.running = FALSE
      BY <1>5, AcceptSteps, RequestFacts
    <3>2. ~Runs(q.op)
      BY <1>1, <3>1 DEF Runs
    <3>3. keyRow[q.op].state \in {"ABSENT", "IN_PROGRESS", "STALE", "DONE"}
      BY <1>1 DEF Typed, ServerType, KeyRow
    <3> QED BY <1>1, <3>1, <3>2, <3>3 DEF CalmInv, CalmRows
  <2>2. CASE Replays(q)
    <3>1. UNCHANGED <<keyRow, unguarded>>
      BY <2>2 DEF Replays
    <3>2. CASE Answer(q, "refused", 0)
      BY <1>1, <1>2, <1>4, <2>0, <2>1, <3>1, <3>2 DEF history
    <3>3. CASE keyRow[q.op].state = "DONE" /\ Answer(q, "ok", keyRow[q.op].version)
      BY <1>1, <1>2, <1>4, <2>0, <3>1, <3>3 DEF history
    <3> QED BY <2>1, <2>2, <3>2, <3>3 DEF Replays
  <2>3. CASE Claims(q)
    <3> DEFINE r == [q EXCEPT !.running = TRUE]
    <3>1. net' = {r} /\ r.op = q.op /\ r.n = q.n /\ r.expected = q.expected /\ r.running
      BY <1>1, <2>3 DEF Claims, Begun
    <3>2. /\ keyRow'[q.op].state = "IN_PROGRESS" /\ reply' = reply
          /\ \A i \in Op : i # q.op => keyRow'[i] = keyRow[i]
      BY <2>3 DEF Claims
    <3>3. keyRow[q.op].state = "ABSENT"
      BY <2>1, <2>3, NoRowType DEF Claims
    <3>4. ~Runs(q.op)
      BY <1>1, <2>1 DEF Runs
    <3>5. unguarded' = unguarded
      BY <2>3, <3>4 DEF Claims
    <3> HIDE DEF r
    <3> QED BY <1>1, <1>2, <2>0, <3>1, <3>2, <3>3, <3>5 DEF history
  <2> QED BY <1>5, <2>2, <2>3, AcceptSteps
<1>6. CASE Commit(q)
  <2>1. /\ UNCHANGED <<history, budget>> /\ Answer(q, "ok", Clock + 1)
        /\ keyRow'[q.op].state = "DONE" /\ \A j \in Op \ {q.op} : keyRow'[j] = keyRow[j]
        /\ version'[Wo(q.op)] = Clock + 1
    BY <1>6, CommitSteps, TakeEffectSteps
  <2> QED BY <1>1, <1>2, <1>4, <1>6, <2>1
<1>7. CASE Reject(q)
  <2>1. /\ UNCHANGED <<history, version, applied, budget>> /\ \A j \in Op \ {q.op} : keyRow'[j] = keyRow[j]
        /\ (~UpToDate(q) /\ Answer(q, "conflict", 0)) \/ Answer(q, "refused", 0)
        /\ q.running
    BY <1>7, RejectSteps
  <2>2. keyRow[q.op].state = "IN_PROGRESS"
    BY <2>1, CalmServes
  <2>3. keyRow' = [keyRow EXCEPT ![q.op] = NoRow]
    BY <1>7 DEF Reject, Release
  <2>4. keyRow'[q.op].state = "ABSENT"
    BY <1>1, <2>3, NoRowType DEF Typed, ServerType
  <2> QED BY <1>1, <1>2, <1>4, <2>1, <2>2, <2>4
<1> QED BY <1>3, <1>5, <1>6, <1>7

LEMMA StepCalmRows ==
  ASSUME Typed, KeyInv, CalmInv, [Next]_vars, NothingFailed'
  PROVE  CalmRows'
<1>0. NothingFailed /\ ~Spend("failures") /\ ~Spend("ages")
  BY CalmSteps
<1>1. CASE UNCHANGED <<keyRow, unguarded>> /\ net \subseteq net'
  BY <1>0, <1>1 DEF CalmInv, CalmRows, Runs
<1>2. CASE SendNext \/ Resend
  <2>1. PICK i \in Op, tries \in 0..MAX_ADDITIVE_RETRIES : Used(i) /\ Transmit(i, tries)
    BY <1>2, SendFacts
  <2> QED BY <1>1, <2>1, TransmitSteps DEF server, history
<1>3. ASSUME NEW q \in net, Accept(q) \/ Commit(q) \/ CommitUnrecorded(q) \/ Reject(q) \/ Lose(q) PROVE CalmRows'
  <2>1. /\ q.op \in Op /\ net = {q} /\ unguarded' = unguarded
        /\ \A i \in Op : i # q.op => keyRow'[i] = keyRow[i]
    BY <1>0, <1>3, CalmAnswer, RequestFacts DEF history
  <2>2. \/ keyRow'[q.op].state \in {"ABSENT", "DONE"}
        \/ keyRow'[q.op].state = "IN_PROGRESS" /\ \E r : net' = {r} /\ r.op = q.op /\ r.running
    BY <1>0, <1>3, CalmAnswer
  <2>3. \A i \in Op : i # q.op => keyRow[i].state \notin {"STALE", "IN_PROGRESS"}
    BY <1>0, <2>1 DEF CalmInv, CalmRows, Runs
  <2> QED BY <1>0, <2>1, <2>2, <2>3 DEF CalmInv, CalmRows, Runs
<1>4. ~\E i \in Op : GrowStale(i) \/ Purge(i)
  BY <1>0, CalmServes
<1> QED BY <1>1, <1>2, <1>3, <1>4, OtherSteps DEF Serves

LEMMA StepCalmDrain ==
  ASSUME Typed, KeyInv, CalmInv, [Next]_vars, NothingFailed'
  PROVE  CalmDrain'
<1>0. NothingFailed /\ ~Spend("failures") /\ ~Spend("ages") /\ Typed'
  BY CalmSteps, StepTyped
<1>1. drainer.todo \subseteq Op /\ (Busy => drainer.op \in Op) /\ \A q \in net : q.op \in Op
  BY DEF Typed, DrainType, NetType, Request
<1>2. ASSUME NEW i \in Op, NEW w \in WorkOrder, NEW k \in Kinds, Enqueue(i, w, k) PROVE CalmDrain'
  <2>1. /\ Status(i)' = "PENDING" /\ i \notin drainer.todo /\ (Busy => drainer.op # i)
        /\ \A j \in Op \ {i} : Status(j)' = Status(j)
    BY <1>2, EnqueueSteps DEF Typed, InUse, Status
  <2> QED BY <1>0, <1>1, <1>2, <2>1, EnqueueSteps DEF CalmInv, CalmDrain, Busy
<1>3. ASSUME NEW i \in Op, RetryOp(i) PROVE CalmDrain'
  <2>1. \A j \in Op : Status(j)' = IF j = i THEN "PENDING" ELSE Status(j)
    BY <1>3, RetryOpSteps DEF Writes, Queued
  <2>2. Busy => drainer.op # i
    BY <1>0, <1>3, RetryOpSteps DEF CalmInv, CalmDrain
  <2>3. i \notin drainer.todo
    BY <1>0, <1>3, RetryOpSteps DEF CalmInv, CalmDrain
  <2> QED BY <1>0, <1>1, <1>3, <2>1, <2>2, <2>3, RetryOpSteps DEF CalmInv, CalmDrain, Busy
<1>4. ASSUME NEW i \in Op, DiscardOp(i) PROVE CalmDrain'
  BY <1>0, <1>1, <1>4, DiscardOpSteps DEF CalmInv, CalmDrain, Busy
<1>5. CASE StartDrain
  <2>1. \A j \in Op : Status(j) # "IN_FLIGHT"
    BY <1>0, <1>5, StartDrainSteps DEF CalmInv, CalmDrain, Busy
  <2>2. ~Busy /\ ~Busy' /\ net = {}
    BY <1>0, <1>5, StartDrainSteps DEF CalmInv, CalmDrain, Busy
  <2>3. \A j \in Op : Status(j)' = Status(j)
    BY <1>5, <2>1, StartDrainSteps
  <2>4. \A j \in drainer'.todo : j \in Op /\ Status(j)' = "PENDING"
    BY <1>5, <2>1, <2>3, StartDrainSteps
  <2> QED BY <1>0, <1>5, <2>1, <2>2, <2>3, <2>4, StartDrainSteps DEF CalmInv, CalmDrain
<1>6. CASE SendNext \/ Resend
  <2>1. PICK i \in Op, tries \in 0..MAX_ADDITIVE_RETRIES :
               /\ Used(i) /\ Transmit(i, tries)
               /\ (drainer.at = "picking" /\ i \in drainer.todo) \/ (drainer.at = "retrying" /\ i = drainer.op)
    BY <1>6, SendFacts DEF Sendable
  <2>2. net = {}
    BY <1>0, <2>1 DEF CalmInv, CalmDrain
  <2>3. Status(i) \in {"PENDING", "IN_FLIGHT", "GONE"}
    BY <1>0, <2>1 DEF CalmInv, CalmDrain, Busy
  <2>4. Status(i)' \in {"IN_FLIGHT", "GONE"} /\ \A j \in Op \ {i} : Status(j)' = Status(j)
    BY <2>1, <2>3, TransmitSteps DEF Queued
  <2>5. \A j \in Op \ {i} : Status(j) # "IN_FLIGHT"
    BY <1>0, <2>1 DEF CalmInv, CalmDrain, Busy
  <2>6. i \notin drainer'.todo /\ drainer'.todo \subseteq drainer.todo /\ drainer'.op = i /\ drainer'.at = "waiting"
    BY <2>1, TransmitSteps DEF Op
  <2>7. reply'.kind \in {"none", "refused"} /\ (net' = {} \/ reply'.kind = "none")
    BY <2>1, <2>2, TransmitSteps DEF NoReply
  <2>8. (\A q \in net' : q.op = drainer'.op /\ q.n = drainer'.n) /\ \A q, r \in net' : q = r
    <3> DEFINE request == [op |-> i, n |-> drainer'.n, running |-> FALSE,
                           expected |-> IF Kind(i) \in Locked THEN local[Wo(i)] ELSE Unlocked]
    <3>1. request.op = i /\ request.n = drainer'.n
      OBVIOUS
    <3>2. net' = net \/ net' = net \cup {request}
      BY <2>1, TransmitSteps
    <3> HIDE DEF request
    <3> QED BY <2>2, <2>6, <3>1, <3>2
  <2> QED BY <1>0, <1>1, <2>4, <2>5, <2>6, <2>7, <2>8 DEF CalmInv, CalmDrain, Busy
<1>7. CASE OnSuccess \/ OnLockConflict \/ RetryAfterConflict
  <2>1. /\ drainer'.op = drainer.op /\ drainer'.todo = drainer.todo /\ drainer'.n = drainer.n
        /\ Busy /\ Busy' /\ UNCHANGED <<net, reply, queue>> /\ net = {}
    BY <1>0, <1>7, OnSuccessSteps, OnLockConflictSteps, RetryAfterConflictSteps
       DEF CalmInv, CalmDrain, Busy, DrainKeeps, OnSuccess, OnLockConflict, RetryAfterConflict, Typed, DrainType
  <2> QED BY <1>0, <1>1, <2>1, QueueUnchanged DEF CalmInv, CalmDrain
<1>8. CASE Settle
  <2>1. Busy /\ ~Busy' /\ net = {} /\ UNCHANGED <<net, reply>> /\ drainer'.todo = drainer.todo
        /\ \A j \in Op : Status(j)' = IF j = drainer.op THEN "GONE" ELSE Status(j)
    BY <1>0, <1>8, SettleSteps DEF CalmInv, CalmDrain, Busy, DrainKeeps
  <2> QED BY <1>0, <1>1, <2>1 DEF CalmInv, CalmDrain
<1>9. CASE StopInConflict \/ OnRefused
  <2>1. PICK status, n : status \in {"CONFLICT", "FAILED"} /\ Writes(drainer.op, status, n)
    BY <1>9, StopInConflictSteps, OnRefusedSteps
  <2>2. Busy /\ ~Busy' /\ net = {} /\ UNCHANGED <<net, reply>> /\ drainer'.todo = drainer.todo
    BY <1>0, <1>9, StopInConflictSteps, OnRefusedSteps DEF CalmInv, CalmDrain, Busy
  <2>3. Status(drainer.op) \in {"IN_FLIGHT", "GONE"}
    BY <1>0, <2>2 DEF CalmInv, CalmDrain
  <2>4. \A j \in Op : Status(j)' = Status(j) \/ (j = drainer.op /\ Status(j)' = status)
    BY <2>1 DEF Writes
  <2>5. \A j \in Op : j = drainer.op => Status(j)' \in {status, "GONE"}
    BY <1>1, <2>1, <2>2, <2>3 DEF Writes, Queued
  <2>7. status # "IN_FLIGHT"
    BY <2>1
  <2>6. \A j \in Op : Status(j)' # "IN_FLIGHT"
    BY <1>0, <2>2, <2>4, <2>5, <2>7 DEF CalmInv, CalmDrain
  <2> QED BY <1>0, <1>1, <2>2, <2>4, <2>6 DEF CalmInv, CalmDrain
<1>10. CASE OnUnavailable \/ TimeOut
  BY <1>0, <1>10, StopSteps DEF CalmInv, CalmDrain
<1>11. CASE FinishDrain
  BY <1>0, <1>1, <1>11, FinishDrainSteps DEF CalmInv, CalmDrain, Busy, WritesNothing, FinishDrain, Typed, DrainType
<1>12. CASE FinalPull \/ Abort
  BY <1>0, <1>1, <1>12, EndSteps DEF CalmInv, CalmDrain, Busy, WritesNothing
<1>13. CASE PullProgress
  BY <1>0, <1>1, <1>13, PullProgressSteps DEF CalmInv, CalmDrain, Busy, WritesNothing
<1>14. ASSUME NEW q \in net, Accept(q) \/ Commit(q) \/ CommitUnrecorded(q) \/ Reject(q) \/ Lose(q) PROVE CalmDrain'
  <2>1. /\ drainer' = drainer /\ WritesNothing /\ drainer.at = "waiting"
        /\ reply'.kind \notin {"inProgress", "unavailable"}
    BY <1>0, <1>14, CalmAnswer
  <2>2. \/ net' = {}
        \/ reply'.kind = "none" /\ \E r : net' = {r} /\ r.op = drainer.op /\ r.n = drainer.n
    BY <1>0, <1>14, CalmAnswer
  <2>3. (Busy' <=> Busy) /\ \A j \in Op : Status(j)' = Status(j)
    BY <2>1 DEF Busy, WritesNothing
  <2> QED BY <1>0, <1>1, <2>1, <2>2, <2>3 DEF CalmInv, CalmDrain
<1>15. ASSUME NEW w \in WorkOrder, Touch(w) PROVE CalmDrain'
  BY <1>0, <1>1, <1>15, ServerSteps DEF Touch, CalmInv, CalmDrain, Busy, WritesNothing
<1>16. CASE UNCHANGED vars
  BY <1>0, <1>1, <1>16, QueueUnchanged DEF vars, CalmInv, CalmDrain, Busy
<1>17. ~\E i \in Op : GrowStale(i) \/ Purge(i)
  BY <1>0, CalmServes
<1> QED BY <1>2, <1>3, <1>4, <1>5, <1>6, <1>7, <1>8, <1>9, <1>10, <1>11, <1>12, <1>13, <1>14, <1>15, <1>16, <1>17
        DEF PullProgress, Next, UserStep, DrainStep, Begin, Finish

LEMMA StepCalm == Typed /\ KeyInv /\ CalmInv /\ [Next]_vars => CalmInv'
BY StepCalmRows, StepCalmDrain DEF CalmInv

-----------------------------------------------------------------------------
(* A lock conflict is retried as often as the operation allows *)

(* The attempts of a drain are the conflicts the operation met; one that is not additive is sent once;
   and an operation that waits for a drain starts anew. *)
CountInv ==
  /\ drainer.at = "retrying" => drainer.tries < MAX_ADDITIVE_RETRIES
  /\ NothingFailed =>
       /\ Busy => /\ drainer.tries < MAX_ADDITIVE_RETRIES
                  /\ drainer.at # "pulling" => conflicts[drainer.op] = drainer.tries
                  /\ drainer.at = "pulling" => conflicts[drainer.op] = drainer.tries + 1
                  /\ Additive(drainer.op) \/ drainer.tries = 0
       /\ \A i \in Op : Status(i) \in {"UNUSED", "PENDING"} \/ i \in drainer.todo =>
                          queue[i].attempts = 0 /\ conflicts[i] = 0
       /\ \A i \in Op : Status(i) = "CONFLICT" /\ Additive(i) => conflicts[i] = MAX_ADDITIVE_RETRIES

LEMMA InitCount == Init => CountInv
BY DEF Init, CountInv, Idle, Busy, Status, NoOp

LEMMA SameAdditive == SameOps => \A i \in Op : Additive(i)' <=> Additive(i)
BY DEF SameOps, Additive

LEMMA StepCount == Typed /\ KeyInv /\ CalmInv /\ CountInv /\ [Next]_vars => CountInv'
<1> SUFFICES ASSUME Typed, KeyInv, CalmInv, CountInv, [Next]_vars PROVE CountInv'
  OBVIOUS
<1>0. (NothingFailed' => NothingFailed /\ ~Spend("failures") /\ ~Spend("ages")) /\ MAX_ADDITIVE_RETRIES \in Nat \ {0}
  BY CalmSteps, RetriesAssumption
<1>1. /\ drainer.todo \subseteq Op /\ (Busy => drainer.op \in Op) /\ drainer.tries \in 0..MAX_ADDITIVE_RETRIES
      /\ conflicts \in [Op -> 0..MAX_ADDITIVE_RETRIES]
  BY DEF Typed, DrainType, HistoryType
<1>2. ASSUME NEW i \in Op, NEW w \in WorkOrder, NEW k \in Kinds, Enqueue(i, w, k) PROVE CountInv'
  <2>1. /\ Status(i)' = "PENDING" /\ i \notin drainer.todo /\ (Busy => drainer.op # i)
        /\ Status(i) = "UNUSED" /\ queue'[i].attempts = 0
        /\ \A j \in Op \ {i} : queue'[j] = queue[j]
    BY <1>2, EnqueueSteps DEF Typed, InUse, Used
  <2>2. \A j \in Op \ {i} : Status(j)' = Status(j) /\ (Additive(j)' <=> Additive(j))
    BY <2>1 DEF Status, Additive, Kind
  <2>3. UNCHANGED <<drainer, conflicts, budget>>
    BY <1>2, EnqueueSteps DEF history
  <2>4. Busy => (Additive(drainer.op)' <=> Additive(drainer.op))
    BY <1>1, <2>1, <2>3 DEF Additive, Kind
  <2> QED BY <1>0, <1>1, <2>1, <2>2, <2>3, <2>4 DEF CountInv, Busy, NothingFailed
<1>3. ASSUME NEW i \in Op, RetryOp(i) PROVE CountInv'
  <2>1. \A j \in Op : /\ Status(j)' = IF j = i THEN "PENDING" ELSE Status(j)
                      /\ queue'[j].attempts = IF j = i THEN 0 ELSE queue[j].attempts
    BY <1>3, RetryOpSteps DEF Writes, Queued
  <2>2. NothingFailed => (Busy => drainer.op # i)
    BY <1>3, RetryOpSteps DEF CalmInv, CalmDrain
  <2>3. \A j \in Op : conflicts'[j] = IF j = i THEN 0 ELSE conflicts[j]
    BY <1>1, <1>3, RetryOpSteps
  <2>4. drainer' = drainer /\ SameOps
    BY <1>3, RetryOpSteps
  <2> QED BY <1>0, <1>1, <2>1, <2>2, <2>3, <2>4, SameAdditive DEF CountInv, Busy
<1>4. ASSUME NEW i \in Op, DiscardOp(i) PROVE CountInv'
  <2>1. UNCHANGED <<drainer, conflicts, budget>> /\ SameOps
    BY <1>4, DiscardOpSteps
  <2> QED BY <1>0, <1>1, <1>4, <2>1, SameAdditive, DiscardOpSteps DEF CountInv, Busy
<1>5. CASE StartDrain
  <2>1. /\ NothingFailed => \A j \in Op : Status(j) # "IN_FLIGHT"
        /\ ~Busy /\ ~Busy' /\ drainer'.at = "picking" /\ conflicts' = conflicts /\ SameOps
    BY <1>5, StartDrainSteps DEF CalmInv, CalmDrain, Busy, history
  <2>2. NothingFailed => \A j \in Op : Status(j)' = Status(j) /\ queue'[j].attempts = queue[j].attempts
    BY <1>5, <2>1, StartDrainSteps
  <2>3. NothingFailed => \A j \in drainer'.todo : Status(j) = "PENDING"
    BY <1>5, <2>1, StartDrainSteps
  <2> QED BY <1>0, <2>1, <2>2, <2>3, SameAdditive DEF CountInv
<1>6. CASE SendNext \/ Resend
  <2>1. PICK i \in Op, tries \in 0..MAX_ADDITIVE_RETRIES :
               /\ Used(i) /\ Transmit(i, tries)
               /\ \/ drainer.at = "picking" /\ i \in drainer.todo /\ tries = queue[i].attempts
                  \/ drainer.at = "retrying" /\ i = drainer.op /\ tries = drainer.tries
    BY <1>6, SendFacts DEF Sendable
  <2>2. /\ SameOps /\ conflicts' = conflicts /\ drainer'.op = i /\ drainer'.tries = tries /\ drainer'.at = "waiting"
        /\ drainer'.todo \subseteq drainer.todo /\ i \notin drainer'.todo
        /\ \A j \in Op : j # i => Status(j)' = Status(j)
        /\ Status(i)' = IF Status(i) \in Queued THEN "IN_FLIGHT" ELSE Status(i)
    BY <2>1, TransmitSteps DEF history, Op
  <2>3. Status(i) # "UNUSED" /\ Status(i) \in Queued \cup {"GONE"}
    BY <2>1, RowFacts DEF Used, Typed
  <2>4. \A j \in Op : j # i => queue'[j].attempts = queue[j].attempts
    <3>1. SetOpStatus(i, "IN_FLIGHT", tries) /\ "IN_FLIGHT" \in Queued
      BY <2>1 DEF Transmit, Queued
    <3> QED BY <2>1, <3>1, SetOpStatusRows DEF Typed
  <2>5. NothingFailed => conflicts[i] = tries /\ tries < MAX_ADDITIVE_RETRIES /\ (Additive(i) \/ tries = 0)
    BY <1>0, <2>1 DEF CountInv, Busy
  <2>6. Status(i)' \in {"IN_FLIGHT", "GONE"}
    BY <2>2, <2>3
  <2> QED BY <1>0, <1>1, <2>1, <2>2, <2>4, <2>5, <2>6, SameAdditive DEF CountInv, Busy
<1>7. CASE OnSuccess \/ Settle
  <2>1. /\ DrainKeeps /\ UNCHANGED conflicts /\ SameOps /\ Busy
        /\ drainer.at # "pulling" /\ drainer'.at \in {"settling", "picking"}
        /\ \A j \in Op : /\ Status(j)' = Status(j) \/ Status(j)' = "GONE"
                         /\ queue'[j].attempts = queue[j].attempts
    BY <1>7, OnSuccessSteps, SettleSteps DEF history, Busy, WritesNothing
  <2> QED BY <1>0, <1>1, <2>1, SameAdditive DEF CountInv, DrainKeeps, Busy
<1>8. CASE OnLockConflict
  <2>1. /\ DrainKeeps /\ SameOps /\ WritesNothing /\ drainer.at = "waiting" /\ drainer'.at = "pulling"
        /\ conflicts' = [conflicts EXCEPT ![drainer.op] = Capped(@ + 1)]
    BY <1>8, OnLockConflictSteps
  <2>2. Busy /\ drainer.op \in Op
    BY <1>1, <2>1 DEF Busy
  <2>3. NothingFailed => Status(drainer.op) \in {"IN_FLIGHT", "GONE"} /\ drainer.op \notin drainer.todo
    BY <2>2 DEF CalmInv, CalmDrain
  <2>4. NothingFailed => conflicts[drainer.op] = drainer.tries /\ drainer.tries < MAX_ADDITIVE_RETRIES
    BY <2>1, <2>2 DEF CountInv
  <2>5. NothingFailed => conflicts'[drainer.op] = drainer.tries + 1
    BY <1>0, <1>1, <2>1, <2>2, <2>4 DEF Capped
  <2>6. \A j \in Op \ {drainer.op} : conflicts'[j] = conflicts[j]
    BY <1>1, <2>1
  <2>7. Additive(drainer.op) => \A j \in Op : j = drainer.op => Additive(j)'
    BY <2>1, SameAdditive
  <2> QED BY <1>0, <1>1, <2>1, <2>2, <2>3, <2>4, <2>5, <2>6, <2>7, SameAdditive DEF CountInv, DrainKeeps, WritesNothing, Busy
<1>9. CASE RetryAfterConflict
  <2>1. /\ SameOps /\ WritesNothing /\ drainer.at = "pulling" /\ drainer'.at = "retrying" /\ Additive(drainer.op)
        /\ drainer'.op = drainer.op /\ drainer'.tries = drainer.tries + 1 /\ drainer'.tries < MAX_ADDITIVE_RETRIES
        /\ drainer'.todo = drainer.todo /\ conflicts' = conflicts
    BY <1>9, RetryAfterConflictSteps DEF history
  <2>2. Busy /\ drainer.op \in Op
    BY <1>1, <2>1 DEF Busy
  <2>3. Additive(drainer.op)'
    BY <2>1, <2>2, SameAdditive DEF Additive, SameOps
  <2> QED BY <1>0, <1>1, <2>1, <2>2, <2>3, SameAdditive DEF CountInv, WritesNothing, Busy
<1>10. CASE StopInConflict
  <2>1. /\ SameOps /\ drainer.at = "pulling" /\ drainer'.at = "picking" /\ drainer'.todo = drainer.todo
        /\ Writes(drainer.op, "CONFLICT", Capped(drainer.tries + 1)) /\ conflicts' = conflicts
        /\ ~Additive(drainer.op) \/ drainer.tries + 1 >= MAX_ADDITIVE_RETRIES
    BY <1>10, StopInConflictSteps DEF history
  <2>2. Busy /\ drainer.op \in Op
    BY <1>1, <2>1 DEF Busy
  <2>3. NothingFailed => Status(drainer.op) \in {"IN_FLIGHT", "GONE"} /\ drainer.op \notin drainer.todo
    BY <2>2 DEF CalmInv, CalmDrain
  <2>4. NothingFailed /\ Additive(drainer.op) => conflicts[drainer.op] = MAX_ADDITIVE_RETRIES
    BY <1>0, <1>1, <2>1, <2>2 DEF CountInv
  <2>5. \A j \in Op \ {drainer.op} : Status(j)' = Status(j) /\ queue'[j].attempts = queue[j].attempts
    BY <2>1 DEF Writes
  <2>6. NothingFailed => \A j \in Op : j = drainer.op => Status(j)' \in {"CONFLICT", "GONE"}
    BY <2>1, <2>2, <2>3 DEF Writes, Queued
  <2> QED BY <1>0, <1>1, <2>1, <2>2, <2>3, <2>4, <2>5, <2>6, SameAdditive DEF CountInv, Busy
<1>11. CASE OnRefused
  <2>1. /\ SameOps /\ drainer.at = "waiting" /\ drainer'.at = "picking" /\ drainer'.todo = drainer.todo
        /\ Writes(drainer.op, "FAILED", Capped(drainer.tries + 1)) /\ conflicts' = conflicts
    BY <1>11, OnRefusedSteps DEF history
  <2>2. Busy /\ drainer.op \in Op
    BY <1>1, <2>1 DEF Busy
  <2>3. NothingFailed => Status(drainer.op) \in {"IN_FLIGHT", "GONE"} /\ drainer.op \notin drainer.todo
    BY <2>2 DEF CalmInv, CalmDrain
  <2>4. \A j \in Op \ {drainer.op} : Status(j)' = Status(j) /\ queue'[j].attempts = queue[j].attempts
    BY <2>1 DEF Writes
  <2>5. NothingFailed => \A j \in Op : j = drainer.op => Status(j)' \in {"FAILED", "GONE"}
    BY <2>1, <2>2, <2>3 DEF Writes, Queued
  <2> QED BY <1>0, <1>1, <2>1, <2>2, <2>3, <2>4, <2>5, SameAdditive DEF CountInv, Busy
<1>12. CASE OnUnavailable \/ TimeOut
  <2>1. drainer'.at = "closing" /\ ~NothingFailed'
    BY <1>0, <1>12, StopSteps DEF CalmInv, CalmDrain
  <2> QED BY <2>1 DEF CountInv
<1>13. CASE FinishDrain \/ FinalPull \/ Abort
  <2>1. /\ SameOps /\ WritesNothing /\ conflicts' = conflicts /\ ~Busy' /\ drainer'.todo \subseteq drainer.todo
    BY <1>13, FinishDrainSteps, EndSteps DEF history, Busy, FinishDrain, Typed, DrainType
  <2> QED BY <1>0, <1>1, <2>1, SameAdditive DEF CountInv, WritesNothing, Busy
<1>14. CASE SameOps /\ WritesNothing /\ UNCHANGED <<drainer, conflicts>>
  BY <1>0, <1>1, <1>14, SameAdditive DEF CountInv, WritesNothing, Busy
<1>15. CASE PullProgress \/ UNCHANGED vars
  BY <1>14, <1>15, PullProgressSteps, QueueUnchanged DEF vars, WritesNothing
<1>16. CASE Serves \/ \E q \in net : Lose(q)
  BY <1>14, <1>16, ServerSteps
<1>17. ASSUME NEW w \in WorkOrder, Touch(w) PROVE CountInv'
  BY <1>14, <1>17, ServerSteps
<1> QED BY <1>2, <1>3, <1>4, <1>5, <1>6, <1>7, <1>8, <1>9, <1>10, <1>11, <1>12, <1>13, <1>15, <1>16, <1>17
        DEF PullProgress, Serves, Next, UserStep, DrainStep, Begin, Finish

(* A drain retries an additive operation a bounded number of times, and leaves it in CONFLICT only
   after every one of these attempts met a 409, as long as no request failed. *)
THEOREM EveryRetryIsMade == Spec => []AdditiveIsRetried
<1>1. CountInv => AdditiveIsRetried
  BY DEF CountInv, AdditiveIsRetried
<1> QED BY <1>1, InitTyped, StepTyped, InitKey, StepKey, InitCalm, StepCalm, InitCount, StepCount, PTL DEF Spec

-----------------------------------------------------------------------------
(* An operation that is not additive is replayed with the technician's consent *)

(* Who met a conflict was not applied. *)
ConsentInv ==
  NothingFailed =>
    /\ drainer.at = "waiting" /\ reply.kind = "conflict" => applied[drainer.op] = 0
    /\ \A i \in Op : ~Additive(i) /\ conflicts[i] > 0 => applied[i] = 0

LEMMA InitConsent == Init => ConsentInv
BY DEF Init, ConsentInv, Idle

LEMMA StepConsent == Typed /\ KeyInv /\ CalmInv /\ CountInv /\ ConsentInv /\ [Next]_vars => ConsentInv'
<1> SUFFICES ASSUME Typed, KeyInv, CalmInv, CountInv, ConsentInv, [Next]_vars, NothingFailed' PROVE ConsentInv'
  BY DEF ConsentInv
<1>0. NothingFailed /\ ~Spend("failures") /\ ~Spend("ages")
  BY CalmSteps
<1>1. /\ (Busy => drainer.op \in Op) /\ conflicts \in [Op -> 0..MAX_ADDITIVE_RETRIES] /\ applied \in [Op -> Nat]
      /\ \A q \in net : q.op \in Op
  BY DEF Typed, DrainType, HistoryType, ServerType, NetType, Request
<1>2. ASSUME NEW i \in Op, NEW w \in WorkOrder, NEW k \in Kinds, Enqueue(i, w, k) PROVE ConsentInv'
  <2>1. /\ Status(i) = "UNUSED" /\ \A j \in Op \ {i} : queue'[j] = queue[j]
        /\ UNCHANGED <<drainer, conflicts, applied, reply>>
    BY <1>2, EnqueueSteps DEF Used, history, server
  <2>2. conflicts[i] = 0 /\ \A j \in Op \ {i} : Additive(j)' <=> Additive(j)
    BY <1>0, <2>1 DEF CountInv, Additive, Kind
  <2> QED BY <1>0, <1>1, <2>1, <2>2 DEF ConsentInv
<1>3. ASSUME NEW i \in Op, RetryOp(i) PROVE ConsentInv'
  <2>1. /\ SameOps /\ UNCHANGED <<drainer, reply, applied>> /\ conflicts'[i] = 0
        /\ \A j \in Op \ {i} : conflicts'[j] = conflicts[j]
    BY <1>1, <1>3, RetryOpSteps, RetriesAssumption DEF server
  <2> QED BY <1>0, <1>1, <2>1, SameAdditive DEF ConsentInv
<1>4. CASE SameOps /\ UNCHANGED <<conflicts, applied>> /\ (drainer'.at = "waiting" => reply'.kind # "conflict")
  BY <1>0, <1>4, SameAdditive DEF ConsentInv
<1>5. CASE SameOps /\ UNCHANGED <<drainer, reply, conflicts, applied>>
  BY <1>0, <1>5, SameAdditive DEF ConsentInv
<1>6. CASE SendNext \/ Resend
  <2>1. PICK i \in Op, tries \in 0..MAX_ADDITIVE_RETRIES : Used(i) /\ Transmit(i, tries)
    BY <1>6, SendFacts
  <2> QED BY <1>4, <2>1, TransmitSteps DEF NoReply, history, server
<1>7. CASE OnLockConflict
  <2>1. /\ SameOps /\ drainer.at = "waiting" /\ drainer'.at = "pulling" /\ reply.kind = "conflict"
        /\ applied' = applied /\ conflicts' = [conflicts EXCEPT ![drainer.op] = Capped(@ + 1)]
    BY <1>7, OnLockConflictSteps DEF server
  <2>2. drainer.op \in Op /\ applied[drainer.op] = 0
    BY <1>0, <1>1, <2>1 DEF ConsentInv, Busy
  <2> QED BY <1>0, <1>1, <2>1, <2>2, SameAdditive DEF ConsentInv
<1>8. CASE \/ StartDrain \/ OnSuccess \/ Settle \/ RetryAfterConflict \/ StopInConflict \/ OnRefused
           \/ OnUnavailable \/ TimeOut \/ FinishDrain \/ FinalPull \/ Abort
  <2>1. SameOps /\ UNCHANGED <<conflicts, applied>> /\ drainer'.at # "waiting"
    BY <1>8, StartDrainSteps, OnSuccessSteps, SettleSteps, RetryAfterConflictSteps, StopInConflictSteps, OnRefusedSteps,
       StopSteps, FinishDrainSteps, EndSteps DEF history, server
  <2> QED BY <1>4, <2>1
<1>9. ASSUME NEW i \in Op, DiscardOp(i) PROVE ConsentInv'
  BY <1>5, <1>9, DiscardOpSteps DEF server
<1>10. CASE PullProgress \/ UNCHANGED vars
  BY <1>5, <1>10, PullProgressSteps, QueueUnchanged DEF vars, server
<1>11. ASSUME NEW q \in net, Accept(q) \/ Commit(q) \/ CommitUnrecorded(q) \/ Reject(q) \/ Lose(q) PROVE ConsentInv'
  <2>1. /\ drainer.at = "waiting" /\ reply.kind = "none" /\ q.op = drainer.op /\ q.op \in Op
        /\ drainer' = drainer /\ conflicts' = conflicts /\ SameOps
    BY <1>0, <1>1, <1>11, CalmAnswer DEF history
  <2>2. CASE applied' = applied /\ reply'.kind # "conflict"
    BY <1>4, <2>1, <2>2
  <2>3. CASE applied' = applied /\ keyRow[q.op].state = "IN_PROGRESS"
    <3>1. applied'[drainer.op] = 0
      BY <1>0, <2>1, <2>3, CalmServes
    <3> QED BY <1>0, <2>1, <2>3, <3>1, SameAdditive DEF ConsentInv
  <2>4. CASE Commit(q) /\ reply'.kind = "ok"
    <3>1. Additive(q.op) \/ conflicts[q.op] = 0
      BY <1>0, <2>1 DEF CountInv, Busy
    <3>2. \A j \in Op \ {q.op} : applied'[j] = applied[j]
      BY <2>4, CommitSteps, TakeEffectSteps
    <3> QED BY <1>0, <1>1, <2>1, <2>4, <3>1, <3>2, SameAdditive DEF ConsentInv
  <2>5. reply'.kind = "none" => applied' = applied
    BY <1>0, <1>11, CalmAnswer
  <2> QED BY <1>0, <1>11, <2>1, <2>2, <2>3, <2>4, CalmAnswer
<1>12. ASSUME NEW w \in WorkOrder, Touch(w) PROVE ConsentInv'
  BY <1>5, <1>12, ServerSteps DEF Touch, history
<1>13. ~\E i \in Op : GrowStale(i) \/ Purge(i)
  BY <1>0, CalmServes
<1> QED BY <1>2, <1>3, <1>6, <1>7, <1>8, <1>9, <1>10, <1>11, <1>12, <1>13
        DEF PullProgress, Next, UserStep, DrainStep, Begin, Finish

(* A transition or part removal that met a 409 takes effect only after the technician applied it
   again, as long as no request or pull failed. *)
THEOREM NoBlindReplay == Spec => []ConsentBeforeReplay
<1>1. ConsentInv => ConsentBeforeReplay
  BY DEF ConsentInv, ConsentBeforeReplay
<1> QED BY <1>1, InitTyped, StepTyped, InitKey, StepKey, InitCalm, StepCalm, InitCount, StepCount,
           InitConsent, StepConsent, PTL DEF Spec

-----------------------------------------------------------------------------
(* The queue does not conflict with itself *)

(* A page is of a past of the server: its rows are no newer than the server's, and there is one only
   while its pull is at work, for the drain while that waits for it. *)
PagesInv ==
  /\ \A p \in Puller, w \in WorkOrder : /\ pulls[p].rows[w] <= version[w]
                                        /\ pulls[p].at # "applying" => pulls[p].rows[w] = 0
  /\ pulls["drain"].at # "none" => drainer.at \in {"pulling", "closing"}

LEMMA InitPages == Init => PagesInv
BY NoPullType DEF Init, PagesInv, NoPull

LEMMA VersionsGrow ==
  ASSUME Typed, [Next]_vars
  PROVE  \A w \in WorkOrder : version[w] <= version'[w]
<1>1. CASE version' = version
  BY <1>1 DEF Typed, ServerType
<1>2. CASE Serves
  <2>1. ASSUME NEW q \in net, TakeEffect(q) PROVE \A w \in WorkOrder : version[w] <= version'[w]
    BY <2>1, TakeEffectSteps
  <2>2. \/ version' = version
        \/ \E q \in net : TakeEffect(q)
    BY <1>2, AcceptSteps, CommitSteps, CommitUnrecordedSteps, RejectSteps, AgeSteps DEF Serves
  <2> QED BY <1>1, <2>1, <2>2
<1>3. ASSUME NEW w \in WorkOrder, Touch(w) PROVE \A v \in WorkOrder : version[v] <= version'[v]
  BY <1>3, ChangeSteps DEF Touch
<1>4. CASE PullProgress
  BY <1>1, <1>4, PullProgressSteps DEF server
<1>5. CASE SendNext \/ Resend
  <2>1. PICK i \in Op, tries \in 0..MAX_ADDITIVE_RETRIES : Used(i) /\ Transmit(i, tries)
    BY <1>5, SendFacts
  <2> QED BY <1>1, <2>1, TransmitSteps DEF server
<1> QED BY <1>1, <1>2, <1>3, <1>4, <1>5
        DEF PullProgress, Serves, Next, UserStep, DrainStep, Begin, Finish, vars, server, Enqueue, RetryOp, DiscardOp,
            StartDrain, OnSuccess, Settle, OnLockConflict, RetryAfterConflict, StopInConflict, OnRefused, OnUnavailable,
            TimeOut, StopDraining, FinishDrain, FinalPull, Abort, Lose

(* A pull that is left alone, or ends. *)
LEMMA PagesKept ==
  ASSUME Typed, PagesInv, \A w \in WorkOrder : version[w] <= version'[w], version' \in [WorkOrder -> Nat],
         \A p \in Puller : pulls'[p] \in {pulls[p], NoPull},
         pulls'["drain"] = NoPull \/ (drainer.at \in {"pulling", "closing"} => drainer'.at \in {"pulling", "closing"})
  PROVE  PagesInv'
<1>1. NoPull.at = "none" /\ \A w \in WorkOrder : NoPull.rows[w] = 0
  BY DEF NoPull
<1>2. ASSUME NEW p \in Puller, NEW w \in WorkOrder
      PROVE  /\ pulls'[p].rows[w] <= version'[w]
             /\ pulls'[p].at # "applying" => pulls'[p].rows[w] = 0
  <2>1. pulls[p].rows[w] \in Nat /\ version[w] \in Nat /\ version'[w] \in Nat
    BY DEF Typed, PhoneType, PullRecord, ServerType
  <2>2. pulls[p].rows[w] <= version[w] /\ (pulls[p].at # "applying" => pulls[p].rows[w] = 0)
    BY DEF PagesInv
  <2>3. CASE pulls'[p] = NoPull
    BY <1>1, <2>1, <2>3
  <2>4. CASE pulls'[p] = pulls[p]
    BY <2>1, <2>2, <2>4
  <2> QED BY <2>3, <2>4
<1>3. pulls'["drain"].at # "none" => drainer'.at \in {"pulling", "closing"}
  BY <1>1, NoPullType DEF PagesInv
<1> QED BY <1>2, <1>3 DEF PagesInv

(* What a pull on its way does. *)
LEMMA PullStepPages ==
  ASSUME Typed, NEW p \in Puller, PullStep(p)
  PROVE  /\ UNCHANGED <<drainer, version>> /\ \A r \in Puller \ {p} : pulls'[r] = pulls[r]
         /\ \/ /\ pulls[p].at = "none" /\ pulls'[p].at = "asked" /\ pulls'[p].rows = pulls[p].rows
               /\ p = "drain" => drainer.at \in {"pulling", "closing"}
               /\ local' = local
            \/ /\ pulls[p].at = "asked" /\ pulls'[p].at = "applying" /\ local' = local
               /\ \A w \in WorkOrder : pulls'[p].rows[w] \in {0, version[w]}
            \/ \E w \in WorkOrder :
                 /\ pulls[p].rows[w] # 0 /\ local' = [local EXCEPT ![w] = pulls[p].rows[w]]
                 /\ pulls'[p].at = pulls[p].at /\ pulls'[p].rows[w] = 0
                 /\ \A v \in WorkOrder : v # w => pulls'[p].rows[v] = pulls[p].rows[v]
                 /\ p = "background" /\ w \notin putBack' => local[w] <= pulls[p].rows[w]
<1>0. pulls \in [Puller -> PullRecord] /\ pulls[p] \in PullRecord
  BY DEF Typed, PhoneType
<1>1. CASE AskPage(p)
  <2>1. pulls' = [pulls EXCEPT ![p] = [pulls[p] EXCEPT !.at = "asked", !.since = cursor]]
    BY <1>0, <1>1 DEF AskPage, PullRecord
  <2>2. /\ pulls[p].at = "none" /\ (p = "drain" => drainer.at \in {"pulling", "closing"})
        /\ UNCHANGED <<local, drainer, version>>
    BY <1>1 DEF AskPage, server
  <2> QED BY <1>0, <2>1, <2>2 DEF PullRecord
<1>2. CASE ServePage(p)
  <2> DEFINE page == [w \in WorkOrder |-> IF version[w] > pulls[p].since THEN version[w] ELSE 0]
  <2>1. pulls' = [pulls EXCEPT ![p] = [at |-> "applying", since |-> 0, cursor |-> Clock, rows |-> page]]
    BY <1>2 DEF ServePage
  <2>2. \A w \in WorkOrder : page[w] \in {0, version[w]}
    OBVIOUS
  <2> HIDE DEF page
  <2>3. pulls[p].at = "asked" /\ UNCHANGED <<local, drainer, version>>
    BY <1>2 DEF ServePage, server
  <2> QED BY <1>0, <2>1, <2>2, <2>3
<1>3. ASSUME NEW w \in WorkOrder, UpsertRow(p, w)
      PROVE  /\ UNCHANGED <<drainer, version>> /\ \A r \in Puller \ {p} : pulls'[r] = pulls[r]
             /\ pulls[p].rows[w] # 0 /\ local' = [local EXCEPT ![w] = pulls[p].rows[w]]
             /\ pulls'[p].at = pulls[p].at /\ pulls'[p].rows[w] = 0
             /\ \A v \in WorkOrder : v # w => pulls'[p].rows[v] = pulls[p].rows[v]
             /\ p = "background" /\ w \notin putBack' => local[w] <= pulls[p].rows[w]
  <2>1. pulls[p].rows \in [WorkOrder -> Nat] /\ local[w] \in Nat
    BY <1>0 DEF PullRecord, Typed, PhoneType
  <2>2. pulls' = [pulls EXCEPT ![p] = [pulls[p] EXCEPT !.rows = [@ EXCEPT ![w] = 0]]]
    BY <1>0, <1>3, <2>1 DEF UpsertRow, PullRecord
  <2>3. /\ pulls'[p].at = pulls[p].at /\ pulls'[p].rows = [pulls[p].rows EXCEPT ![w] = 0]
        /\ \A r \in Puller \ {p} : pulls'[r] = pulls[r]
    BY <1>0, <2>2 DEF PullRecord
  <2>4. p = "background" /\ w \notin putBack' => local[w] <= pulls[p].rows[w]
    BY <1>3, <2>1 DEF UpsertRow
  <2>5. UNCHANGED <<drainer, version>> /\ pulls[p].rows[w] # 0 /\ local' = [local EXCEPT ![w] = pulls[p].rows[w]]
    BY <1>3 DEF UpsertRow, server
  <2> QED BY <2>1, <2>3, <2>4, <2>5
<1> QED BY <1>1, <1>2, <1>3 DEF PullStep

LEMMA StepPages == Typed /\ PagesInv /\ [Next]_vars => PagesInv'
<1> SUFFICES ASSUME Typed, PagesInv, [Next]_vars PROVE PagesInv'
  OBVIOUS
<1>0. (\A w \in WorkOrder : version[w] <= version'[w]) /\ version' \in [WorkOrder -> Nat]
  BY VersionsGrow, StepTyped DEF Typed, ServerType
<1>1. ASSUME NEW p \in Puller, PullStep(p) PROVE PagesInv'
  <2>1. \A r \in Puller, w \in WorkOrder : /\ pulls[r].rows[w] \in Nat /\ version[w] \in Nat
                                           /\ pulls[r].rows[w] <= version[w]
                                           /\ pulls[r].at # "applying" => pulls[r].rows[w] = 0
    BY DEF Typed, PhoneType, PullRecord, ServerType, PagesInv
  <2>2. UNCHANGED <<drainer, version>> /\ \A r \in Puller \ {p} : pulls'[r] = pulls[r]
    BY <1>1, PullStepPages
  <2>3. \A w \in WorkOrder : /\ pulls'[p].rows[w] <= version[w]
                             /\ pulls'[p].at # "applying" => pulls'[p].rows[w] = 0
    BY <1>1, <2>1, PullStepPages
  <2>4. p = "drain" => drainer.at \in {"pulling", "closing"}
    <3>1. pulls[p].at = "none" => pulls'[p].at = "asked" /\ (p = "drain" => drainer.at \in {"pulling", "closing"})
      BY <1>1, <2>1, PullStepPages
    <3> QED BY <3>1 DEF PagesInv
  <2>5. \A r \in Puller, w \in WorkOrder : /\ pulls'[r].rows[w] <= version'[w]
                                           /\ pulls'[r].at # "applying" => pulls'[r].rows[w] = 0
    BY <2>1, <2>2, <2>3
  <2>6. pulls'["drain"].at # "none" => drainer'.at \in {"pulling", "closing"}
    BY <2>2, <2>4, NoPullType DEF PagesInv
  <2> QED BY <2>5, <2>6 DEF PagesInv
<1>2. CASE (StoreCursor("background") /\ drainer' = drainer) \/ BackgroundPullFails
  <2>1. drainer' = drainer /\ \A p \in Puller : pulls'[p] \in {pulls[p], NoPull}
    BY <1>2 DEF StoreCursor, BackgroundPullFails, Typed, PhoneType
  <2> QED BY <1>0, <2>1, PagesKept
<1>3. CASE RetryAfterConflict \/ StopInConflict \/ FinalPull
  <2>1. pulls' = [pulls EXCEPT !["drain"] = NoPull]
    BY <1>3 DEF RetryAfterConflict, StopInConflict, FinalPull, StoreCursor
  <2>2. pulls'["drain"] = NoPull /\ \A p \in Puller : pulls'[p] \in {pulls[p], NoPull}
    BY <2>1, NoPullType DEF Typed, PhoneType
  <2> QED BY <1>0, <2>2, PagesKept
<1>4. CASE Abort
  <2>1. pulls'["drain"] = NoPull /\ \A p \in Puller : pulls'[p] \in {pulls[p], NoPull}
    BY <1>4, NoPullType DEF Abort, Typed, PhoneType
  <2> QED BY <1>0, <2>1, PagesKept
<1>5. CASE pulls' = pulls /\ (drainer.at \in {"pulling", "closing"} => drainer'.at \in {"pulling", "closing"})
  BY <1>0, <1>5, PagesKept
<1>6. CASE SendNext \/ Resend
  <2>1. PICK i \in Op, tries \in 0..MAX_ADDITIVE_RETRIES :
          Used(i) /\ Transmit(i, tries) /\ drainer.at \in {"picking", "retrying"}
    BY <1>6, SendFacts
  <2> QED BY <1>5, <2>1, TransmitSteps
<1>7. CASE OnSuccess \/ Settle \/ OnLockConflict \/ OnRefused \/ OnUnavailable \/ TimeOut \/ FinishDrain \/ StartDrain
  BY <1>5, <1>7, OnSuccessSteps, SettleSteps, OnLockConflictSteps, OnRefusedSteps, StopSteps,
     FinishDrainSteps, StartDrainSteps
<1>8. CASE Serves \/ (\E q \in net : Lose(q)) \/ (\E w \in WorkOrder : Touch(w))
  BY <1>5, <1>8, ServerSteps
<1>9. CASE UserStep \/ UNCHANGED vars
  BY <1>5, <1>9 DEF UserStep, Enqueue, RetryOp, DiscardOp, vars
<1> QED BY <1>1, <1>2, <1>3, <1>4, <1>6, <1>7, <1>8, <1>9, NoPullType
        DEF BackgroundPull, Serves, Next, DrainStep, Begin, Finish

Quiet == NothingFailed /\ budget.touches = MaxTouches /\ putBack = {}

Answered == drainer.at = "waiting" /\ reply.kind = "ok"

(* The phone knows the version of every work order, or is about to take it from the answer it just
   got; an operation that took effect is not sent again. *)
FedInv ==
  Quiet =>
    /\ \A w \in WorkOrder : local[w] = version[w] \/ (Answered /\ Wo(drainer.op) = w)
    /\ Answered => reply.version = version[Wo(drainer.op)]
    /\ \A q \in net : q.expected \in {Unlocked, version[Wo(q.op)]}
    /\ \A i \in Op : applied[i] > 0 =>
         /\ i \notin drainer.todo /\ Status(i) \in {"IN_FLIGHT", "GONE"}
         /\ Busy /\ drainer.op = i => Answered \/ drainer.at = "settling"
    /\ reply.kind # "conflict" /\ drainer.at \notin {"pulling", "retrying"}
    /\ \A i \in Op : Status(i) # "CONFLICT"
    /\ \A w \in WorkOrder : pulls["drain"].rows[w] \in {0, version[w]}

LEMMA InitFed == Init => FedInv
BY NoPullType DEF Init, FedInv, Idle, NoReply, NoPull, Status, NoOp, Busy, Answered

(* What a background pull put back stays so. *)
LEMMA PutBackGrows ==
  ASSUME Typed, [Next]_vars
  PROVE  putBack \subseteq putBack'
<1>1. CASE PullProgress
  BY <1>1, PullProgressSteps
<1>2. CASE Serves \/ (\E q \in net : Lose(q)) \/ (\E w \in WorkOrder : Touch(w))
  BY <1>2, ServerSteps
<1>3. CASE SendNext \/ Resend
  <2>1. PICK i \in Op, tries \in 0..MAX_ADDITIVE_RETRIES : Used(i) /\ Transmit(i, tries)
    BY <1>3, SendFacts
  <2> QED BY <2>1, TransmitSteps DEF history
<1> QED BY <1>1, <1>2, <1>3
        DEF PullProgress, Serves, Next, UserStep, DrainStep, Begin, Finish, vars, history, Enqueue, RetryOp, DiscardOp,
            StartDrain, OnSuccess, Settle, OnLockConflict, RetryAfterConflict, StopInConflict, OnRefused, OnUnavailable,
            TimeOut, StopDraining, FinishDrain, FinalPull, Abort

LEMMA QuietSteps ==
  ASSUME Typed, [Next]_vars, Quiet'
  PROVE  Quiet /\ ~Spend("failures") /\ ~Spend("ages") /\ ~Spend("touches")
<1>1. ~Spend("touches") /\ putBack = {}
  BY PutBackGrows, BoundsAssumption DEF Typed, BudgetType, Spend, Quiet
<1>2. NothingFailed /\ ~Spend("failures") /\ ~Spend("ages")
  BY CalmSteps DEF Quiet
<1>3. CASE budget' = budget
  BY <1>1, <1>2, <1>3 DEF Quiet, NothingFailed
<1>4. ASSUME NEW what \in {"retries", "pulls"}, Spend(what) PROVE Quiet
  BY <1>1, <1>2, <1>4 DEF Typed, BudgetType, Spend, Quiet
<1>5. CASE SendNext \/ Resend
  <2>1. PICK i \in Op, tries \in 0..MAX_ADDITIVE_RETRIES : Used(i) /\ Transmit(i, tries)
    BY <1>5, SendFacts
  <2> QED BY <1>1, <1>2, <1>3, <2>1, TransmitSteps
<1>6. CASE PullProgress
  BY <1>1, <1>2, <1>3, <1>4, <1>6, PullProgressSteps
<1>7. CASE Serves
  <2>1. budget' = budget
    BY <1>2, <1>7, AcceptSteps, CommitSteps, CommitUnrecordedSteps, RejectSteps, AgeSteps DEF Serves
  <2> QED BY <1>1, <1>2, <1>3, <2>1
<1> QED BY <1>1, <1>2, <1>3, <1>4, <1>5, <1>6, <1>7
        DEF PullProgress, Serves, Next, UserStep, DrainStep, Begin, Finish, vars, Enqueue, RetryOp, DiscardOp, StartDrain,
            OnSuccess, Settle, OnLockConflict, RetryAfterConflict, StopInConflict, OnRefused, OnUnavailable, TimeOut,
            FinishDrain, FinalPull, Abort, Touch, Lose

(* A pull of the drain brings the versions of the server; one of the background task, too, unless it
   puts one back, or the drain is about to feed a newer one forward. *)
LEMMA PullFeeds ==
  ASSUME Typed, PagesInv, FedInv, Quiet, PullProgress, putBack' = {}, NEW w \in WorkOrder
  PROVE  /\ local'[w] \in {local[w], version[w]} \/ (Answered /\ Wo(drainer.op) = w)
         /\ pulls'["drain"].rows[w] \in {0, pulls["drain"].rows[w], version[w]}
<1>0. \A p \in Puller : pulls[p].rows[w] \in Nat /\ pulls[p].rows[w] <= version[w] /\ version[w] \in Nat /\ local[w] \in Nat
  BY DEF PagesInv, Typed, PhoneType, PullRecord, ServerType
<1>1. ASSUME NEW p \in Puller, PullStep(p)
      PROVE  /\ local'[w] \in {local[w], version[w]} \/ (Answered /\ Wo(drainer.op) = w)
             /\ pulls'["drain"].rows[w] \in {0, pulls["drain"].rows[w], version[w]}
  <2>1. local'[w] = local[w] \/ (pulls[p].rows[w] # 0 /\ local'[w] = pulls[p].rows[w]
                                /\ (p = "background" => local[w] <= pulls[p].rows[w]))
    BY <1>1, PullStepPages DEF Typed, PhoneType
  <2>2. p = "drain" => pulls[p].rows[w] \in {0, version[w]}
    BY DEF FedInv
  <2>3. local[w] = version[w] \/ (Answered /\ Wo(drainer.op) = w)
    BY DEF FedInv
  <2>4. pulls'["drain"].rows[w] \in {0, pulls["drain"].rows[w], version[w]}
    BY <1>1, PullStepPages, NoPullType
  <2> QED BY <1>0, <2>1, <2>2, <2>3, <2>4 DEF Puller
<1>2. CASE \/ StoreCursor("background") /\ local' = local
           \/ BackgroundPullFails
  BY <1>2, NoPullType DEF StoreCursor, BackgroundPullFails, Typed, PhoneType
<1> QED BY <1>1, <1>2, NoPullType DEF PullProgress, BackgroundPull

(* The steps that keep what is sent and answered. *)
LEMMA FedKept ==
  ASSUME Typed, FedInv, Quiet, SameOps, UNCHANGED <<net, reply, server>>,
         drainer'.at = drainer.at \/ (drainer'.at \notin {"pulling", "retrying", "waiting"} /\ ~Answered),
         drainer'.todo \subseteq drainer.todo, Busy' => drainer'.op = drainer.op,
         Busy' => Busy /\ (Answered => Answered') /\ (drainer.at = "settling" => drainer'.at = "settling"),
         \A w \in WorkOrder : /\ local'[w] \in {local[w], version[w]} \/ (Answered /\ Wo(drainer.op) = w)
                              /\ pulls'["drain"].rows[w] \in {0, pulls["drain"].rows[w], version[w]},
         \A i \in Op : /\ Status(i)' # "CONFLICT"
                       /\ applied[i] > 0 => Status(i)' \in {"IN_FLIGHT", "GONE"}
  PROVE  FedInv'
<1>1. (Busy => drainer.op \in Op) /\ \A q \in net : q.op \in Op
  BY DEF Typed, DrainType, NetType, Request
<1>2. (Answered' <=> Answered) /\ (Answered => Busy /\ Busy' /\ drainer'.op = drainer.op)
  BY DEF Answered, Busy
<1>3. \A w \in WorkOrder : local'[w] = version'[w] \/ (Answered' /\ Wo(drainer.op)' = w)
  <2>1. Answered => Wo(drainer.op)' = Wo(drainer.op)
    BY <1>1, <1>2 DEF SameOps, Wo
  <2> QED BY <1>2, <2>1 DEF FedInv, server
<1>4. Answered' => reply'.version = version'[Wo(drainer.op)']
  BY <1>1, <1>2 DEF FedInv, server, SameOps, Wo
<1>5. \A q \in net' : q.expected \in {Unlocked, version'[Wo(q.op)']}
  BY <1>1 DEF FedInv, server, SameOps, Wo
<1>6. \A i \in Op : applied'[i] > 0 =>
        /\ i \notin drainer'.todo /\ Status(i)' \in {"IN_FLIGHT", "GONE"}
        /\ Busy' /\ drainer'.op = i => Answered' \/ drainer'.at = "settling"
  BY <1>2 DEF FedInv, server
<1>7. \A w \in WorkOrder : pulls'["drain"].rows[w] \in {0, version'[w]}
  BY DEF FedInv, server
<1> QED BY <1>3, <1>4, <1>5, <1>6, <1>7 DEF FedInv

LEMMA StepFed == Typed /\ KeyInv /\ CalmInv /\ PagesInv /\ FedInv /\ [Next]_vars => FedInv'
<1> SUFFICES ASSUME Typed, KeyInv, CalmInv, PagesInv, FedInv, [Next]_vars, Quiet' PROVE FedInv'
  BY DEF FedInv
<1>0. Quiet /\ NothingFailed /\ ~Spend("failures") /\ ~Spend("ages") /\ ~Spend("touches")
  BY QuietSteps DEF Quiet
<1>1. /\ (Busy => drainer.op \in Op /\ Used(drainer.op)) /\ \A q \in net : q.op \in Op /\ Used(q.op)
      /\ drainer.todo \subseteq Op
  BY RequestFacts DEF Typed, DrainType, InUse
<1>2. ASSUME NEW i \in Op, NEW w \in WorkOrder, NEW k \in Kinds, Enqueue(i, w, k) PROVE FedInv'
  <2>1. /\ ~Used(i) /\ \A j \in Op \ {i} : queue'[j] = queue[j]
        /\ Status(i)' = "PENDING" /\ UNCHANGED <<local, pulls, drainer, version, applied, net, reply>>
    BY <1>2, EnqueueSteps DEF server
  <2>2. \A j \in Op \ {i} : Status(j)' = Status(j) /\ Wo(j)' = Wo(j)
    BY <2>1 DEF Status, Wo
  <2>3. applied[i] = 0
    BY <2>1 DEF Typed, InUse, ServerType
  <2>4. Answered => Wo(drainer.op)' = Wo(drainer.op)
    BY <1>1, <2>1 DEF Answered, Busy, Wo
  <2>5. \A q \in net : Wo(q.op)' = Wo(q.op)
    BY <1>1, <2>1 DEF Wo
  <2>6. (Answered' <=> Answered) /\ (Busy' <=> Busy)
    BY <2>1 DEF Answered, Busy
  <2> QED BY <1>0, <1>1, <2>1, <2>2, <2>3, <2>4, <2>5, <2>6 DEF FedInv
<1>3. ASSUME NEW i \in Op, RetryOp(i) \/ DiscardOp(i) PROVE FedInv'
  <2>1. /\ SameOps /\ UNCHANGED <<local, pulls, drainer, server, net, reply>>
        /\ \A j \in Op : Status(j)' = Status(j) \/ Status(j)' = "GONE" \/ (Status(j) = "FAILED" /\ Status(j)' = "PENDING")
    <3>1. CASE DiscardOp(i)
      BY <3>1, DiscardOpSteps
    <3>2. CASE RetryOp(i)
      <4>1. Status(i) = "FAILED"
        BY <1>0, <3>2, RetryOpSteps DEF FedInv
      <4> QED BY <3>2, <4>1, RetryOpSteps DEF Writes, Queued
    <3> QED BY <1>3, <3>1, <3>2
  <2>2. \A j \in Op : Status(j)' # "CONFLICT" /\ (applied[j] > 0 => Status(j)' \in {"IN_FLIGHT", "GONE"})
    BY <1>0, <2>1 DEF FedInv
  <2>3. drainer' = drainer /\ reply' = reply /\ local' = local /\ pulls' = pulls
    BY <2>1
  <2>4. (Answered' <=> Answered) /\ (Busy' <=> Busy)
    BY <2>3 DEF Answered, Busy
  <2> QED BY <1>0, <2>1, <2>2, <2>3, <2>4, FedKept
<1>4. CASE StartDrain
  <2>1. \A j \in Op : Status(j) # "IN_FLIGHT"
    BY <1>0, <1>4, StartDrainSteps DEF CalmInv, CalmDrain, Busy
  <2>2. /\ ~Busy /\ ~Busy' /\ drainer.at = "idle" /\ drainer'.at = "picking" /\ net = {}
        /\ SameOps /\ UNCHANGED <<local, pulls, server, net, reply>>
    BY <1>0, <1>4, StartDrainSteps DEF CalmInv, CalmDrain, Busy
  <2>3. \A j \in Op : Status(j)' = Status(j)
    BY <1>4, <2>1, StartDrainSteps
  <2>4. \A j \in drainer'.todo : Status(j) = "PENDING"
    BY <1>4, <2>1, StartDrainSteps
  <2>5. ~Answered /\ ~Answered'
    BY <2>2 DEF Answered
  <2> QED BY <1>0, <2>2, <2>3, <2>4, <2>5 DEF FedInv, server
<1>5. CASE SendNext \/ Resend
  <2>1. PICK i \in Op, tries \in 0..MAX_ADDITIVE_RETRIES :
               Used(i) /\ Transmit(i, tries) /\ drainer.at = "picking" /\ i \in drainer.todo
    BY <1>0, <1>5, SendFacts DEF Sendable, FedInv
  <2>2. /\ SameOps /\ UNCHANGED <<local, pulls, version, applied>> /\ drainer'.op = i /\ drainer'.at = "waiting"
        /\ drainer'.todo \subseteq drainer.todo
        /\ \A j \in Op : Status(j)' = IF j = i /\ Status(i) \in Queued THEN "IN_FLIGHT" ELSE Status(j)
    BY <2>1, TransmitSteps DEF server
  <2>3. net = {} /\ ~Answered
    BY <1>0, <2>1 DEF CalmInv, CalmDrain, Answered
  <2>4. reply'.kind \in {"none", "refused"} /\ ~Answered'
    BY <2>1, TransmitSteps DEF NoReply, Answered
  <2>5. \A q \in net' : q.op = i /\ q.expected \in {Unlocked, local[Wo(i)]}
    <3> DEFINE request == [op |-> i, n |-> drainer'.n, running |-> FALSE,
                           expected |-> IF Kind(i) \in Locked THEN local[Wo(i)] ELSE Unlocked]
    <3>1. request.op = i /\ request.expected \in {Unlocked, local[Wo(i)]}
      OBVIOUS
    <3>2. net' = net \/ net' = net \cup {request}
      BY <2>1, TransmitSteps
    <3> HIDE DEF request
    <3> QED BY <2>3, <3>1, <3>2
  <2>6. Wo(i) \in WorkOrder /\ \A w \in WorkOrder : local'[w] = version'[w]
    BY <1>0, <2>1, <2>2, <2>3, RowFacts DEF FedInv, Typed
  <2>7. \A q \in net' : q.expected \in {Unlocked, version'[Wo(q.op)']}
    BY <2>2, <2>5, <2>6 DEF SameOps, Wo
  <2>8. applied[i] = 0
    BY <1>0, <2>1 DEF FedInv, Typed, ServerType
  <2> QED BY <1>0, <2>2, <2>4, <2>6, <2>7, <2>8 DEF FedInv
<1>6. CASE OnSuccess
  <2>1. /\ Answered /\ SameOps /\ WritesNothing /\ drainer'.at = "settling" /\ DrainKeeps
        /\ local' = [local EXCEPT ![Wo(drainer.op)] = reply.version] /\ UNCHANGED <<pulls, server, net, reply>>
    BY <1>6, OnSuccessSteps DEF Answered
  <2>2. drainer.op \in Op /\ Wo(drainer.op) \in WorkOrder /\ net = {}
    BY <1>0, <2>1, BusyOp DEF Answered, Busy, CalmInv, CalmDrain
  <2>3. \A w \in WorkOrder : local'[w] = version'[w]
    BY <1>0, <2>1, <2>2 DEF FedInv, Typed, PhoneType, server
  <2>4. ~Answered'
    BY <2>1 DEF Answered
  <2> QED BY <1>0, <2>1, <2>2, <2>3, <2>4 DEF FedInv, server, DrainKeeps, WritesNothing
<1>7. CASE Settle
  <2>1. /\ drainer.at = "settling" /\ SameOps /\ drainer'.at = "picking" /\ DrainKeeps
        /\ \A j \in Op : Status(j)' = IF j = drainer.op THEN "GONE" ELSE Status(j)
        /\ UNCHANGED <<local, pulls, server, net, reply>>
    BY <1>7, SettleSteps
  <2>2. ~Answered /\ ~Busy'
    BY <2>1 DEF Answered, Busy
  <2>3. \A j \in Op : Status(j)' # "CONFLICT" /\ (applied[j] > 0 => Status(j)' \in {"IN_FLIGHT", "GONE"})
    BY <1>0, <2>1 DEF FedInv
  <2> QED BY <1>0, <2>1, <2>2, <2>3, FedKept DEF DrainKeeps
<1>8. ~OnLockConflict /\ ~RetryAfterConflict /\ ~StopInConflict
  BY <1>0, OnLockConflictSteps, RetryAfterConflictSteps, StopInConflictSteps DEF FedInv
<1>9. CASE OnRefused
  <2>1. /\ drainer.at = "waiting" /\ reply.kind = "refused" /\ SameOps /\ drainer'.at = "picking"
        /\ drainer'.todo = drainer.todo /\ Writes(drainer.op, "FAILED", Capped(drainer.tries + 1))
        /\ UNCHANGED <<local, pulls, server, net, reply>>
    BY <1>9, OnRefusedSteps
  <2>2. ~Answered /\ ~Busy' /\ Busy
    BY <2>1 DEF Answered, Busy
  <2>3. applied[drainer.op] = 0
    BY <1>0, <1>1, <2>1, <2>2 DEF FedInv, Typed, ServerType
  <2>4. \A j \in Op : Status(j)' = Status(j) \/ (j = drainer.op /\ Status(j)' = "FAILED")
    BY <2>1 DEF Writes
  <2>5. \A j \in Op : Status(j)' # "CONFLICT" /\ (applied[j] > 0 => Status(j)' \in {"IN_FLIGHT", "GONE"})
    BY <1>0, <2>3, <2>4 DEF FedInv
  <2> QED BY <1>0, <2>1, <2>2, <2>5, FedKept
<1>10. ~OnUnavailable /\ ~TimeOut /\ ~Abort
  BY <1>0, StopSteps DEF CalmInv, CalmDrain, OnUnavailable, Received, TimeOut, Abort
<1>11. CASE FinishDrain \/ FinalPull
  <2>1. /\ drainer.at \in {"picking", "closing"} /\ drainer'.at \in {"closing", "idle"} /\ SameOps /\ WritesNothing
        /\ drainer'.todo \subseteq drainer.todo /\ UNCHANGED <<local, server, net, reply>>
        /\ pulls' = pulls \/ pulls'["drain"] = NoPull
    BY <1>11, FinishDrainSteps, EndSteps DEF FinishDrain, FinalPull, Typed, DrainType
  <2>2. ~Answered /\ ~Busy'
    BY <2>1 DEF Answered, Busy
  <2>3. \A w \in WorkOrder : pulls'["drain"].rows[w] \in {0, pulls["drain"].rows[w], version[w]}
    BY <2>1 DEF NoPull
  <2>4. \A j \in Op : Status(j)' # "CONFLICT" /\ (applied[j] > 0 => Status(j)' \in {"IN_FLIGHT", "GONE"})
    BY <1>0, <2>1 DEF FedInv, WritesNothing
  <2> QED BY <1>0, <2>1, <2>2, <2>3, <2>4, FedKept
<1>12. CASE PullProgress \/ UNCHANGED vars
  <2>1. drainer' = drainer /\ SameOps /\ WritesNothing /\ UNCHANGED <<server, net, reply>>
    BY <1>12, PullProgressSteps, QueueUnchanged DEF vars, server, WritesNothing
  <2>2. (Answered' <=> Answered) /\ (Busy' <=> Busy)
    BY <2>1 DEF Answered, Busy
  <2>3. \A w \in WorkOrder : /\ local'[w] \in {local[w], version[w]} \/ (Answered /\ Wo(drainer.op) = w)
                             /\ pulls'["drain"].rows[w] \in {0, pulls["drain"].rows[w], version[w]}
    <3>1. CASE PullProgress
      BY <1>0, <3>1, PullFeeds DEF Quiet
    <3>2. CASE UNCHANGED vars
      BY <3>2 DEF vars
    <3> QED BY <1>12, <3>1, <3>2
  <2>4. \A j \in Op : Status(j)' # "CONFLICT" /\ (applied[j] > 0 => Status(j)' \in {"IN_FLIGHT", "GONE"})
    BY <1>0, <2>1 DEF FedInv, WritesNothing
  <2> QED BY <1>0, <2>1, <2>2, <2>3, <2>4, FedKept
<1>13. ASSUME NEW q \in net, Accept(q) \/ Commit(q) \/ CommitUnrecorded(q) \/ Reject(q) \/ Lose(q) PROVE FedInv'
  <2>1. /\ net = {q} /\ drainer.at = "waiting" /\ reply.kind = "none" /\ q.op = drainer.op /\ q.op \in Op
        /\ UNCHANGED <<local, pulls, drainer>> /\ SameOps /\ WritesNothing
    BY <1>0, <1>1, <1>13, CalmAnswer
  <2>2. ~Answered /\ Busy /\ Busy' /\ Wo(q.op) \in WorkOrder
    BY <1>1, <2>1, RowFacts DEF Answered, Busy, Typed
  <2>3. applied[q.op] = 0 /\ keyRow[q.op].state # "DONE" /\ UpToDate(q)
    <3>1. applied[q.op] = 0 /\ UpToDate(q)
      BY <1>0, <2>1, <2>2 DEF FedInv, UpToDate, Typed, ServerType
    <3> QED BY <1>0, <2>1, <3>1, CalmServes
  <2>4. /\ Wo(q.op)' = Wo(q.op) /\ Wo(drainer.op)' = Wo(q.op)
        /\ \A j \in Op : Status(j)' = Status(j)
    BY <2>1 DEF SameOps, Wo, WritesNothing
  <2>5. \A w \in WorkOrder : local[w] = version[w]
    BY <1>0, <2>2 DEF FedInv
  <2>9. \A w \in WorkOrder : pulls'["drain"].rows[w] = 0
    BY <2>1, NoPullType DEF PagesInv
  <2>6. CASE /\ reply' = reply /\ UNCHANGED <<version, applied>>
             /\ \E r : net' = {r} /\ r.op = q.op /\ r.expected = q.expected
    <3>1. PICK r : net' = {r} /\ r.op = q.op /\ r.expected = q.expected
      BY <2>6
    <3>2. r.expected \in {Unlocked, version'[Wo(r.op)']}
      BY <1>0, <2>1, <2>4, <2>6, <3>1 DEF FedInv, Wo
    <3>3. ~Answered'
      BY <2>1, <2>6 DEF Answered
    <3>4. \A s \in net' : s.expected \in {Unlocked, version'[Wo(s.op)']}
      BY <3>1, <3>2
    <3> QED BY <1>0, <2>1, <2>2, <2>4, <2>5, <2>6, <2>9, <3>3, <3>4 DEF FedInv
  <2>7. CASE net' = {} /\ reply'.kind = "refused" /\ UNCHANGED <<version, applied>>
    <3>1. ~Answered'
      BY <2>7 DEF Answered
    <3> QED BY <1>0, <2>1, <2>2, <2>4, <2>5, <2>7, <2>9, <3>1 DEF FedInv
  <2>8. CASE net' = {} /\ Commit(q) /\ reply'.kind = "ok" /\ reply'.version = version'[Wo(q.op)]
    <3>1. Answered'
      BY <2>1, <2>8 DEF Answered
    <3>2. /\ \A w \in WorkOrder \ {Wo(q.op)} : version'[w] = version[w]
          /\ \A j \in Op \ {q.op} : applied'[j] = applied[j]
      BY <2>8, CommitSteps, TakeEffectSteps
    <3>3. q.op \notin drainer.todo /\ Status(q.op) \in {"IN_FLIGHT", "GONE"}
      BY <1>0, <2>1, <2>2 DEF CalmInv, CalmDrain
    <3>4. \A w \in WorkOrder : local'[w] = version'[w] \/ (Answered' /\ Wo(drainer.op)' = w)
      BY <2>1, <2>4, <2>5, <3>1, <3>2
    <3>5. reply'.version = version'[Wo(drainer.op)']
      BY <2>1, <2>4, <2>8
    <3>6. \A j \in Op : applied'[j] > 0 =>
            /\ j \notin drainer'.todo /\ Status(j)' \in {"IN_FLIGHT", "GONE"}
            /\ Busy' /\ drainer'.op = j => Answered' \/ drainer'.at = "settling"
      BY <1>0, <2>1, <2>4, <3>1, <3>2, <3>3 DEF FedInv
    <3> QED BY <1>0, <2>1, <2>4, <2>8, <2>9, <3>4, <3>5, <3>6 DEF FedInv
  <2> QED BY <1>0, <1>13, <2>3, <2>6, <2>7, <2>8, CalmAnswer
<1>14. ~\E w \in WorkOrder : Touch(w)
  BY <1>0 DEF Touch
<1>15. ~\E i \in Op : GrowStale(i) \/ Purge(i)
  BY <1>0, CalmServes
<1> QED BY <1>2, <1>3, <1>4, <1>5, <1>6, <1>7, <1>8, <1>9, <1>10, <1>11, <1>12, <1>13, <1>14, <1>15
        DEF PullProgress, Next, UserStep, DrainStep, Begin, Finish

(* As long as nobody else changes the work orders and no request fails, feeding updatedAt forward
   keeps the queue from conflicting with itself, whatever the pulls of the drain and of the background
   task interleave with: unless a background pull wrote a page older than what the drain had fed
   forward since it was served. *)
THEOREM FeedForward == Spec => []NoSelfConflict
<1>1. FedInv => NoSelfConflict
  BY DEF FedInv, NoSelfConflict, Quiet
<1> QED BY <1>1, InitTyped, StepTyped, InitKey, StepKey, InitCalm, StepCalm, InitPages, StepPages, InitFed, StepFed, PTL
        DEF Spec
=============================================================================
