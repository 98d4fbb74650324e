----------------------------- MODULE StockProofs -----------------------------
(***************************************************************************)
(* Theorems about Stock, for any number of actors, trucks, rows, amounts   *)
(* and open transactions.                                                  *)
(***************************************************************************)
EXTENDS Stock, FiniteSetTheorems, SequenceTheorems, WellFoundedInduction, TLAPS

Change == [place : Place, delta : Int]

Row == [source : Place, quantity : 1..MaxQuantity, addedBy : Actor]

Quantities == UNION {[P -> Nat] : P \in SUBSET Place}

OpenTx ==
  [at : {"reading", "writing"}, moves : Seq(Change), read : Nat \cup {None}, written : Quantities,
   adds : Line \cup {None}, removes : Line \cup {None}]

-----------------------------------------------------------------------------
(* One open transaction *)

(* It changes one place, or two, and writes them in their order: the second one is given something. *)
Progress(x) ==
  /\ Len(x.moves) \in {1, 2}
  /\ Len(x.moves) = 2 => x.moves[1].place # x.moves[2].place /\ x.moves[2].delta > 0
  /\ \/ DOMAIN x.written = {}
     \/ DOMAIN x.written = {x.moves[1].place}
     \/ Len(x.moves) = 2 /\ DOMAIN x.written = {x.moves[1].place, x.moves[2].place}

Unfinished(x) == Cardinality(DOMAIN x.written) < Len(x.moves)
Pending(x) == x.moves[Cardinality(DOMAIN x.written) + 1]

(* What it read is enough for what it takes; the row it adds fits. *)
Fits(x) ==
  /\ x.adds = None \/ x.removes = None
  /\ x.at = "writing" =>
       /\ Unfinished(x) /\ OrZero(x.read) + Pending(x).delta >= 0
       /\ Pending(x).place = "warehouse" => x.read # None
  /\ x.adds # None =>
       /\ Len(x.moves) = 1 /\ x.moves[1].delta < 0
       /\ x.at = "writing" \/ DOMAIN x.written # {} => 0 - x.moves[1].delta <= MaxQuantity

Good(x) == x \in OpenTx /\ Progress(x) /\ Fits(x)

LEMMA OpenTxIs ==
  ASSUME NEW x \in OpenTx
  PROVE  /\ x.at \in {"reading", "writing"} /\ x.moves \in Seq(Change) /\ Len(x.moves) \in Nat
         /\ DOMAIN x.moves = 1..Len(x.moves) /\ \A i \in 1..Len(x.moves) : x.moves[i] \in Change
         /\ x.read \in Nat \cup {None} /\ OrZero(x.read) \in Nat
         /\ DOMAIN x.written \subseteq Place /\ \A p \in DOMAIN x.written : x.written[p] \in Nat
         /\ x.adds \in Line \cup {None} /\ x.removes \in Line \cup {None} /\ x # Idle
<1>1. x.at \in {"reading", "writing"} /\ x.moves \in Seq(Change) /\ x.read \in Nat \cup {None}
      /\ x.written \in Quantities /\ x.adds \in Line \cup {None} /\ x.removes \in Line \cup {None}
  BY DEF OpenTx
<1>2. Len(x.moves) \in Nat /\ DOMAIN x.moves = 1..Len(x.moves) /\ \A i \in 1..Len(x.moves) : x.moves[i] \in Change
  BY <1>1, LenProperties, ElementOfSeq
<1>3. OrZero(x.read) \in Nat
  BY <1>1 DEF OrZero
<1>4. DOMAIN x.written \subseteq Place /\ \A p \in DOMAIN x.written : x.written[p] \in Nat
  BY <1>1 DEF Quantities
<1>5. x # Idle
  BY <1>1 DEF Idle
<1> QED BY <1>1, <1>2, <1>3, <1>4, <1>5

LEMMA Counted ==
  /\ Cardinality({}) = 0
  /\ \A p : Cardinality({p}) = 1
  /\ \A p, q : p # q => Cardinality({p, q}) = 2
<1>1. ASSUME NEW p, NEW q, p # q PROVE Cardinality({p, q}) = 2
  <2>1. IsFiniteSet({p}) /\ Cardinality({p}) = 1
    BY FS_Singleton
  <2>2. Cardinality({p} \cup {q}) = 2
    BY <1>1, <2>1, FS_AddElement
  <2>3. {p} \cup {q} = {p, q}
    OBVIOUS
  <2> QED BY <2>2, <2>3
<1> QED BY <1>1, FS_EmptySet, FS_Singleton

LEMMA PendingIs ==
  ASSUME NEW x \in OpenTx, Progress(x), Unfinished(x)
  PROVE  /\ Pending(x) \in Change /\ Pending(x).place \in Place /\ Pending(x).delta \in Int
         /\ Pending(x).place \notin DOMAIN x.written
         /\ \/ DOMAIN x.written = {} /\ Pending(x) = x.moves[1]
            \/ Len(x.moves) = 2 /\ DOMAIN x.written = {x.moves[1].place} /\ Pending(x) = x.moves[2]
<1>1. Len(x.moves) \in {1, 2} /\ \A i \in 1..Len(x.moves) : x.moves[i] \in Change
  BY OpenTxIs DEF Progress
<1>2. CASE DOMAIN x.written = {}
  <2>1. Pending(x) = x.moves[1] /\ x.moves[1] \in Change
    BY <1>1, <1>2, Counted DEF Pending
  <2> QED BY <1>2, <2>1 DEF Change
<1>3. CASE DOMAIN x.written = {x.moves[1].place}
  <2>1. Cardinality(DOMAIN x.written) = 1
    BY <1>3, Counted
  <2>2. Len(x.moves) = 2 /\ Pending(x) = x.moves[2] /\ x.moves[2] \in Change
    BY <1>1, <2>1 DEF Pending, Unfinished
  <2>3. x.moves[1].place # x.moves[2].place
    BY <2>2 DEF Progress
  <2> QED BY <1>3, <2>2, <2>3 DEF Change
<1>4. CASE Len(x.moves) = 2 /\ DOMAIN x.written = {x.moves[1].place, x.moves[2].place}
  <2>1. x.moves[1].place # x.moves[2].place
    BY <1>4 DEF Progress
  <2>2. Cardinality({x.moves[1].place, x.moves[2].place}) = 2
    BY <2>1, Counted
  <2> QED BY <1>4, <2>2 DEF Unfinished
<1> QED BY <1>2, <1>3, <1>4 DEF Progress

LEMMA FinishedIs ==
  ASSUME NEW x \in OpenTx, Progress(x), ~Unfinished(x)
  PROVE  DOMAIN x.written # {} /\ \A i \in 1..Len(x.moves) : x.moves[i].place \in DOMAIN x.written
<1>1. DOMAIN x.written # {}
  <2>1. Len(x.moves) \in {1, 2} /\ ~(Cardinality(DOMAIN x.written) < Len(x.moves))
    BY DEF Unfinished, Progress
  <2>2. ~(0 < Len(x.moves)) => FALSE
    BY <2>1
  <2> QED BY <2>1, <2>2, Counted
<1>2. CASE DOMAIN x.written = {x.moves[1].place}
  <2>1. Cardinality(DOMAIN x.written) = 1
    BY <1>2, Counted
  <2>2. Len(x.moves) = 1
    BY <2>1 DEF Unfinished, Progress
  <2> QED BY <1>2, <2>2
<1>3. CASE Len(x.moves) = 2 /\ DOMAIN x.written = {x.moves[1].place, x.moves[2].place}
  BY <1>3
<1> QED BY <1>1, <1>2, <1>3 DEF Progress

(* The movement it books at a place: Booked, for a transaction. *)
Effect(x, p) ==
  LET moves == {x.moves[i] : i \in DOMAIN x.moves}
  IN IF \E m \in moves : m.place = p THEN (CHOOSE m \in moves : m.place = p).delta ELSE 0

LEMMA EffectIs ==
  ASSUME NEW x \in OpenTx, Progress(x)
  PROVE  /\ \A i \in 1..Len(x.moves) : Effect(x, x.moves[i].place) = x.moves[i].delta
         /\ \A p : Effect(x, p) \in Int
         /\ \A p : (\A i \in 1..Len(x.moves) : x.moves[i].place # p) => Effect(x, p) = 0
<1> DEFINE moves == {x.moves[i] : i \in DOMAIN x.moves}
<1>1. /\ Len(x.moves) \in {1, 2} /\ DOMAIN x.moves = 1..Len(x.moves) /\ moves \subseteq Change
      /\ Len(x.moves) = 2 => x.moves[1].place # x.moves[2].place
  BY OpenTxIs DEF Progress
<1>2. \A i, j \in 1..Len(x.moves) : x.moves[i].place = x.moves[j].place => x.moves[i] = x.moves[j]
  BY <1>1
<1>3. \A m, n \in moves : m.place = n.place => m = n
  BY <1>1, <1>2
<1>4. ASSUME NEW m \in moves PROVE Effect(x, m.place) = m.delta
  <2>1. (CHOOSE n \in moves : n.place = m.place) = m
    BY <1>3
  <2> QED BY <2>1 DEF Effect
<1>5. ASSUME NEW p PROVE Effect(x, p) \in Int
  <2>1. CASE \E m \in moves : m.place = p
    BY <1>1, <1>4, <2>1 DEF Change
  <2>2. CASE ~\E m \in moves : m.place = p
    BY <2>2 DEF Effect
  <2> QED BY <2>1, <2>2
<1>6. ASSUME NEW p, \A i \in 1..Len(x.moves) : x.moves[i].place # p PROVE Effect(x, p) = 0
  <2>1. ~\E m \in moves : m.place = p
    BY <1>1, <1>6
  <2> QED BY <2>1 DEF Effect
<1>7. \A i \in 1..Len(x.moves) : x.moves[i] \in moves
  BY <1>1
<1> QED BY <1>4, <1>5, <1>6, <1>7

-----------------------------------------------------------------------------
(* The transactions of all actors *)

Types ==
  /\ quantity \in [Place -> Nat \cup {None}] /\ quantity["warehouse"] # None
  /\ \A p \in Place : OrZero(quantity[p]) <= MaxQuantity
  /\ line \in [Line -> Row \cup {None}]
  /\ journal \in [Place -> Int]
  /\ tx \in [Actor -> OpenTx \cup {Idle}]
  /\ \A a \in Actor : Running(a) => Good(tx[a])
  /\ alerted \in BOOLEAN /\ lost \subseteq Place

(* A row lock has one holder. *)
Exclusive == \A a, b \in Actor : a # b => Locked(a) \cap Locked(b) = {}

(* The transaction of a is now y, and no other changes. *)
Becomes(a, y) == tx' = [tx EXCEPT ![a] = y]

LEMMA BecomesFacts ==
  ASSUME tx \in [Actor -> OpenTx \cup {Idle}], NEW a \in Actor, NEW y \in OpenTx \cup {Idle}, Becomes(a, y)
  PROVE  /\ tx' \in [Actor -> OpenTx \cup {Idle}]
         /\ tx'[a] = y /\ (Running(a)' <=> y # Idle)
         /\ y \in OpenTx => Running(a)' /\ Locked(a)' = DOMAIN y.written
         /\ y = Idle => ~Running(a)' /\ Locked(a)' = {}
         /\ \A b \in Actor \ {a} : tx'[b] = tx[b] /\ (Running(b)' <=> Running(b)) /\ Locked(b)' = Locked(b)
<1>1. tx'[a] = y /\ \A b \in Actor \ {a} : tx'[b] = tx[b]
  BY DEF Becomes
<1>2. tx' \in [Actor -> OpenTx \cup {Idle}]
  BY DEF Becomes
<1>3. y \in OpenTx => y # Idle
  BY OpenTxIs
<1> QED BY <1>1, <1>2, <1>3 DEF Running, Locked

LEMMA RunningIs ==
  ASSUME tx \in [Actor -> OpenTx \cup {Idle}], \A a \in Actor : Running(a) => Good(tx[a]), NEW a \in Actor, Running(a)
  PROVE  /\ tx[a] \in OpenTx /\ Progress(tx[a]) /\ Fits(tx[a])
         /\ Locked(a) = DOMAIN tx[a].written /\ Locked(a) \subseteq Place
         /\ Moving(a) <=> Unfinished(tx[a])
         /\ Current(a) = Pending(tx[a])
         /\ \A p : Booked(a, p) = Effect(tx[a], p)
<1>1. tx[a] \in OpenTx /\ Progress(tx[a]) /\ Fits(tx[a])
  BY DEF Good
<1>2. Locked(a) = DOMAIN tx[a].written /\ Locked(a) \subseteq Place
  BY <1>1, OpenTxIs DEF Locked
<1>3. (Moving(a) <=> Unfinished(tx[a])) /\ Current(a) = Pending(tx[a])
  BY <1>2 DEF Moving, Current, Unfinished, Pending
<1>4. \A p : Booked(a, p) = Effect(tx[a], p)
  BY DEF Booked, Effect
<1> QED BY <1>1, <1>2, <1>3, <1>4

(* The operations begin a transaction that has changed nothing yet. *)
Begins(a) ==
  /\ ~Running(a) /\ UNCHANGED <<quantity, line, journal, used, alerted, lost>>
  /\ \E y \in OpenTx : Becomes(a, y) /\ Good(y) /\ DOMAIN y.written = {}

LEMMA BeginSteps ==
  ASSUME NEW a, NEW moves \in Seq(Change), NEW adds \in Line \cup {None}, NEW removes \in Line \cup {None},
         Len(moves) \in {1, 2}, Len(moves) = 2 => moves[1].place # moves[2].place /\ moves[2].delta > 0,
         adds # None => Len(moves) = 1 /\ moves[1].delta < 0 /\ removes = None,
         Begin(a, moves, adds, removes)
  PROVE  Begins(a)
<1> DEFINE y == [at |-> "reading", moves |-> moves, read |-> None, written |-> <<>>,
                 adds |-> adds, removes |-> removes]
<1>1. <<>> \in Quantities /\ DOMAIN <<>> = {}
  <2>1. <<>> \in [{} -> Nat] /\ {} \in SUBSET Place
    OBVIOUS
  <2> QED BY <2>1 DEF Quantities
<1>2. y \in OpenTx
  BY <1>1 DEF OpenTx
<1>3. y.at = "reading" /\ y.moves = moves /\ DOMAIN y.written = {} /\ y.adds = adds /\ y.removes = removes
  BY <1>1
<1>4. Becomes(a, y) /\ ~Running(a) /\ UNCHANGED <<quantity, line, journal, used, alerted, lost>>
  BY DEF Begin, Becomes, Running
<1> HIDE DEF y
<1>5. Good(y)
  BY <1>2, <1>3 DEF Good, Progress, Fits
<1> QED BY <1>2, <1>3, <1>4, <1>5 DEF Begins

LEMMA MoveIs == \A p \in Place, d \in Int : Move(p, d) \in Change /\ Move(p, d).place = p /\ Move(p, d).delta = d
BY DEF Move, Change

LEMMA OneMove ==
  ASSUME NEW a, NEW p \in Place, NEW d \in Int, NEW adds \in Line \cup {None}, NEW removes \in Line \cup {None},
         adds # None => d < 0 /\ removes = None,
         Begin(a, <<Move(p, d)>>, adds, removes)
  PROVE  Begins(a)
<1> DEFINE m == Move(p, d)
           moves == <<m>>
<1>1. m \in Change /\ m.delta = d
  BY MoveIs
<1> HIDE DEF m
<1>2. moves \in Seq(Change) /\ Len(moves) = 1 /\ moves[1].delta = d
  BY <1>1
<1>3. Begin(a, moves, adds, removes)
  BY DEF m
<1> HIDE DEF moves
<1> QED BY <1>2, <1>3, BeginSteps

LEMMA TwoMoves ==
  ASSUME NEW a, NEW p \in Place, NEW d \in Int, NEW r \in Place, NEW e \in Int, p # r, e > 0,
         Begin(a, <<Move(p, d), Move(r, e)>>, None, None)
  PROVE  Begins(a)
<1> DEFINE m == Move(p, d)
           n == Move(r, e)
           moves == <<m, n>>
<1>1. m \in Change /\ n \in Change /\ m.place # n.place /\ n.delta > 0
  BY MoveIs
<1> HIDE DEF m, n
<1>2. moves \in Seq(Change) /\ Len(moves) = 2 /\ moves[1].place # moves[2].place /\ moves[2].delta > 0
  BY <1>1
<1>3. Begin(a, moves, None, None)
  BY DEF m, n
<1> HIDE DEF moves
<1> QED BY <1>2, <1>3, BeginSteps

LEMMA OperationsBegin ==
  ASSUME Types, NEW a \in Actor, NEW q \in Amount,
         \/ \E p \in Place : adjust(a, p, q) \/ adjust(a, p, 0 - q)
         \/ \E t \in Technician, direction \in {"TO_TECH", "TO_WAREHOUSE"} : transfer(a, t, q, direction)
         \/ \E l \in Line, p \in Place : addWorkOrderPart(a, l, p, q)
  PROVE  Begins(a)
<1>1. q \in Int /\ 0 - q \in Int /\ 0 - q < 0 /\ q > 0
  BY BoundAssumption
<1>2. /\ "warehouse" \in Place /\ Technician \subseteq Place
      /\ \A t \in Technician : t # "warehouse"
      /\ \A l \in Line : l # None
  BY ActorAssumption DEF Place
<1>3. ASSUME NEW p \in Place, NEW d \in {q, 0 - q}, adjust(a, p, d) PROVE Begins(a)
  BY <1>1, <1>3, OneMove DEF adjust
<1>4. ASSUME NEW t \in Technician, NEW direction, transfer(a, t, q, direction) PROVE Begins(a)
  <2>1. Begin(a, <<Move("warehouse", 0 - q), Move(t, q)>>, None, None)
        \/ Begin(a, <<Move(t, 0 - q), Move("warehouse", q)>>, None, None)
    BY <1>4 DEF transfer
  <2> QED BY <1>1, <1>2, <2>1, TwoMoves
<1>5. ASSUME NEW l \in Line, NEW p \in Place, addWorkOrderPart(a, l, p, q) PROVE Begins(a)
  BY <1>1, <1>5, OneMove DEF addWorkOrderPart
<1> QED BY <1>3, <1>4, <1>5

LEMMA RemovalBegins ==
  ASSUME Types, NEW a \in Actor, NEW l \in Line, removeWorkOrderPart(a, l)
  PROVE  Begins(a)
<1>1. line[l] \in Row
  BY DEF Types, removeWorkOrderPart
<1>2. line[l].source \in Place /\ line[l].quantity \in Int
  BY <1>1, BoundAssumption DEF Row
<1> QED BY <1>2, OneMove DEF removeWorkOrderPart

(* A transaction ends: rolled back, or refused for want of a quantity. *)
Ends(a) ==
  /\ Running(a) /\ Becomes(a, Idle) /\ UNCHANGED <<quantity, line, journal, used, lost>>
  /\ alerted' \in {alerted, FALSE}
  /\ alerted' = TRUE => ("warehouse" \in Locked(a) => quantity["warehouse"] < minStock)

(* It has read the quantity it is about to change, *)
Reads(a, y) ==
  /\ Running(a) /\ Becomes(a, y) /\ Good(y) /\ UNCHANGED <<quantity, line, journal, used, alerted, lost>>
  /\ y.moves = tx[a].moves /\ y.written = tx[a].written /\ y.at = "writing"

LEMMA ReadSteps ==
  ASSUME Types, Exclusive, NEW a \in Actor, ReadQuantity(a)
  PROVE  Ends(a) \/ \E y \in OpenTx : Reads(a, y)
<1> DEFINE x == tx[a]
           m == Pending(x)
           y == [x EXCEPT !.at = "writing", !.read = quantity[m.place]]
<1>0. Running(a) /\ Moving(a) /\ UNCHANGED <<quantity, line, journal, used, alerted, lost>> /\ a \in DOMAIN tx
  BY DEF ReadQuantity, Moving, Types
<1>1. x \in OpenTx /\ Progress(x) /\ Fits(x) /\ Unfinished(x) /\ Current(a) = m
  BY <1>0, RunningIs DEF Types
<1>2. m.place \in Place /\ m.delta \in Int /\ m.place \notin DOMAIN x.written
      /\ \/ DOMAIN x.written = {} /\ m = x.moves[1]
         \/ Len(x.moves) = 2 /\ DOMAIN x.written = {x.moves[1].place} /\ m = x.moves[2]
  BY <1>1, PendingIs
<1>3. quantity[m.place] \in Nat \cup {None} /\ OrZero(quantity[m.place]) \in Nat
      /\ OrZero(quantity[m.place]) <= MaxQuantity
      /\ (m.place = "warehouse" => quantity[m.place] # None)
  BY <1>2 DEF Types, OrZero
<1>4. CASE OrZero(quantity[m.place]) + m.delta < 0
  <2>1. Becomes(a, Idle)
    BY <1>1, <1>4 DEF ReadQuantity, Becomes
  <2>2. DOMAIN x.written = {}
    BY <1>1, <1>2, <1>3, <1>4 DEF Progress
  <2>3. Locked(a) = {}
    BY <1>0, <2>2 DEF Locked
  <2> QED BY <1>0, <2>1, <2>3 DEF Ends
<1>5. CASE OrZero(quantity[m.place]) + m.delta >= 0
  <2>1. ~(OrZero(quantity[m.place]) + m.delta < 0)
    BY <1>2, <1>3, <1>5
  <2>2. Becomes(a, y)
    BY <1>1, <2>1 DEF ReadQuantity, Becomes
  <2>3. y \in OpenTx /\ y.at = "writing" /\ y.moves = x.moves /\ y.written = x.written /\ y.adds = x.adds
        /\ y.removes = x.removes /\ y.read = quantity[m.place]
    BY <1>1, <1>3 DEF OpenTx
  <2> HIDE DEF y
  <2>4. Progress(y) /\ Unfinished(y) /\ Pending(y) = m
    BY <1>1, <2>3 DEF Progress, Unfinished, Pending
  <2>5. ASSUME y.adds # None
        PROVE  Len(y.moves) = 1 /\ y.moves[1].delta < 0 /\ 0 - y.moves[1].delta <= MaxQuantity
    <3>1. Len(x.moves) = 1 /\ x.moves[1].delta < 0
      BY <1>1, <2>3, <2>5 DEF Fits
    <3>2. m = x.moves[1]
      BY <1>2, <3>1
    <3>3. 0 - m.delta <= MaxQuantity
      BY <1>2, <1>3, <1>5, BoundAssumption
    <3> QED BY <2>3, <3>1, <3>2, <3>3
  <2>6. Fits(y)
    <3>1. y.adds = None \/ y.removes = None
      BY <1>1, <2>3 DEF Fits
    <3> QED BY <1>3, <1>5, <2>3, <2>4, <2>5, <3>1 DEF Fits
  <2>7. Good(y)
    BY <2>3, <2>4, <2>6 DEF Good
  <2> QED BY <1>0, <2>2, <2>3, <2>7 DEF Reads
<1> HIDE DEF m, x
<1> QED BY <1>2, <1>3, <1>4, <1>5

(* and writes it: p is the place, q the quantity. *)
Writes(a, y, p, q) ==
  /\ Running(a) /\ Becomes(a, y) /\ Good(y) /\ UNCHANGED <<quantity, line, journal, used>>
  /\ y.moves = tx[a].moves /\ y.at = "reading"
  /\ p \in Place /\ p \notin Locked(a) /\ q \in Nat
  /\ DOMAIN y.written = Locked(a) \cup {p} /\ y.written[p] = q
  /\ \A r \in Locked(a) : y.written[r] = tx[a].written[r]
  /\ \A b \in Actor \ {a} : p \notin Locked(b)
  /\ lost' \in {lost, lost \cup {p}}
  /\ p \in lost' \/ q = OrZero(quantity[p]) + Effect(tx[a], p)
  /\ p \in lost' \/ quantity[p] = tx[a].read
  /\ alerted' = (alerted \/ Crosses(a))
  /\ p = Current(a).place /\ q = After(a)

LEMMA WriteSteps ==
  ASSUME Types, Exclusive, NEW a \in Actor, WriteQuantity(a)
  PROVE  \E y, p, q : y \in OpenTx /\ Writes(a, y, p, q)
<1> DEFINE x == tx[a]
           m == Pending(x)
           p == m.place
           q == After(a)
           w == Over([r \in {p} |-> q], x.written)
           y == [x EXCEPT !.at = "reading", !.written = w]
<1>0. Running(a) /\ Moving(a) /\ UNCHANGED <<quantity, line, journal, used>> /\ x.at = "writing" /\ a \in DOMAIN tx
  BY DEF WriteQuantity, Moving, Types
<1>1. x \in OpenTx /\ Progress(x) /\ Fits(x) /\ Unfinished(x) /\ Current(a) = m /\ Locked(a) = DOMAIN x.written
  BY <1>0, RunningIs DEF Types
<1>2. m \in Change /\ p \in Place /\ m.delta \in Int /\ p \notin DOMAIN x.written
      /\ \/ DOMAIN x.written = {} /\ m = x.moves[1]
         \/ Len(x.moves) = 2 /\ DOMAIN x.written = {x.moves[1].place} /\ m = x.moves[2]
  BY <1>1, PendingIs
<1>3. q = OrZero(x.read) + m.delta /\ OrZero(x.read) \in Nat /\ q \in Nat
  <2>1. OrZero(x.read) + m.delta >= 0 /\ OrZero(x.read) \in Nat
    BY <1>0, <1>1, OpenTxIs DEF Fits
  <2> QED BY <1>1, <1>2, <2>1 DEF After
<1> HIDE DEF q
<1>4. /\ DOMAIN w = {p} \cup DOMAIN x.written /\ w[p] = q
      /\ \A r \in DOMAIN x.written : w[r] = x.written[r]
      /\ w \in Quantities
  <2>1. DOMAIN w = {p} \cup DOMAIN x.written /\ w[p] = q
    BY DEF Over
  <2>2. \A r \in DOMAIN x.written : w[r] = x.written[r]
    BY <1>2 DEF Over
  <2>3. DOMAIN w \subseteq Place /\ \A r \in DOMAIN w : w[r] \in Nat
    BY <1>1, <1>2, <1>3, <2>1, <2>2, OpenTxIs
  <2>4. w = [r \in DOMAIN w |-> w[r]]
    BY <2>1 DEF Over
  <2> HIDE DEF w
  <2>5. w \in [DOMAIN w -> Nat]
    BY <2>3, <2>4
  <2> QED BY <2>1, <2>2, <2>3, <2>5 DEF Quantities
<1>5. /\ Becomes(a, y) /\ \A b \in Actor \ {a} : p \notin Locked(b)
      /\ alerted' = (alerted \/ Crosses(a))
      /\ lost' = IF quantity[p] # x.read THEN lost \cup {p} ELSE lost
  <2>1. x.written = tx[a].written
    OBVIOUS
  <2>2. tx' = [tx EXCEPT ![a].at = "reading", ![a].written = Over([r \in {p} |-> q], @)]
    BY <1>1 DEF WriteQuantity, q
  <2>3. Becomes(a, y)
    BY <1>0, <2>2 DEF Becomes
  <2> QED BY <1>1, <2>3 DEF WriteQuantity, LockedByOther, LostUpdate
<1> HIDE DEF w
<1>6. y \in OpenTx /\ y.at = "reading" /\ y.moves = x.moves /\ y.written = w /\ y.adds = x.adds /\ y.removes = x.removes
  BY <1>1, <1>4 DEF OpenTx
<1> HIDE DEF y
<1>7. Progress(y)
  BY <1>1, <1>2, <1>4, <1>6 DEF Progress
<1>8. Fits(y)
  BY <1>0, <1>1, <1>6 DEF Fits
<1>9. Effect(x, p) = m.delta
  <2>1. \E i \in 1..Len(x.moves) : x.moves[i] = m
    BY <1>1, <1>2 DEF Progress
  <2> QED BY <1>1, <2>1, EffectIs
<1>10. p \in lost' \/ quantity[p] = x.read
  BY <1>5
<1>11. Good(y) /\ DOMAIN y.written = Locked(a) \cup {p} /\ y.written[p] = q
       /\ \A r \in Locked(a) : y.written[r] = tx[a].written[r]
  BY <1>1, <1>4, <1>6, <1>7, <1>8 DEF Good
<1>12. q = After(a) /\ p = Current(a).place /\ (p \in lost' \/ q = OrZero(quantity[p]) + Effect(tx[a], p))
  BY <1>1, <1>3, <1>9, <1>10 DEF q
<1>13. Writes(a, y, p, q)
  BY <1>0, <1>1, <1>2, <1>3, <1>5, <1>6, <1>10, <1>11, <1>12 DEF Writes
<1> QED BY <1>6, <1>13

(* The commit: w is what the transaction wrote. *)
Commits(a, w) ==
  /\ Running(a) /\ Becomes(a, Idle) /\ lost' = lost
  /\ w = tx[a].written /\ w \in Quantities /\ DOMAIN w = Locked(a)
  /\ quantity' = Over(w, quantity) /\ \A p \in Place : OrZero(quantity'[p]) <= MaxQuantity
  /\ journal' \in [Place -> Int] /\ \A p \in Place : journal'[p] = journal[p] + Effect(tx[a], p)
  /\ \A p \in Place \ Locked(a) : Effect(tx[a], p) = 0
  /\ alerted' = (alerted /\ ~Replenished)
  /\ line' \in [Line -> Row \cup {None}]

LEMMA CommitSteps ==
  ASSUME Types, NEW a \in Actor, Commit(a)
  PROVE  Commits(a, tx[a].written)
<1> DEFINE x == tx[a]
<1>0. /\ Running(a) /\ ~Moving(a) /\ Becomes(a, Idle) /\ lost' = lost /\ alerted' = (alerted /\ ~Replenished)
      /\ quantity' = Over(x.written, quantity)
      /\ \A p \in Place : OrZero(quantity'[p]) <= MaxQuantity
      /\ journal' = [p \in Place |-> journal[p] + Booked(a, p)]
  BY DEF Commit, Becomes
<1>1. x \in OpenTx /\ Progress(x) /\ Fits(x) /\ ~Unfinished(x) /\ Locked(a) = DOMAIN x.written
      /\ \A p : Booked(a, p) = Effect(x, p)
  BY <1>0, RunningIs DEF Types
<1>2. x.written \in Quantities
  BY <1>1 DEF OpenTx
<1>3. \A p \in Place \ Locked(a) : Effect(x, p) = 0
  BY <1>1, FinishedIs, EffectIs
<1>4. journal' \in [Place -> Int] /\ \A p \in Place : journal'[p] = journal[p] + Effect(x, p)
  <2>1. \A p \in Place : Booked(a, p) = Effect(x, p) /\ Effect(x, p) \in Int
    BY <1>1, EffectIs
  <2>2. \A p \in Place : journal[p] + Booked(a, p) \in Int
    BY <2>1 DEF Types
  <2>3. \A p \in Place : journal'[p] = journal[p] + Booked(a, p)
    BY <1>0
  <2>4. journal' \in [Place -> Int]
    BY <1>0, <2>2
  <2>5. \A p \in Place : journal'[p] = journal[p] + Effect(x, p)
    BY <2>1, <2>3
  <2> QED BY <2>4, <2>5
<1>5. ASSUME NEW l \in Line PROVE line'[l] \in Row \cup {None}
  <2>1. CASE l = x.adds
    <3>1. x.adds # None
      BY <2>1, ActorAssumption
    <3>2. DOMAIN x.written # {}
      BY <1>1, FinishedIs
    <3>3. Len(x.moves) = 1 /\ x.moves[1].delta < 0 /\ 0 - x.moves[1].delta <= MaxQuantity /\ x.moves[1] \in Change
      BY <1>1, <3>1, <3>2, OpenTxIs DEF Fits
    <3>4. line'[l] = [source |-> x.moves[1].place, quantity |-> 0 - x.moves[1].delta, addedBy |-> a]
      BY <1>1, <2>1, <3>1 DEF Commit, Fits
    <3>5. 0 - x.moves[1].delta \in 1..MaxQuantity /\ x.moves[1].place \in Place
      BY <3>3, BoundAssumption DEF Change
    <3> QED BY <3>4, <3>5 DEF Row
  <2>2. CASE l # x.adds
    <3>1. line'[l] = IF l = x.removes THEN None ELSE line[l]
      BY <2>2 DEF Commit
    <3> QED BY <3>1 DEF Types
  <2> QED BY <2>1, <2>2
<1>6. line' \in [Line -> Row \cup {None}]
  <2>1. line' = [l \in Line |-> line'[l]]
    BY DEF Commit
  <2> QED BY <1>5, <2>1
<1> QED BY <1>0, <1>1, <1>2, <1>3, <1>4, <1>6 DEF Commits

LEMMA RollbackSteps ==
  ASSUME Types, NEW a \in Actor, Refused(a) \/ Fail(a)
  PROVE  Ends(a)
<1>1. Running(a) /\ Rollback(a)
  BY DEF Refused, Fail
<1>2. \/ alerted' = FALSE
      \/ alerted' = alerted /\ ("warehouse" \in Locked(a) => quantity["warehouse"] < minStock)
  BY <1>1 DEF Rollback, Types
<1> QED BY <1>1, <1>2 DEF Ends, Rollback, Becomes

Receives(a, q) ==
  /\ q \in Nat \ {0} /\ ~Running(a) /\ UNCHANGED <<tx, line, lost>>
  /\ \A b \in Actor : "warehouse" \notin Locked(b)
  /\ quantity["warehouse"] \in Nat /\ quantity["warehouse"] + q <= MaxQuantity
  /\ quantity' = [quantity EXCEPT !["warehouse"] = @ + q]
  /\ journal' = [journal EXCEPT !["warehouse"] = @ + q]
  /\ alerted' = (alerted /\ ~Replenished)

LEMMA ReceiveSteps ==
  ASSUME Types, NEW a \in Actor, NEW q \in Amount, receive(a, q)
  PROVE  Receives(a, q)
<1>1. quantity["warehouse"] \in Nat /\ q \in Nat \ {0}
  BY BoundAssumption DEF Types, Place
<1>2. Locked(a) = {} /\ ~Running(a)
  BY DEF receive, Locked, Running
<1> QED BY <1>1, <1>2 DEF receive, Receives, LockedByOther

(* So every step is one of these. *)
Steps(a) ==
  \/ \E q : Receives(a, q)
  \/ Begins(a)
  \/ \E y \in OpenTx : Reads(a, y)
  \/ \E y, p, q : y \in OpenTx /\ Writes(a, y, p, q)
  \/ \E w : Commits(a, w)
  \/ Ends(a)

LEMMA AllSteps ==
  ASSUME Types, Exclusive, [Next]_vars
  PROVE  UNCHANGED vars \/ \E a \in Actor : Steps(a)
<1>1. ASSUME NEW a \in Actor, NEW q \in Amount,
             \/ receive(a, q)
             \/ \E p \in Place : adjust(a, p, q) \/ adjust(a, p, 0 - q)
             \/ \E t \in Technician, direction \in {"TO_TECH", "TO_WAREHOUSE"} : transfer(a, t, q, direction)
             \/ \E l \in Line, p \in Place : addWorkOrderPart(a, l, p, q)
      PROVE  Steps(a)
  BY <1>1, ReceiveSteps, OperationsBegin DEF Steps
<1>2. ASSUME NEW a \in Actor,
             \/ \E l \in Line : removeWorkOrderPart(a, l)
             \/ ReadQuantity(a) \/ WriteQuantity(a) \/ Commit(a) \/ Refused(a) \/ Fail(a)
      PROVE  Steps(a)
  BY <1>2, RemovalBegins, ReadSteps, WriteSteps, CommitSteps, RollbackSteps DEF Steps
<1> QED BY <1>1, <1>2 DEF Next

-----------------------------------------------------------------------------
(* Types, and locks *)

LEMMA InitTypes == Init => Types /\ Exclusive
<1> SUFFICES ASSUME Init PROVE Types /\ Exclusive
  OBVIOUS
<1>1. \A a \in Actor : tx[a] = Idle /\ ~Running(a) /\ Locked(a) = {}
  BY DEF Init, Running, Locked
<1>2. /\ quantity \in [Place -> Nat \cup {None}] /\ quantity["warehouse"] = 0
      /\ \A p \in Place : OrZero(quantity[p]) = 0
  BY DEF Init, Place, OrZero
<1>3. quantity["warehouse"] # None
  BY <1>2, ActorAssumption
<1>4. tx \in [Actor -> OpenTx \cup {Idle}]
  BY DEF Init
<1>5. line \in [Line -> Row \cup {None}] /\ journal \in [Place -> Int] /\ alerted \in BOOLEAN /\ lost \subseteq Place
  BY DEF Init
<1> QED BY <1>1, <1>2, <1>3, <1>4, <1>5, BoundAssumption DEF Types, Exclusive

(* A transaction that comes to y keeps locks exclusive if y has a lock more at most, and nobody's. *)
LEMMA OthersKeep ==
  ASSUME Types, Exclusive, NEW a \in Actor, NEW y \in OpenTx \cup {Idle}, Becomes(a, y), y \in OpenTx => Good(y),
         \A p \in Locked(a)' : p \in Locked(a) \/ \A b \in Actor \ {a} : p \notin Locked(b)
  PROVE  /\ tx' \in [Actor -> OpenTx \cup {Idle}] /\ \A b \in Actor : Running(b)' => Good(tx'[b])
         /\ Exclusive'
<1>0. tx \in [Actor -> OpenTx \cup {Idle}]
  BY DEF Types
<1>1. /\ tx' \in [Actor -> OpenTx \cup {Idle}]
      /\ tx'[a] = y /\ (Running(a)' <=> y # Idle)
      /\ \A b \in Actor \ {a} : tx'[b] = tx[b] /\ (Running(b)' <=> Running(b)) /\ Locked(b)' = Locked(b)
  BY <1>0, BecomesFacts
<1>2. \A b \in Actor : Running(b)' => Good(tx'[b])
  BY <1>1 DEF Types
<1>3. ASSUME NEW b \in Actor, NEW c \in Actor, b # c PROVE Locked(b)' \cap Locked(c)' = {}
  BY <1>1, <1>3 DEF Exclusive
<1> QED BY <1>1, <1>2, <1>3 DEF Exclusive

LEMMA StepTypes == Types /\ Exclusive /\ [Next]_vars => Types' /\ Exclusive'
<1> SUFFICES ASSUME Types, Exclusive, [Next]_vars PROVE Types' /\ Exclusive'
  OBVIOUS
<1>0. Idle \in OpenTx \cup {Idle} /\ (Idle \in OpenTx => FALSE)
  BY OpenTxIs
<1>1. CASE UNCHANGED vars
  BY <1>1 DEF vars, Types, Exclusive, Running, Locked, Good
<1>2. ASSUME tx' \in [Actor -> OpenTx \cup {Idle}], \A b \in Actor : Running(b)' => Good(tx'[b]), Exclusive',
             UNCHANGED <<quantity, line, journal>>, alerted' \in BOOLEAN, lost' \subseteq Place
      PROVE  Types' /\ Exclusive'
  BY <1>2 DEF Types
<1>3. ASSUME NEW a \in Actor, NEW q, Receives(a, q) PROVE Types' /\ Exclusive'
  <2>1. UNCHANGED <<tx, line, lost>> /\ Exclusive' /\ \A b \in Actor : Running(b)' => Good(tx'[b])
    BY <1>3 DEF Receives, Exclusive, Locked, Running, Types
  <2>2. "warehouse" \in Place /\ q \in Nat /\ quantity["warehouse"] + q \in Nat
        /\ quantity["warehouse"] + q <= MaxQuantity /\ quantity["warehouse"] + q # None
    BY <1>3, ActorAssumption DEF Receives, Place
  <2>3. quantity' \in [Place -> Nat \cup {None}] /\ quantity'["warehouse"] = quantity["warehouse"] + q
        /\ \A p \in Place \ {"warehouse"} : quantity'[p] = quantity[p]
    BY <1>3, <2>2 DEF Receives, Types
  <2>4. \A p \in Place : OrZero(quantity'[p]) <= MaxQuantity
    BY <2>2, <2>3 DEF OrZero, Types
  <2>5. journal' \in [Place -> Int]
    BY <1>3, <2>2 DEF Receives, Types
  <2>6. alerted' \in BOOLEAN
    BY <1>3 DEF Receives
  <2> QED BY <2>1, <2>2, <2>3, <2>4, <2>5, <2>6 DEF Types
<1>4. ASSUME NEW a \in Actor, Begins(a) PROVE Types' /\ Exclusive'
  <2>1. PICK y \in OpenTx : Becomes(a, y) /\ Good(y) /\ DOMAIN y.written = {}
    BY <1>4 DEF Begins
  <2>2. Locked(a)' = {}
    BY <2>1, BecomesFacts DEF Types
  <2>3. tx' \in [Actor -> OpenTx \cup {Idle}] /\ (\A b \in Actor : Running(b)' => Good(tx'[b])) /\ Exclusive'
    BY <2>1, <2>2, OthersKeep
  <2> QED BY <1>2, <1>4, <2>3 DEF Begins, Types
<1>5. ASSUME NEW a \in Actor, NEW y \in OpenTx, Reads(a, y) PROVE Types' /\ Exclusive'
  <2>1. Locked(a)' = Locked(a) /\ Becomes(a, y) /\ Good(y)
    BY <1>5, BecomesFacts DEF Types, Reads, Locked
  <2>2. tx' \in [Actor -> OpenTx \cup {Idle}] /\ (\A b \in Actor : Running(b)' => Good(tx'[b])) /\ Exclusive'
    BY <2>1, OthersKeep
  <2> QED BY <1>2, <1>5, <2>2 DEF Reads, Types
<1>6. ASSUME NEW a \in Actor, NEW y \in OpenTx, NEW p, NEW q, Writes(a, y, p, q) PROVE Types' /\ Exclusive'
  <2>1. Locked(a)' = Locked(a) \cup {p} /\ Becomes(a, y) /\ Good(y)
        /\ \A b \in Actor \ {a} : p \notin Locked(b)
    BY <1>6, BecomesFacts DEF Types, Writes
  <2>2. tx' \in [Actor -> OpenTx \cup {Idle}] /\ (\A b \in Actor : Running(b)' => Good(tx'[b])) /\ Exclusive'
    BY <2>1, OthersKeep
  <2>3. alerted' \in BOOLEAN /\ lost' \subseteq Place
    BY <1>6 DEF Writes, Types
  <2> QED BY <1>2, <1>6, <2>2, <2>3 DEF Writes
<1>7. ASSUME NEW a \in Actor, NEW w, Commits(a, w) PROVE Types' /\ Exclusive'
  <2>1. Locked(a)' = {} /\ Becomes(a, Idle)
    BY <1>0, <1>7, BecomesFacts DEF Types, Commits
  <2>2. tx' \in [Actor -> OpenTx \cup {Idle}] /\ (\A b \in Actor : Running(b)' => Good(tx'[b])) /\ Exclusive'
    BY <1>0, <2>1, OthersKeep
  <2>3. /\ DOMAIN w \subseteq Place /\ \A p \in DOMAIN w : w[p] \in Nat
        /\ quantity' = Over(w, quantity)
    BY <1>7 DEF Commits, Quantities
  <2>4. /\ DOMAIN quantity' = Place
        /\ \A p \in Place : quantity'[p] = IF p \in DOMAIN w THEN w[p] ELSE quantity[p]
    BY <2>3 DEF Over, Types
  <2>5. quantity' = [p \in Place |-> quantity'[p]]
    BY <2>3, <2>4 DEF Over
  <2>6. \A p \in Place : quantity'[p] \in Nat \cup {None}
    BY <2>3, <2>4 DEF Types
  <2>7. quantity' \in [Place -> Nat \cup {None}] /\ quantity'["warehouse"] # None
    BY <2>3, <2>4, <2>5, <2>6, ActorAssumption DEF Types, Place
  <2>8. alerted' \in BOOLEAN
    BY <1>7 DEF Commits
  <2> QED BY <1>7, <2>2, <2>7, <2>8 DEF Types, Commits
<1>8. ASSUME NEW a \in Actor, Ends(a) PROVE Types' /\ Exclusive'
  <2>1. Locked(a)' = {} /\ Becomes(a, Idle)
    BY <1>0, <1>8, BecomesFacts DEF Types, Ends
  <2>2. tx' \in [Actor -> OpenTx \cup {Idle}] /\ (\A b \in Actor : Running(b)' => Good(tx'[b])) /\ Exclusive'
    BY <1>0, <2>1, OthersKeep
  <2> QED BY <1>2, <1>8, <2>2 DEF Ends, Types
<1> QED BY <1>1, <1>3, <1>4, <1>5, <1>6, <1>7, <1>8, AllSteps DEF Steps

(* Quantities, rows and transactions have their shape, and no quantity is ever negative: each
   transaction refuses what it reads to be too little, and what it writes is computed from that
   reading, however old it is. *)
THEOREM TypeCorrect == Spec => []TypeOK
<1>1. Types => TypeOK
  <2> SUFFICES ASSUME Types PROVE TypeOK
    OBVIOUS
  <2>1. \A p \in Place : quantity[p] \in 0..MaxQuantity \cup {None}
    BY BoundAssumption DEF Types, OrZero
  <2>2. "warehouse" \in Place /\ Technician \subseteq Place /\ quantity["warehouse"] # None
    BY DEF Place, Types
  <2>3. \A a \in Actor : Running(a) => \A p \in Locked(a) : tx[a].written[p] \in Nat
    BY RunningIs, OpenTxIs DEF Types
  <2>4. \A l \in Line : line[l] = None \/ line[l] \in Row
    BY DEF Types
  <2>5. alerted \in BOOLEAN /\ lost \subseteq Place
    BY DEF Types
  <2> QED BY <2>1, <2>2, <2>3, <2>4, <2>5 DEF TypeOK, Row
<1> QED BY <1>1, InitTypes, StepTypes, PTL DEF Spec

-----------------------------------------------------------------------------
(* The journal *)

(* Beside the quantities, the writes under way: each is what the journal will say. *)
JournalInv ==
  /\ QuantityIsJournal
  /\ \A a \in Actor : \A p \in Locked(a) \ lost : tx[a].written[p] = journal[p] + Effect(tx[a], p)

LEMMA InitJournal == Init => JournalInv
BY DEF Init, JournalInv, QuantityIsJournal, Locked, Running, OrZero, Place

LEMMA StepJournal == Types /\ Exclusive /\ JournalInv /\ [Next]_vars => JournalInv'
<1> SUFFICES ASSUME Types, Exclusive, JournalInv, [Next]_vars PROVE JournalInv'
  OBVIOUS
<1>0. /\ \A p \in Place \ lost : OrZero(quantity[p]) = journal[p]
      /\ \A a \in Actor : \A p \in Locked(a) \ lost : tx[a].written[p] = journal[p] + Effect(tx[a], p)
      /\ \A a \in Actor : Locked(a) \subseteq Place
      /\ tx \in [Actor -> OpenTx \cup {Idle}] /\ Idle \in OpenTx \cup {Idle}
  BY RunningIs DEF JournalInv, QuantityIsJournal, Types, Locked
<1>1. ASSUME \A p \in Place \ lost' : OrZero(quantity'[p]) = journal'[p],
             \A b \in Actor : \A p \in Locked(b)' \ lost' : tx'[b].written[p] = journal'[p] + Effect(tx'[b], p)
      PROVE  JournalInv'
  BY <1>1 DEF JournalInv, QuantityIsJournal
<1>2. CASE UNCHANGED vars
  BY <1>0, <1>1, <1>2 DEF vars, Locked, Running
(* Only a changes, and no quantity. *)
<1>3. ASSUME NEW a \in Actor, NEW y \in OpenTx \cup {Idle}, Becomes(a, y), UNCHANGED <<quantity, journal>>,
             lost \subseteq lost',
             \A p \in Locked(a)' \ lost' : y.written[p] = journal[p] + Effect(y, p)
      PROVE  JournalInv'
  BY <1>0, <1>1, <1>3, BecomesFacts
<1>4. ASSUME NEW a \in Actor, NEW q, Receives(a, q) PROVE JournalInv'
  <2>1. UNCHANGED <<tx, lost>> /\ (\A b \in Actor : "warehouse" \notin Locked(b)) /\ q \in Nat
        /\ quantity["warehouse"] \in Nat /\ quantity["warehouse"] + q \in Nat
    BY <1>4 DEF Receives
  <2>2. /\ quantity'["warehouse"] = quantity["warehouse"] + q /\ journal'["warehouse"] = journal["warehouse"] + q
        /\ \A p \in Place \ {"warehouse"} : quantity'[p] = quantity[p] /\ journal'[p] = journal[p]
    BY <1>4 DEF Receives, Types, Place
  <2>3. OrZero(quantity["warehouse"]) = quantity["warehouse"] /\ OrZero(quantity'["warehouse"]) = quantity'["warehouse"]
    BY <2>1, <2>2, ActorAssumption DEF OrZero
  <2>4. \A b \in Actor : Locked(b)' = Locked(b)
    BY <2>1 DEF Locked, Running
  <2> QED BY <1>0, <1>1, <2>1, <2>2, <2>3, <2>4
<1>5. ASSUME NEW a \in Actor, Begins(a) PROVE JournalInv'
  BY <1>0, <1>3, <1>5, BecomesFacts DEF Begins
<1>6. ASSUME NEW a \in Actor, NEW y \in OpenTx, Reads(a, y) PROVE JournalInv'
  <2>1. Becomes(a, y) /\ UNCHANGED <<quantity, journal, lost>>
        /\ y.moves = tx[a].moves /\ y.written = tx[a].written /\ Locked(a) = DOMAIN y.written
    BY <1>6 DEF Reads, Locked
  <2>2. \A p : Effect(y, p) = Effect(tx[a], p)
    BY <2>1 DEF Effect
  <2>3. Locked(a)' = Locked(a)
    BY <1>0, <2>1, BecomesFacts
  <2> QED BY <1>0, <1>3, <2>1, <2>2, <2>3
<1>7. ASSUME NEW a \in Actor, NEW y \in OpenTx, NEW p, NEW q, Writes(a, y, p, q) PROVE JournalInv'
  <2>1. /\ Becomes(a, y) /\ UNCHANGED <<quantity, journal>> /\ lost \subseteq lost'
        /\ y.moves = tx[a].moves /\ p \in Place
        /\ DOMAIN y.written = Locked(a) \cup {p} /\ y.written[p] = q
        /\ \A r \in Locked(a) : y.written[r] = tx[a].written[r]
        /\ p \in lost' \/ q = OrZero(quantity[p]) + Effect(tx[a], p)
    BY <1>7 DEF Writes
  <2>2. \A r : Effect(y, r) = Effect(tx[a], r)
    BY <2>1 DEF Effect
  <2>3. Locked(a)' = Locked(a) \cup {p}
    BY <1>0, <2>1, BecomesFacts
  <2>4. \A r \in Locked(a)' \ lost' : y.written[r] = journal[r] + Effect(y, r)
    BY <1>0, <2>1, <2>2, <2>3
  <2> QED BY <1>3, <2>1, <2>4
<1>8. ASSUME NEW a \in Actor, NEW w, Commits(a, w) PROVE JournalInv'
  <2>1. /\ Becomes(a, Idle) /\ lost' = lost /\ w = tx[a].written /\ DOMAIN w = Locked(a)
        /\ \A p \in DOMAIN w : w[p] \in Nat
        /\ quantity' = Over(w, quantity) /\ DOMAIN quantity = Place
        /\ \A p \in Place : journal'[p] = journal[p] + Effect(tx[a], p)
        /\ \A p \in Place \ Locked(a) : Effect(tx[a], p) = 0
    BY <1>8 DEF Commits, Quantities, Types
  <2>2. /\ \A p \in Locked(a) : quantity'[p] = w[p] /\ OrZero(w[p]) = w[p]
        /\ \A p \in Place \ Locked(a) : quantity'[p] = quantity[p] /\ journal'[p] = journal[p]
    BY <1>0, <2>1, ActorAssumption DEF Over, OrZero, Types
  <2>3. \A p \in Place \ lost' : OrZero(quantity'[p]) = journal'[p]
    BY <1>0, <2>1, <2>2
  <2>4. /\ Locked(a)' = {}
        /\ \A b \in Actor \ {a} : tx'[b] = tx[b] /\ Locked(b)' = Locked(b)
    BY <1>0, <2>1, BecomesFacts
  <2>5. \A b \in Actor \ {a} : \A p \in Locked(b) : p \in Place /\ p \notin Locked(a)
    BY <1>0 DEF Exclusive
  <2> QED BY <1>0, <1>1, <2>1, <2>2, <2>3, <2>4, <2>5
<1>9. ASSUME NEW a \in Actor, Ends(a) PROVE JournalInv'
  <2>1. Becomes(a, Idle) /\ UNCHANGED <<quantity, journal, lost>>
    BY <1>9 DEF Ends
  <2>2. Locked(a)' = {}
    BY <1>0, <2>1, BecomesFacts
  <2> QED BY <1>0, <1>3, <2>1, <2>2
<1> QED BY <1>2, <1>4, <1>5, <1>6, <1>7, <1>8, <1>9, AllSteps DEF Steps

(* The quantity at a place is the sum of the movements booked for it, however transactions
   interleave, unless one of them overwrote a quantity that another changed behind its reading:
   each change of place holds its row lock until the movement is booked with it. *)
THEOREM JournalIsKept == Spec => []QuantityIsJournal
<1>1. JournalInv => QuantityIsJournal
  BY DEF JournalInv
<1> QED BY <1>1, InitTypes, StepTypes, InitJournal, StepJournal, PTL DEF Spec

-----------------------------------------------------------------------------
(* The alert of a low stock *)

(* An alert given stands for a warehouse below its minimum, or for a write under way that brings it there. *)
AlertInv ==
  minStock > 0 /\ "warehouse" \notin lost /\ alerted = TRUE =>
    \/ quantity["warehouse"] < minStock
    \/ \E a \in Actor : "warehouse" \in Locked(a) /\ tx[a].written["warehouse"] < minStock

LEMMA InitAlert == Init => AlertInv
BY MinStockAssumption DEF Init, AlertInv, Place

LEMMA StepAlert == Types /\ Exclusive /\ AlertInv /\ [Next]_vars => AlertInv'
<1> SUFFICES ASSUME Types, Exclusive, AlertInv, [Next]_vars,
                    minStock > 0, "warehouse" \notin lost', alerted' = TRUE
             PROVE  \/ quantity'["warehouse"] < minStock
                    \/ \E a \in Actor : "warehouse" \in Locked(a)' /\ tx'[a].written["warehouse"] < minStock
  BY DEF AlertInv
<1> DEFINE Goal == \/ quantity'["warehouse"] < minStock
                   \/ \E a \in Actor : "warehouse" \in Locked(a)' /\ tx'[a].written["warehouse"] < minStock
<1>0. /\ tx \in [Actor -> OpenTx \cup {Idle}] /\ Idle \in OpenTx \cup {Idle}
      /\ "warehouse" \in Place /\ quantity["warehouse"] \in Nat /\ minStock \in Nat /\ alerted \in BOOLEAN
      /\ \A a \in Actor : Locked(a) \subseteq Place
  BY RunningIs, MinStockAssumption DEF Types, Place, Locked
<1>1. ASSUME "warehouse" \notin lost, alerted = TRUE
      PROVE  \/ quantity["warehouse"] < minStock
             \/ \E a \in Actor : "warehouse" \in Locked(a) /\ tx[a].written["warehouse"] < minStock
  BY <1>1 DEF AlertInv
<1>2. CASE UNCHANGED vars
  BY <1>1, <1>2 DEF vars, Locked, Running
(* Only a changes, and not the warehouse if it had written it. *)
<1>3. ASSUME NEW a \in Actor, NEW y \in OpenTx \cup {Idle}, Becomes(a, y), UNCHANGED <<quantity, lost>>, alerted = TRUE,
             "warehouse" \in Locked(a) =>
                "warehouse" \in Locked(a)' /\ tx'[a].written["warehouse"] = tx[a].written["warehouse"]
      PROVE  Goal
  BY <1>0, <1>1, <1>3, BecomesFacts
<1>4. ASSUME NEW a \in Actor, NEW q, Receives(a, q) PROVE Goal
  <2>1. UNCHANGED lost /\ alerted = TRUE /\ ~Replenished /\ \A b \in Actor : "warehouse" \notin Locked(b)
    BY <1>0, <1>4 DEF Receives
  <2>2. quantity["warehouse"] < minStock /\ quantity'["warehouse"] \in Nat
    BY <1>0, <1>1, <1>4, <2>1 DEF Receives, Types
  <2> QED BY <1>0, <2>1, <2>2 DEF Replenished
<1>5. ASSUME NEW a \in Actor, Begins(a) PROVE Goal
  <2>1. Locked(a) = {}
    BY <1>5 DEF Begins, Locked
  <2> QED BY <1>3, <1>5, <2>1 DEF Begins
<1>6. ASSUME NEW a \in Actor, NEW y \in OpenTx, Reads(a, y) PROVE Goal
  <2>1. /\ Becomes(a, y) /\ UNCHANGED <<quantity, lost, alerted>> /\ y.written = tx[a].written
        /\ Locked(a) = DOMAIN y.written
    BY <1>6 DEF Reads, Locked
  <2>2. Locked(a)' = Locked(a) /\ tx'[a] = y
    BY <1>0, <2>1, BecomesFacts
  <2> QED BY <1>3, <2>1, <2>2
<1>7. ASSUME NEW a \in Actor, NEW y \in OpenTx, NEW p, NEW q, Writes(a, y, p, q) PROVE Goal
  <2>1. /\ Becomes(a, y) /\ UNCHANGED quantity /\ p \notin Locked(a) /\ lost \subseteq lost'
        /\ DOMAIN y.written = Locked(a) \cup {p} /\ y.written[p] = q
        /\ \A r \in Locked(a) : y.written[r] = tx[a].written[r]
        /\ alerted' = (alerted \/ Crosses(a)) /\ p = Current(a).place /\ q = After(a)
        /\ lost' \in {lost, lost \cup {p}}
    BY <1>7 DEF Writes
  <2>2. Locked(a)' = Locked(a) \cup {p} /\ tx'[a] = y
        /\ \A b \in Actor \ {a} : tx'[b] = tx[b] /\ Locked(b)' = Locked(b)
    BY <1>0, <2>1, BecomesFacts
  <2>3. CASE Crosses(a)
    BY <2>1, <2>2, <2>3 DEF Crosses
  <2>4. CASE alerted = TRUE
    BY <1>1, <2>1, <2>2, <2>4
  <2> QED BY <1>0, <2>1, <2>3, <2>4
<1>8. ASSUME NEW a \in Actor, NEW w, Commits(a, w) PROVE Goal
  <2>1. /\ Becomes(a, Idle) /\ lost' = lost /\ w = tx[a].written /\ DOMAIN w = Locked(a)
        /\ \A p \in DOMAIN w : w[p] \in Nat
        /\ quantity' = Over(w, quantity) /\ DOMAIN quantity = Place
        /\ alerted = TRUE /\ ~Replenished
    BY <1>0, <1>8 DEF Commits, Quantities, Types
  <2>2. /\ Locked(a)' = {}
        /\ \A b \in Actor \ {a} : tx'[b] = tx[b] /\ Locked(b)' = Locked(b)
    BY <1>0, <2>1, BecomesFacts
  <2>3. CASE "warehouse" \in Locked(a)
    <3>1. quantity'["warehouse"] = w["warehouse"] /\ w["warehouse"] \in Nat
      BY <2>1, <2>3 DEF Over
    <3>2. \A b \in Actor \ {a} : "warehouse" \notin Locked(b)
      BY <2>3 DEF Exclusive
    <3>3. quantity["warehouse"] < minStock \/ w["warehouse"] < minStock
      BY <1>1, <2>1, <3>2
    <3> QED BY <1>0, <2>1, <3>1, <3>3 DEF Replenished
  <2>4. CASE "warehouse" \notin Locked(a)
    <3>1. quantity'["warehouse"] = quantity["warehouse"]
      BY <1>0, <2>1, <2>4 DEF Over
    <3> QED BY <1>1, <2>1, <2>2, <2>4, <3>1
  <2> QED BY <2>3, <2>4
<1>9. ASSUME NEW a \in Actor, Ends(a) PROVE Goal
  <2>1. Becomes(a, Idle) /\ UNCHANGED <<quantity, lost>> /\ alerted = TRUE
        /\ ("warehouse" \in Locked(a) => quantity["warehouse"] < minStock)
    BY <1>0, <1>9 DEF Ends
  <2> QED BY <1>3, <2>1
<1> QED BY <1>2, <1>4, <1>5, <1>6, <1>7, <1>8, <1>9, AllSteps DEF Steps

(* One fall of the warehouse below its minimum is alerted once: a second write that crosses the
   minimum finds no alert standing, unless it was computed from an old reading. *)
THEOREM CrossingsAlertOnce == Spec => OneAlertPerCrossing
<1> DEFINE Once == \A a \in Actor :
                     Moving(a) /\ tx[a].at = "writing" /\ tx'[a] # Idle /\ tx'[a].at = "reading" /\ Crosses(a)
                     => ~alerted \/ "warehouse" \in lost'
<1>1. Types /\ Exclusive /\ AlertInv /\ [Next]_vars => [Once]_vars
  <2> SUFFICES ASSUME Types, Exclusive, AlertInv, [Next]_vars, NEW a \in Actor,
                      Moving(a), tx[a].at = "writing", tx'[a] # Idle, tx'[a].at = "reading", Crosses(a),
                      alerted = TRUE, "warehouse" \notin lost'
               PROVE  FALSE
    BY DEF Types
  <2>0. tx \in [Actor -> OpenTx \cup {Idle}] /\ Idle \in OpenTx \cup {Idle} /\ Running(a)
        /\ quantity["warehouse"] \in Nat /\ minStock \in Nat
    BY MinStockAssumption DEF Types, Moving, Place
  <2>1. \A b \in Actor, y \in OpenTx \cup {Idle} : Becomes(b, y) => IF a = b THEN tx'[a] = y ELSE tx'[a] = tx[a]
    BY <2>0, BecomesFacts
  <2>2. ASSUME NEW b \in Actor, Steps(b) PROVE \E y, p, q : y \in OpenTx /\ Writes(a, y, p, q)
    <3>1. ~(\E q : Receives(b, q)) /\ ~Begins(b) /\ ~(\E y \in OpenTx : Reads(b, y))
      BY <2>0, <2>1 DEF Receives, Begins, Reads
    <3>2. ~(\E w : Commits(b, w)) /\ ~Ends(b)
      BY <2>0, <2>1 DEF Commits, Ends
    <3>3. PICK y, p, q : y \in OpenTx /\ Writes(b, y, p, q)
      BY <2>2, <3>1, <3>2 DEF Steps
    <3>4. a = b
      BY <2>0, <2>1, <3>3 DEF Writes
    <3> QED BY <3>3, <3>4
  <2>3. ~UNCHANGED vars
    BY DEF vars
  <2>4. PICK y, p, q : y \in OpenTx /\ Writes(a, y, p, q)
    BY <2>2, <2>3, AllSteps
  <2>5. /\ p = "warehouse" /\ lost \subseteq lost'
        /\ p \notin Locked(a) /\ (\A b \in Actor \ {a} : p \notin Locked(b))
        /\ quantity["warehouse"] = tx[a].read /\ tx[a].read >= minStock /\ After(a) < minStock /\ After(a) \in Nat
    BY <2>4 DEF Writes, Crosses
  <2>6. minStock > 0 /\ ~(quantity["warehouse"] < minStock)
    BY <2>0, <2>5
  <2> QED BY <2>5, <2>6 DEF AlertInv
<1>2. Types /\ Exclusive /\ AlertInv /\ [Next]_vars => (Types /\ Exclusive /\ AlertInv)'
  BY StepTypes, StepAlert
<1> QED BY <1>1, <1>2, InitTypes, InitAlert, PTL DEF Spec, OneAlertPerCrossing

-----------------------------------------------------------------------------
(* Sums of rows *)

(* The quantities of rows, summed. *)
Total(rows, S) == MapThenSumSet(LAMBDA l : rows[l].quantity, S)

(* One step of the sum: the elements of s are taken one after the other. *)
SumStep(g, rows, s) ==
  IF s = {} THEN 0 ELSE rows[CHOOSE l \in s : TRUE].quantity + g[s \ {CHOOSE l \in s : TRUE}]

Sums(g, rows, S) == g = [s \in SUBSET S |-> SumStep(g, rows, s)]

LEMMA TotalIs ==
  ASSUME NEW rows, NEW S
  PROVE  Total(rows, S) = (CHOOSE g : Sums(g, rows, S))[S]
BY Zenon DEF Total, MapThenSumSet, MapThenFoldSet, Sums, SumStep

(* A set of numbers has a least one. *)
LEMMA Least ==
  ASSUME NEW S, S \subseteq Nat, S # {}
  PROVE  \E n \in S : \A m \in S : n <= m
<1>1. PICK n \in S : \A m \in S : <<m, n>> \notin OpToRel(<, Nat)
  BY NatLessThanWellFounded, WFMin, Zenon
<1>2. \A m \in S : ~(m < n)
  BY <1>1 DEF OpToRel
<1>3. \A m \in S : m \in Nat
  OBVIOUS
<1> QED BY <1>2, <1>3

(* A family of finite sets that has a member has one no smaller member of it is in. *)
LEMMA Smallest ==
  ASSUME NEW F, F # {}, \A s \in F : IsFiniteSet(s)
  PROVE  \E s \in F : \A t \in F : Cardinality(s) <= Cardinality(t)
<1> DEFINE Sizes == {Cardinality(s) : s \in F}
<1>1. Sizes \subseteq Nat /\ Sizes # {}
  BY FS_CardinalityType
<1>2. PICK n \in Sizes : \A m \in Sizes : n <= m
  <2> HIDE DEF Sizes
  <2> QED BY <1>1, Least
<1>3. PICK s \in F : n = Cardinality(s)
  OBVIOUS
<1>4. \A t \in F : Cardinality(t) \in Sizes
  OBVIOUS
<1> QED BY <1>2, <1>3, <1>4

(* A finite set without one of its elements. *)
LEMMA Without ==
  ASSUME NEW s, IsFiniteSet(s), NEW l \in s
  PROVE  /\ IsFiniteSet(s \ {l}) /\ Cardinality(s) \in Nat
         /\ Cardinality(s \ {l}) = Cardinality(s) - 1 /\ ~(Cardinality(s) <= Cardinality(s \ {l}))
<1>1. IsFiniteSet(s \ {l}) /\ Cardinality(s \ {l}) = Cardinality(s) - 1 /\ Cardinality(s) \in Nat
  BY FS_RemoveElement, FS_CardinalityType
<1> QED BY <1>1

(* The sum is a function of the subsets of a finite set: built for those with n elements at most,
   it is built for those with one more. *)
SumsUpTo(g, rows, S, n) ==
  g = [s \in {t \in SUBSET S : Cardinality(t) <= n} |-> SumStep(g, rows, s)]

LEMMA SumsExist ==
  ASSUME NEW rows, NEW S, IsFiniteSet(S)
  PROVE  \E g : Sums(g, rows, S)
<1> DEFINE K(n) == {t \in SUBSET S : Cardinality(t) <= n}
           Bad == {n \in Nat : ~\E g : SumsUpTo(g, rows, S, n)}
<1>1. \A s \in SUBSET S : IsFiniteSet(s) /\ Cardinality(s) \in Nat /\ Cardinality(s) <= Cardinality(S)
  BY FS_Subset, FS_CardinalityType
<1>2. Cardinality(S) \in Nat
  BY <1>1
<1>3. CASE Cardinality(S) \notin Bad
  <2>1. PICK g : SumsUpTo(g, rows, S, Cardinality(S))
    BY <1>2, <1>3
  <2>2. {t \in SUBSET S : Cardinality(t) <= Cardinality(S)} = SUBSET S
    BY <1>1
  <2>3. Sums(g, rows, S)
    BY <2>1, <2>2 DEF Sums, SumsUpTo
  <2> QED BY <2>3
<1>4. CASE Cardinality(S) \in Bad
  <2>1. PICK n \in Bad : \A m \in Bad : n <= m
    <3>1. Bad \subseteq Nat /\ Bad # {}
      BY <1>4
    <3> HIDE DEF Bad
    <3> QED BY <3>1, Least
  <2>2. n \in Nat /\ ~\E g : SumsUpTo(g, rows, S, n)
    OBVIOUS
  <2>3. CASE n = 0
    <3> DEFINE g == [s \in K(0) |-> 0]
    <3>1. \A s \in K(0) : s = {}
      <4> SUFFICES ASSUME NEW s \in K(0) PROVE s = {}
        OBVIOUS
      <4>1. IsFiniteSet(s) /\ Cardinality(s) = 0
        BY <1>1
      <4> QED BY <4>1, FS_EmptySet
    <3>2. \A s \in K(0) : 0 = SumStep(g, rows, s)
      BY <3>1 DEF SumStep
    <3> DEFINE f == g
    <3>3. f = [s \in K(0) |-> 0] /\ \A s \in K(0) : 0 = SumStep(f, rows, s)
      BY <3>2
    <3> HIDE DEF f, g, K
    <3>4. f = [s \in K(0) |-> SumStep(f, rows, s)]
      BY <3>3, Zenon
    <3>5. SumsUpTo(f, rows, S, 0)
      BY <3>4 DEF SumsUpTo, K
    <3> QED BY <2>2, <2>3, <3>5
  <2>4. CASE n # 0
    <3> DEFINE m == n - 1
    <3>1. m \in Nat /\ n = m + 1 /\ ~(n <= m)
      BY <2>2, <2>4
    <3>2. m \notin Bad
      BY <2>1, <3>1
    <3>3. PICK g : SumsUpTo(g, rows, S, m)
      BY <3>1, <3>2
    <3> HIDE DEF m, Bad
    <3> DEFINE f == [s \in K(n) |-> SumStep(g, rows, s)]
    <3>4. f = [s \in K(n) |-> SumStep(g, rows, s)]
      OBVIOUS
    <3>5. g = [s \in K(m) |-> SumStep(g, rows, s)]
      BY <3>3 DEF SumsUpTo
    <3> HIDE DEF f
    <3>6. \A s \in K(m) : s \in K(n)
      BY <1>1, <3>1, <2>2
    <3>7. \A s \in K(m) : f[s] = g[s]
      <4> HIDE DEF K
      <4> QED BY <3>4, <3>5, <3>6
    <3>8. \A s \in K(n) : SumStep(g, rows, s) = SumStep(f, rows, s)
      <4> SUFFICES ASSUME NEW s \in K(n) PROVE SumStep(g, rows, s) = SumStep(f, rows, s)
        OBVIOUS
      <4>1. CASE s = {}
        BY <4>1 DEF SumStep
      <4>2. CASE s # {}
        <5> DEFINE l == CHOOSE l \in s : TRUE
                   rest == s \ {l}
        <5>1. l \in s
          BY <4>2
        <5>2. s \in SUBSET S /\ Cardinality(s) <= n /\ IsFiniteSet(s) /\ Cardinality(s) \in Nat
          BY <1>1
        <5> HIDE DEF l
        <5>3. Cardinality(rest) = Cardinality(s) - 1
          BY <5>1, <5>2, Without
        <5>4. rest \in K(m)
          BY <2>2, <3>1, <5>2, <5>3
        <5>5. g[rest] = f[rest]
          BY <3>7, <5>4
        <5> QED BY <4>2, <5>5 DEF SumStep, l
      <4> QED BY <4>1, <4>2
    <3>9. f = [s \in K(n) |-> SumStep(f, rows, s)]
      <4> HIDE DEF K
      <4> QED BY <3>4, <3>8, Zenon
    <3>10. SumsUpTo(f, rows, S, n)
      BY <3>9 DEF SumsUpTo
    <3> QED BY <2>2, <3>10
  <2> QED BY <2>3, <2>4
<1> QED BY <1>3, <1>4

(* Rows with the same quantities have the same sum, whatever the set it is a part of. *)
LEMMA SumsAgree ==
  ASSUME NEW g, NEW h, NEW rows, NEW others, NEW S, NEW T, NEW U,
         IsFiniteSet(U), U \subseteq S, U \subseteq T, Sums(g, rows, S), Sums(h, others, T),
         \A l \in U : rows[l].quantity = others[l].quantity
  PROVE  g[U] = h[U]
<1> DEFINE Bad == {s \in SUBSET U : g[s] # h[s]}
<1>1. CASE Bad = {}
  BY <1>1
<1>2. CASE Bad # {}
  <2>1. \A s \in SUBSET U : IsFiniteSet(s)
    BY FS_Subset
  <2>2. PICK s \in Bad : \A t \in Bad : Cardinality(s) <= Cardinality(t)
    <3>1. \A s \in Bad : IsFiniteSet(s)
      BY <2>1
    <3> HIDE DEF Bad
    <3> QED BY <1>2, <3>1, Smallest
  <2>3. s \in SUBSET U /\ g[s] # h[s] /\ IsFiniteSet(s) /\ s \in SUBSET S /\ s \in SUBSET T
    BY <2>1
  <2>4. g[s] = SumStep(g, rows, s) /\ h[s] = SumStep(h, others, s)
    <3>1. g = [r \in SUBSET S |-> SumStep(g, rows, r)]
      BY Zenon DEF Sums
    <3>2. h = [r \in SUBSET T |-> SumStep(h, others, r)]
      BY Zenon DEF Sums
    <3> QED BY <2>3, <3>1, <3>2
  <2>5. CASE s = {}
    BY <2>3, <2>4, <2>5 DEF SumStep
  <2>6. CASE s # {}
    <3> DEFINE l == CHOOSE l \in s : TRUE
               rest == s \ {l}
    <3>1. l \in s
      BY <2>6
    <3>2. /\ g[s] = rows[l].quantity + g[rest]
          /\ h[s] = others[l].quantity + h[rest]
      BY <2>4, <2>6 DEF SumStep
    <3> HIDE DEF l
    <3>3. ~(Cardinality(s) <= Cardinality(rest))
      BY <2>3, <3>1, Without
    <3>4. rest \notin Bad /\ rest \in SUBSET U
      BY <2>2, <2>3, <3>3
    <3>5. g[rest] = h[rest]
      BY <3>4
    <3>6. rows[l].quantity = others[l].quantity
      BY <2>3, <3>1
    <3> QED BY <2>3, <3>2, <3>5, <3>6
  <2> QED BY <2>5, <2>6
<1> QED BY <1>1, <1>2

LEMMA TotalSums ==
  ASSUME NEW rows, NEW S, IsFiniteSet(S)
  PROVE  \E g : Sums(g, rows, S) /\ Total(rows, S) = g[S]
BY SumsExist, TotalIs, Zenon

(* The total depends on the quantities of the rows summed only. *)
LEMMA TotalOf ==
  ASSUME NEW rows, NEW others, NEW S, IsFiniteSet(S), \A l \in S : rows[l].quantity = others[l].quantity
  PROVE  Total(rows, S) = Total(others, S)
<1>1. PICK g : Sums(g, rows, S) /\ Total(rows, S) = g[S]
  BY TotalSums
<1>2. PICK h : Sums(h, others, S) /\ Total(others, S) = h[S]
  BY TotalSums
<1> QED BY <1>1, <1>2, SumsAgree

(* The total of no rows, and of some less the one taken first. *)
LEMMA TotalFirst ==
  ASSUME NEW rows, NEW S, IsFiniteSet(S)
  PROVE  /\ S = {} => Total(rows, S) = 0
         /\ S # {} => Total(rows, S) = rows[CHOOSE l \in S : TRUE].quantity
                                       + Total(rows, S \ {CHOOSE l \in S : TRUE})
<1>1. PICK g : Sums(g, rows, S) /\ Total(rows, S) = g[S]
  BY TotalSums
<1>2. g[S] = SumStep(g, rows, S)
  <2>1. g = [s \in SUBSET S |-> SumStep(g, rows, s)]
    BY <1>1, Zenon DEF Sums
  <2>2. S \in SUBSET S
    OBVIOUS
  <2> QED BY <2>1, <2>2
<1>3. CASE S = {}
  BY <1>1, <1>2, <1>3 DEF SumStep
<1>4. CASE S # {}
  <2> DEFINE l == CHOOSE l \in S : TRUE
             rest == S \ {l}
  <2>1. l \in S
    BY <1>4
  <2>2. g[S] = rows[l].quantity + g[rest]
    BY <1>2, <1>4 DEF SumStep
  <2> HIDE DEF l
  <2>3. IsFiniteSet(rest) /\ rest \subseteq S
    BY <2>1, Without
  <2>4. PICK h : Sums(h, rows, rest) /\ Total(rows, rest) = h[rest]
    BY <2>3, TotalSums
  <2>5. g[rest] = h[rest]
    BY <1>1, <2>3, <2>4, SumsAgree
  <2>6. Total(rows, S) = rows[l].quantity + Total(rows, S \ {l})
    BY <1>1, <2>2, <2>4, <2>5
  <2> QED BY <1>4, <2>6 DEF l
<1> QED BY <1>3, <1>4

(* The total is the quantity of any row and the total of the others. *)
LEMMA TotalWithout ==
  ASSUME NEW rows, NEW U, IsFiniteSet(U), \A l \in U : rows[l].quantity \in Int
  PROVE  /\ Total(rows, U) \in Int
         /\ \A l \in U : Total(rows, U) = rows[l].quantity + Total(rows, U \ {l})
<1> DEFINE Ok(s) == /\ Total(rows, s) \in Int
                    /\ \A l \in s : /\ Total(rows, s \ {l}) \in Int
                                    /\ Total(rows, s) = rows[l].quantity + Total(rows, s \ {l})
           Bad == {s \in SUBSET U : ~Ok(s)}
<1>1. CASE Bad = {}
  <2>1. U \in SUBSET U
    OBVIOUS
  <2>2. Ok(U)
    BY <1>1, <2>1
  <2> QED BY <2>2
<1>2. CASE Bad # {}
  <2>1. \A s \in SUBSET U : IsFiniteSet(s)
    BY FS_Subset
  <2>2. PICK s \in Bad : \A t \in Bad : Cardinality(s) <= Cardinality(t)
    <3>1. \A s \in Bad : IsFiniteSet(s)
      BY <2>1
    <3> HIDE DEF Bad
    <3> QED BY <1>2, <3>1, Smallest
  <2>3. s \in SUBSET U /\ ~Ok(s) /\ IsFiniteSet(s)
    BY <2>1
  <2>4. \A l \in s : Ok(s \ {l}) /\ IsFiniteSet(s \ {l})
    <3> SUFFICES ASSUME NEW l \in s PROVE Ok(s \ {l}) /\ IsFiniteSet(s \ {l})
      OBVIOUS
    <3>1. ~(Cardinality(s) <= Cardinality(s \ {l})) /\ IsFiniteSet(s \ {l})
      BY <2>3, Without
    <3>2. s \ {l} \in SUBSET U
      BY <2>3
    <3> HIDE DEF Ok
    <3> QED BY <2>2, <3>1, <3>2
  <2>5. CASE s = {}
    <3>1. Total(rows, s) = 0
      BY <2>3, <2>5, TotalFirst
    <3> QED BY <2>3, <2>5, <3>1
  <2>6. CASE s # {}
    <3> DEFINE first == CHOOSE l \in s : TRUE
    <3>1. first \in s
      BY <2>6
    <3>2. Total(rows, s) = rows[first].quantity + Total(rows, s \ {first})
      BY <2>3, <2>6, TotalFirst
    <3> HIDE DEF first
    <3>3. \A l \in s : rows[l].quantity \in Int
      BY <2>3
    <3>4. \A l \in s : Total(rows, s \ {l}) \in Int
      BY <2>4
    <3>5. Total(rows, s) \in Int
      BY <3>1, <3>2, <3>3, <3>4
    <3>6. ASSUME NEW l \in s PROVE Total(rows, s) = rows[l].quantity + Total(rows, s \ {l})
      <4>1. CASE l = first
        BY <3>2, <4>1
      <4>2. CASE l # first
        <5> DEFINE both == (s \ {first}) \ {l}
        <5>1. l \in s \ {first} /\ first \in s \ {l} /\ both = (s \ {l}) \ {first}
          BY <3>1, <4>2
        <5>2. Total(rows, s \ {first}) = rows[l].quantity + Total(rows, both)
          BY <2>4, <3>1, <5>1
        <5> HIDE DEF both
        <5>3. Total(rows, s \ {l}) = rows[first].quantity + Total(rows, both)
          BY <2>4, <5>1
        <5>4. Total(rows, both) \in Int
          BY <2>4, <3>1, <5>1
        <5> QED BY <3>1, <3>2, <3>3, <5>2, <5>3, <5>4
      <4> QED BY <4>1, <4>2
    <3> QED BY <2>3, <3>4, <3>5, <3>6
  <2> QED BY <2>5, <2>6
<1> QED BY <1>1, <1>2

-----------------------------------------------------------------------------
(* The parts used on work orders *)

UsedFrom(p) == {l \in Line : line[l] # None /\ line[l].source = p}

(* The row a transaction adds is nobody else's and not there yet; the one it removes is given
   back where it came from, as long as it is there. *)
Refers(a, x) ==
  /\ x.adds # None =>
       line[x.adds] = None /\ \A b \in Actor \ {a} : Running(b) => x.adds \notin {tx[b].adds, tx[b].removes}
  /\ x.removes # None /\ line[x.removes] # None =>
       /\ Len(x.moves) = 1 /\ x.moves[1].place = line[x.removes].source
       /\ x.moves[1].delta = line[x.removes].quantity

UsageInv ==
  /\ used \in [Place -> Int]
  /\ IsFiniteSet({l \in Line : line[l] # None})
  /\ \A a \in Actor : Running(a) => Refers(a, tx[a])
  /\ \A p \in Place : used[p] = Total(line, UsedFrom(p))

LEMMA InitUsage == Init => UsageInv
<1> SUFFICES ASSUME Init PROVE UsageInv
  OBVIOUS
<1>1. /\ used \in [Place -> Int] /\ \A p \in Place : used[p] = 0
      /\ {l \in Line : line[l] # None} = {} /\ \A p : UsedFrom(p) = {}
      /\ \A a \in Actor : ~Running(a)
  BY DEF Init, UsedFrom, Running
<1>2. IsFiniteSet({}) /\ Total(line, {}) = 0
  BY FS_EmptySet, TotalFirst
<1>3. \A p \in Place : used[p] = Total(line, UsedFrom(p))
  <2> SUFFICES ASSUME NEW p \in Place PROVE used[p] = Total(line, UsedFrom(p))
    OBVIOUS
  <2>1. UsedFrom(p) = {}
    BY <1>1
  <2> QED BY <1>1, <1>2, <2>1
<1> QED BY <1>1, <1>2, <1>3 DEF UsageInv

(* A step that leaves the rows alone, and the transaction of a, if it goes on, at its business. *)
LEMMA RowsStay ==
  ASSUME Types, UsageInv, NEW a \in Actor, NEW y, tx' = [tx EXCEPT ![a] = y], UNCHANGED <<line, used>>,
         y # Idle => /\ Refers(a, y)
                     /\ \A b \in Actor \ {a} : Running(b) /\ tx[b].adds # None =>
                          tx[b].adds \notin {y.adds, y.removes}
  PROVE  UsageInv'
<1>1. tx'[a] = y /\ \A b \in Actor \ {a} : tx'[b] = tx[b]
  BY DEF Types
<1>2. \A b \in Actor : Running(b)' => Refers(b, tx[b])'
  <2> SUFFICES ASSUME NEW b \in Actor, tx'[b] # Idle PROVE Refers(b, tx[b])'
    BY DEF Running
  <2>1. CASE b = a
    <3>1. Refers(a, y) /\ \A c \in Actor \ {a} : tx'[c] = tx[c]
      BY <1>1, <2>1
    <3> QED BY <1>1, <2>1, <3>1 DEF Refers, Running
  <2>2. CASE b # a
    <3>1. tx'[b] = tx[b] /\ Running(b) /\ Refers(b, tx[b])
      BY <1>1, <2>2 DEF UsageInv, Running
    <3>2. tx[b].adds # None =>
            \A c \in Actor \ {b} : tx'[c] # Idle => tx[b].adds \notin {tx'[c].adds, tx'[c].removes}
      <4> SUFFICES ASSUME tx[b].adds # None, NEW c \in Actor \ {b}, tx'[c] # Idle
                   PROVE  tx[b].adds \notin {tx'[c].adds, tx'[c].removes}
        OBVIOUS
      <4>1. CASE c = a
        BY <1>1, <2>2, <3>1, <4>1
      <4>2. CASE c # a
        <5>1. tx'[c] = tx[c] /\ Running(c)
          BY <1>1, <4>2 DEF Running
        <5> QED BY <3>1, <5>1 DEF Refers
      <4> QED BY <4>1, <4>2
    <3>3. /\ tx[b].adds # None => line'[tx[b].adds] = None
          /\ tx[b].removes # None /\ line'[tx[b].removes] # None =>
               /\ Len(tx[b].moves) = 1 /\ tx[b].moves[1].place = line'[tx[b].removes].source
               /\ tx[b].moves[1].delta = line'[tx[b].removes].quantity
      BY <3>1 DEF Refers
    <3> QED BY <3>1, <3>2, <3>3 DEF Refers, Running
  <2> QED BY <2>1, <2>2
<1>3. \A p \in Place : UsedFrom(p)' = UsedFrom(p)
  BY DEF UsedFrom
<1>4. \A p \in Place : (used[p] = Total(line, UsedFrom(p)))'
  BY <1>3 DEF UsageInv
<1> QED BY <1>2, <1>4 DEF UsageInv

(* An operation begins. *)
LEMMA UsageBegins ==
  ASSUME Types, UsageInv, NEW a \in Actor, NEW moves, NEW adds, NEW removes, Begin(a, moves, adds, removes),
         adds # None => line[adds] = None /\ removes = None
                        /\ \A b \in Actor : Running(b) => adds \notin {tx[b].adds, tx[b].removes},
         removes # None => /\ line[removes] # None
                           /\ Len(moves) = 1 /\ moves[1].place = line[removes].source
                           /\ moves[1].delta = line[removes].quantity
  PROVE  UsageInv'
<1> DEFINE y == [at |-> "reading", moves |-> moves, read |-> None, written |-> <<>>,
                 adds |-> adds, removes |-> removes]
<1>1. tx' = [tx EXCEPT ![a] = y] /\ UNCHANGED <<line, used>>
  BY DEF Begin
<1>2. y.moves = moves /\ y.adds = adds /\ y.removes = removes
  OBVIOUS
<1> HIDE DEF y
<1>3. Refers(a, y)
  BY <1>2 DEF Refers
<1>4. ASSUME NEW b \in Actor \ {a}, Running(b), tx[b].adds # None PROVE tx[b].adds \notin {adds, removes}
  <2>1. line[tx[b].adds] = None
    BY <1>4 DEF UsageInv, Refers
  <2>2. tx[b].adds # adds
    BY <1>4
  <2>3. tx[b].adds # removes
    BY <1>4, <2>1
  <2> QED BY <2>2, <2>3
<1> QED BY <1>1, <1>2, <1>3, <1>4, RowsStay

(* The movements and the rows come together. *)
LEMMA UsageCommits ==
  ASSUME Types, UsageInv, NEW a \in Actor, Commit(a)
  PROVE  UsageInv'
<1> DEFINE x == tx[a]
<1>0. /\ Running(a) /\ ~Moving(a) /\ tx' = [tx EXCEPT ![a] = Idle]
      /\ x.removes # None => line[x.removes] # None
      /\ used' = IF x.adds = None /\ x.removes = None THEN used ELSE [p \in Place |-> used[p] - Booked(a, p)]
      /\ line' = [l \in Line |->
           CASE l = x.adds -> [source |-> x.moves[1].place, quantity |-> 0 - x.moves[1].delta, addedBy |-> a]
             [] l = x.removes -> None
             [] OTHER -> line[l]]
  BY DEF Commit
<1>1. /\ x \in OpenTx /\ Progress(x) /\ Fits(x) /\ Refers(a, x)
      /\ \A p : Booked(a, p) = Effect(x, p) /\ Effect(x, p) \in Int
  BY <1>0, RunningIs, EffectIs DEF Types, UsageInv
<1>2. /\ x.adds \in Line \cup {None} /\ x.removes \in Line \cup {None} /\ None \notin Line
      /\ Len(x.moves) \in {1, 2} /\ x.moves[1] \in Change
  BY <1>1, OpenTxIs, ActorAssumption DEF Progress
<1>3. /\ \A l \in Line : line[l] \in Row \cup {None}
      /\ \A p \in Place : IsFiniteSet(UsedFrom(p)) /\ used[p] \in Int /\ used[p] = Total(line, UsedFrom(p))
      /\ \A p \in Place : \A l \in UsedFrom(p) : line[l].quantity \in Int
  <2>1. \A l \in Line : line[l] \in Row \cup {None}
    BY DEF Types
  <2>2. \A p \in Place : IsFiniteSet(UsedFrom(p))
    <3> SUFFICES ASSUME NEW p \in Place PROVE IsFiniteSet(UsedFrom(p))
      OBVIOUS
    <3>1. UsedFrom(p) \subseteq {l \in Line : line[l] # None}
      BY DEF UsedFrom
    <3>2. IsFiniteSet({l \in Line : line[l] # None})
      BY DEF UsageInv
    <3> QED BY <3>1, <3>2, FS_Subset
  <2>3. \A p \in Place : \A l \in UsedFrom(p) : line[l] \in Row
    BY <2>1 DEF UsedFrom
  <2>4. \A r \in Row : r.quantity \in Int
    BY BoundAssumption DEF Row
  <2> QED BY <2>1, <2>2, <2>3, <2>4 DEF UsageInv
(* The rows of others stay what their transactions take them for. *)
<1>4. ASSUME NEW b \in Actor, Running(b)' PROVE Refers(b, tx[b])'
  <2>1. b # a /\ tx'[b] = tx[b] /\ Running(b) /\ Refers(b, tx[b]) /\ tx[b] \in OpenTx
    BY <1>0, <1>4, RunningIs DEF Types, Running, UsageInv
  <2>2. tx[b].adds \in Line \cup {None} /\ tx[b].removes \in Line \cup {None}
    BY <2>1, OpenTxIs
  <2>3. x.adds # None => tx[b].adds # x.adds /\ tx[b].removes # x.adds
    BY <1>1, <2>1 DEF Refers
  <2>4. \A l \in Line : l # x.adds => line'[l] = None \/ line'[l] = line[l]
    BY <1>0
  <2>5. tx[b].adds # None => line'[tx[b].adds] = None
    BY <1>2, <2>1, <2>2, <2>3, <2>4 DEF Refers
  <2>6. tx[b].removes # None /\ line'[tx[b].removes] # None => line'[tx[b].removes] = line[tx[b].removes]
    BY <1>2, <2>2, <2>3, <2>4
  <2>7. \A c \in Actor : Running(c)' => Running(c) /\ tx'[c] = tx[c]
    BY <1>0 DEF Types, Running
  <2> QED BY <2>1, <2>5, <2>6, <2>7 DEF Refers
<1>5. CASE x.adds = None /\ x.removes = None
  <2>1. used' = used /\ line' = line
    <3>1. \A l \in Line : line'[l] = line[l]
      BY <1>0, <1>2, <1>5
    <3>2. line' = [l \in Line |-> line'[l]] /\ line = [l \in Line |-> line[l]]
      BY <1>0 DEF Types
    <3> QED BY <1>0, <1>5, <3>1, <3>2
  <2>2. \A p \in Place : UsedFrom(p)' = UsedFrom(p)
    BY <2>1 DEF UsedFrom
  <2>3. \A p \in Place : (used[p] = Total(line, UsedFrom(p)))'
    BY <1>3, <2>1, <2>2
  <2> QED BY <1>4, <2>1, <2>3 DEF UsageInv
<1>6. CASE x.adds # None
  <2> DEFINE k == x.adds
             source == x.moves[1].place
             taken == 0 - x.moves[1].delta
             row == [source |-> source, quantity |-> taken, addedBy |-> a]
  <2>1. k \in Line /\ x.removes = None /\ line[k] = None /\ Len(x.moves) = 1 /\ x.moves[1].delta < 0
    BY <1>1, <1>2, <1>6 DEF Fits, Refers
  <2>2. source \in Place /\ taken \in Nat /\ x.moves[1].delta \in Int
    BY <1>2, <2>1 DEF Change
  <2>3. row # None
    BY <2>2, RowAssumption
  <2>4. line'[k] = row /\ \A l \in Line \ {k} : line'[l] = line[l]
    BY <1>0, <1>2, <2>1
  <2>5. \A p \in Place : Effect(x, p) = IF p = source THEN x.moves[1].delta ELSE 0
    BY <1>1, <1>2, <2>1, EffectIs
  <2>6. used' \in [Place -> Int] /\ \A p \in Place : used'[p] = used[p] - Effect(x, p)
    <3>1. used' = [p \in Place |-> used[p] - Booked(a, p)]
      BY <1>0, <1>6
    <3>2. \A p \in Place : used[p] - Booked(a, p) = used[p] - Effect(x, p) /\ used[p] - Effect(x, p) \in Int
      BY <1>1, <1>3
    <3> QED BY <3>1, <3>2
  <2>7. row.source = source /\ row.quantity = taken
    OBVIOUS
  <2> HIDE DEF k, row
  <2>8. {l \in Line : line'[l] # None} = {l \in Line : line[l] # None} \cup {k}
    BY <2>1, <2>3, <2>4
  <2>9. IsFiniteSet({l \in Line : line'[l] # None})
    BY <2>8, FS_AddElement DEF UsageInv
  <2>10. ASSUME NEW p \in Place PROVE used'[p] = Total(line', UsedFrom(p)')
    <3>1. k \notin UsedFrom(p) /\ UsedFrom(p) \subseteq Line \ {k} /\ IsFiniteSet(UsedFrom(p))
      BY <1>3, <2>1 DEF UsedFrom
    <3>2. Total(line', UsedFrom(p)) = Total(line, UsedFrom(p))
      <4>1. \A l \in UsedFrom(p) : line'[l].quantity = line[l].quantity
        BY <2>4, <3>1
      <4> QED BY <3>1, <4>1, TotalOf
    <3>3. CASE p # source
      <4>1. UsedFrom(p)' = UsedFrom(p)
        BY <2>1, <2>4, <2>7, <3>3 DEF UsedFrom
      <4>2. used'[p] = used[p]
        BY <1>3, <2>5, <2>6, <3>3
      <4> QED BY <1>3, <3>2, <4>1, <4>2
    <3>4. CASE p = source
      <4> DEFINE T == UsedFrom(p) \cup {k}
      <4>1. UsedFrom(p)' = T
        BY <2>1, <2>3, <2>4, <2>7, <3>4 DEF UsedFrom
      <4>2. IsFiniteSet(T) /\ k \in T /\ T \ {k} = UsedFrom(p)
        BY <3>1, FS_AddElement
      <4>3. \A l \in T : line'[l].quantity \in Int
        BY <1>3, <2>2, <2>4, <2>7, <3>1
      <4> HIDE DEF T
      <4>4. Total(line', T) = line'[k].quantity + Total(line', T \ {k})
        BY <4>2, <4>3, TotalWithout
      <4>5. Total(line', T) = taken + used[p]
        BY <1>3, <2>4, <2>7, <3>2, <4>2, <4>4
      <4>6. used'[p] = taken + used[p]
        BY <1>3, <2>2, <2>5, <2>6, <3>4
      <4> QED BY <4>1, <4>5, <4>6
    <3> QED BY <3>3, <3>4
  <2> QED BY <1>4, <2>6, <2>9, <2>10 DEF UsageInv
<1>7. CASE x.adds = None /\ x.removes # None
  <2> DEFINE k == x.removes
             source == line[k].source
             taken == line[k].quantity
  <2>1. k \in Line /\ line[k] # None /\ line[k] \in Row /\ Len(x.moves) = 1
        /\ x.moves[1].place = source /\ x.moves[1].delta = taken
    BY <1>0, <1>1, <1>2, <1>3, <1>7 DEF Refers
  <2>2. source \in Place /\ taken \in Int
    BY <2>1, BoundAssumption DEF Row
  <2>3. line'[k] = None /\ \A l \in Line \ {k} : line'[l] = line[l]
    BY <1>0, <1>2, <1>7, <2>1
  <2>4. \A p \in Place : Effect(x, p) = IF p = source THEN taken ELSE 0
    BY <1>1, <1>2, <2>1, EffectIs
  <2>5. used' \in [Place -> Int] /\ \A p \in Place : used'[p] = used[p] - Effect(x, p)
    <3>1. used' = [p \in Place |-> used[p] - Booked(a, p)]
      BY <1>0, <1>7
    <3>2. \A p \in Place : used[p] - Booked(a, p) = used[p] - Effect(x, p) /\ used[p] - Effect(x, p) \in Int
      BY <1>1, <1>3
    <3> QED BY <3>1, <3>2
  <2> HIDE DEF k
  <2>6. {l \in Line : line'[l] # None} \subseteq {l \in Line : line[l] # None}
    BY <2>3
  <2>7. IsFiniteSet({l \in Line : line'[l] # None})
    BY <2>6, FS_Subset DEF UsageInv
  <2>8. ASSUME NEW p \in Place PROVE used'[p] = Total(line', UsedFrom(p)')
    <3> DEFINE T == UsedFrom(p) \ {k}
    <3>1. UsedFrom(p)' = T /\ T \subseteq Line \ {k}
      BY <2>3 DEF UsedFrom
    <3>2. IsFiniteSet(T) /\ IsFiniteSet(UsedFrom(p))
      BY <1>3, FS_Subset
    <3>3. Total(line', T) = Total(line, T)
      <4>1. \A l \in T : line'[l].quantity = line[l].quantity
        BY <2>3, <3>1
      <4> HIDE DEF T
      <4> QED BY <3>2, <4>1, TotalOf
    <3>4. CASE p # source
      <4>1. k \notin UsedFrom(p)
        BY <3>4 DEF UsedFrom
      <4>2. T = UsedFrom(p)
        BY <4>1
      <4>3. used'[p] = used[p]
        BY <1>3, <2>4, <2>5, <3>4
      <4> QED BY <1>3, <3>1, <3>3, <4>2, <4>3
    <3>5. CASE p = source
      <4>1. k \in UsedFrom(p)
        BY <2>1, <3>5 DEF UsedFrom
      <4>2. Total(line, UsedFrom(p)) = taken + Total(line, T)
        BY <1>3, <3>2, <4>1, TotalWithout
      <4>3. Total(line, T) \in Int
        <5>1. \A l \in T : line[l].quantity \in Int
          BY <1>3
        <5> HIDE DEF T
        <5> QED BY <3>2, <5>1, TotalWithout
      <4>4. used'[p] = used[p] - taken
        BY <2>4, <2>5, <3>5
      <4> HIDE DEF T
      <4>5. used[p] = taken + Total(line, T)
        BY <1>3, <4>2
      <4> QED BY <2>2, <3>1, <3>3, <4>3, <4>4, <4>5
    <3> QED BY <3>4, <3>5
  <2> QED BY <1>4, <2>5, <2>7, <2>8 DEF UsageInv
<1> QED BY <1>5, <1>6, <1>7

LEMMA StepUsage == Types /\ Exclusive /\ UsageInv /\ [Next]_vars => UsageInv'
<1> SUFFICES ASSUME Types, Exclusive, UsageInv, [Next]_vars PROVE UsageInv'
  OBVIOUS
<1>1. CASE UNCHANGED <<tx, line, used>>
  <2>1. \A p \in Place : UsedFrom(p)' = UsedFrom(p)
    BY <1>1 DEF UsedFrom
  <2>2. \A p \in Place : (used[p] = Total(line, UsedFrom(p)))'
    BY <1>1, <2>1 DEF UsageInv
  <2>3. \A a \in Actor : Running(a)' => Refers(a, tx[a])'
    BY <1>1 DEF UsageInv, Refers, Running
  <2> QED BY <1>1, <2>2, <2>3 DEF UsageInv
<1>2. ASSUME NEW a \in Actor, NEW q \in Amount, receive(a, q) PROVE UsageInv'
  BY <1>1, <1>2 DEF receive
<1>3. ASSUME NEW a \in Actor, NEW moves, Begin(a, moves, None, None) PROVE UsageInv'
  BY <1>3, UsageBegins
<1>4. ASSUME NEW a \in Actor, NEW p \in Place, NEW d, adjust(a, p, d) PROVE UsageInv'
  BY <1>3, <1>4 DEF adjust
<1>5. ASSUME NEW a \in Actor, NEW t \in Technician, NEW q, NEW direction, transfer(a, t, q, direction)
      PROVE  UsageInv'
  BY <1>3, <1>5 DEF transfer
<1>6. ASSUME NEW a \in Actor, NEW l \in Line, NEW p \in Place, NEW q, addWorkOrderPart(a, l, p, q) PROVE UsageInv'
  <2> DEFINE moves == <<Move(p, 0 - q)>>
  <2>1. Begin(a, moves, l, None) /\ line[l] = None
        /\ \A b \in Actor : Running(b) => l \notin {tx[b].adds, tx[b].removes}
    BY <1>6 DEF addWorkOrderPart
  <2> HIDE DEF moves
  <2> QED BY <2>1, UsageBegins
<1>7. ASSUME NEW a \in Actor, NEW l \in Line, removeWorkOrderPart(a, l) PROVE UsageInv'
  <2> DEFINE source == line[l].source
             taken == line[l].quantity
             moves == <<Move(source, taken)>>
  <2>1. Begin(a, moves, None, l) /\ line[l] # None
    BY <1>7 DEF removeWorkOrderPart
  <2>2. Len(moves) = 1 /\ moves[1].place = source /\ moves[1].delta = taken
    BY DEF Move
  <2> HIDE DEF moves
  <2> QED BY <2>1, <2>2, UsageBegins
(* A transaction goes on with what it was begun for, or ends. *)
<1>8. ASSUME NEW a \in Actor, Running(a), NEW y, tx' = [tx EXCEPT ![a] = y], UNCHANGED <<line, used>>,
             y # Idle => y.moves = tx[a].moves /\ y.adds = tx[a].adds /\ y.removes = tx[a].removes
      PROVE  UsageInv'
  <2>1. Refers(a, tx[a])
    BY <1>8 DEF UsageInv
  <2>2. y # Idle => Refers(a, y)
    BY <1>8, <2>1 DEF Refers
  <2>3. \A b \in Actor \ {a} : Running(b) /\ tx[b].adds # None => tx[b].adds \notin {tx[a].adds, tx[a].removes}
    BY <1>8 DEF UsageInv, Refers
  <2> QED BY <1>8, <2>2, <2>3, RowsStay
<1>9. ASSUME NEW a \in Actor, ReadQuantity(a) PROVE UsageInv'
  <2> DEFINE x == tx[a]
             y == [x EXCEPT !.at = "writing", !.read = quantity[Current(a).place]]
  <2>1. Running(a) /\ x \in OpenTx /\ UNCHANGED <<line, used>>
    BY <1>9, RunningIs DEF ReadQuantity, Moving, Types
  <2>2. tx' = [tx EXCEPT ![a] = Idle] \/ tx' = [tx EXCEPT ![a] = y]
    BY <1>9 DEF ReadQuantity
  <2>3. y.moves = x.moves /\ y.adds = x.adds /\ y.removes = x.removes
    BY <2>1 DEF OpenTx
  <2> HIDE DEF y
  <2> QED BY <1>8, <2>1, <2>2, <2>3
<1>10. ASSUME NEW a \in Actor, WriteQuantity(a) PROVE UsageInv'
  <2> DEFINE x == tx[a]
             y == [x EXCEPT !.at = "reading", !.written = Over([q \in {Current(a).place} |-> After(a)], x.written)]
  <2>1. Running(a) /\ x \in OpenTx /\ UNCHANGED <<line, used>> /\ a \in DOMAIN tx
    BY <1>10, RunningIs DEF WriteQuantity, Moving, Types
  <2>2. tx' = [tx EXCEPT ![a] = y]
    BY <1>10, <2>1 DEF WriteQuantity
  <2>3. y.moves = x.moves /\ y.adds = x.adds /\ y.removes = x.removes
    BY <2>1 DEF OpenTx
  <2> HIDE DEF y
  <2> QED BY <1>8, <2>1, <2>2, <2>3
<1>11. ASSUME NEW a \in Actor, Refused(a) \/ Fail(a) PROVE UsageInv'
  BY <1>8, <1>11 DEF Refused, Fail, Rollback
<1>12. CASE UNCHANGED vars
  BY <1>1, <1>12 DEF vars
<1> QED BY <1>2, <1>4, <1>5, <1>6, <1>7, <1>9, <1>10, <1>11, <1>12, UsageCommits DEF Next

(* What the journal books as used at a place is what the rows of work orders took from there,
   however additions and removals interleave: a row that two transactions remove is given back
   by the one that deletes it, and the other is rolled back. *)
THEOREM UsageIsKept == Spec => []UsageIsOnWorkOrders
<1>1. UsageInv => UsageIsOnWorkOrders
  BY Zenon DEF UsageInv, UsageIsOnWorkOrders, Total, UsedFrom
<1> QED BY <1>1, InitTypes, StepTypes, InitUsage, StepUsage, PTL DEF Spec
=============================================================================
