-------------------------------- MODULE Stock --------------------------------
(***************************************************************************)
(* StockService: one part, its warehouse quantity, its quantity in each    *)
(* truck, the journal of movements and the parts used on work orders.      *)
(*                                                                         *)
(* Each operation is one database transaction at READ COMMITTED: it reads  *)
(* a committed quantity, computes the new one, writes it as an absolute    *)
(* value under a row lock kept until commit, and books a movement.         *)
(* Between two of its statements other transactions run.                   *)
(***************************************************************************)
EXTENDS Integers, FiniteSets, FiniteSetsExt, Sequences

CONSTANTS
  Technician,
  Staff,        \* administrators and dispatchers
  Line,         \* ids of work order part rows
  None,         \* no row
  minStock,
  Amount,       \* bound: the quantities moved at once
  MaxQuantity,  \* bound: the quantity at one place
  MaxOpen       \* bound: transactions open at a time, one after a lost update

ASSUME ActorAssumption == None \notin Technician \cup Staff \cup Line \cup Nat /\ "warehouse" \notin Technician
ASSUME MinStockAssumption == minStock \in Nat
ASSUME BoundAssumption == Amount \subseteq Nat \ {0} /\ MaxQuantity \in Nat /\ MaxOpen \in Nat

Place == {"warehouse"} \cup Technician
Actor == Staff \cup Technician

ASSUME RowAssumption == None \notin [source : Place, quantity : Nat, addedBy : Actor]
VARIABLES
  quantity,  \* committed quantity at each place; None for a truck without a row
  line,      \* line[l]: the part used on a work order, or None
  journal,   \* sum of the committed movements of each place
  used,      \* the part of it booked as usage on work orders, less the reverts
  tx,        \* tx[a]: the transaction of actor a
  alerted,   \* history: stock.low was emitted since the warehouse fell below its minimum, or
             \* the warehouse was never at its minimum yet
  lost       \* history: places where a write fell on a quantity it had not read

vars == <<quantity, line, journal, used, tx, alerted, lost>>

-----------------------------------------------------------------------------
Idle == [at |-> "idle"]

Init ==
  /\ quantity = [p \in Place |-> IF p = "warehouse" THEN 0 ELSE None]
  /\ line = [l \in Line |-> None]
  /\ journal = [p \in Place |-> 0]
  /\ used = [p \in Place |-> 0]
  /\ tx = [a \in Actor |-> Idle]
  /\ alerted = TRUE
  /\ lost = {}

OrZero(q) == IF q = None THEN 0 ELSE q

(* The quantities written, and for the other places those of before. *)
Over(f, g) == [p \in DOMAIN f \cup DOMAIN g |-> IF p \in DOMAIN f THEN f[p] ELSE g[p]]

(* The change of one place, and of two for a transfer: the place given up comes first. *)
Move(place, delta) == [place |-> place, delta |-> delta]

(* A transaction: changes to make, the places it has written and locked, and the row of
   work order parts it creates or deletes at the end. *)
Begin(a, moves, adds, removes) ==
  /\ tx[a] = Idle
  /\ Cardinality({b \in Actor : tx[b] # Idle}) < IF lost = {} THEN MaxOpen ELSE 1
  /\ tx' = [tx EXCEPT ![a] = [at |-> "reading", moves |-> moves, read |-> None, written |-> <<>>,
                              adds |-> adds, removes |-> removes]]
  /\ UNCHANGED <<quantity, line, journal, used, alerted, lost>>

Running(a) == tx[a] # Idle
Locked(a) == IF Running(a) THEN DOMAIN tx[a].written ELSE {}
LockedByOther(a, p) == \E b \in Actor \ {a} : p \in Locked(b)

Current(a) == tx[a].moves[Cardinality(Locked(a)) + 1]
Moving(a) == Running(a) /\ Cardinality(Locked(a)) < Len(tx[a].moves)

-----------------------------------------------------------------------------
Replenished == quantity["warehouse"] < minStock /\ quantity'["warehouse"] >= minStock

(* receive: one atomic increment, which waits for the lock. *)
receive(a, q) ==
  /\ a \in Staff /\ tx[a] = Idle
  /\ ~LockedByOther(a, "warehouse")
  /\ quantity["warehouse"] + q <= MaxQuantity
  /\ quantity' = [quantity EXCEPT !["warehouse"] = @ + q]
  /\ journal' = [journal EXCEPT !["warehouse"] = @ + q]
  /\ alerted' = (alerted /\ ~Replenished)
  /\ UNCHANGED <<line, used, tx, lost>>

adjust(a, p, delta) ==
  /\ a \in Staff /\ delta # 0
  /\ Begin(a, <<Move(p, delta)>>, None, None)

transfer(a, technician, q, direction) ==
  /\ a \in Staff
  /\ Begin(a, IF direction = "TO_TECH"
              THEN <<Move("warehouse", 0 - q), Move(technician, q)>>
              ELSE <<Move(technician, 0 - q), Move("warehouse", q)>>, None, None)

(* A technician takes from his truck unless he says otherwise, staff from either. *)
addWorkOrderPart(a, l, source, q) ==
  /\ line[l] = None  \* a fresh id: none that a transaction under way refers to
  /\ \A b \in Actor : Running(b) => l \notin {tx[b].adds, tx[b].removes}
  /\ a \in Technician => source \in {"warehouse", a}
  /\ Begin(a, <<Move(source, 0 - q)>>, l, None)

(* Mutant of removeWorkOrderPart: the part goes back to the warehouse. *)
removeToWarehouse(a, l) ==
  /\ line[l] # None
  /\ a \in Technician => line[l].addedBy = a
  /\ Begin(a, <<Move("warehouse", line[l].quantity)>>, None, l)

(* The row is read before the transaction; its source is credited. *)
removeWorkOrderPart(a, l) ==
  /\ line[l] # None
  /\ a \in Technician => line[l].addedBy = a
  /\ Begin(a, <<Move(line[l].source, line[l].quantity)>>, None, l)

-----------------------------------------------------------------------------
(* Mutant of ReadQuantity: too small a quantity is read again until there is enough. *)
ReadQuantityPatient(a) ==
  /\ Moving(a) /\ tx[a].at = "reading"
  /\ OrZero(quantity[Current(a).place]) + Current(a).delta >= 0
  /\ tx' = [tx EXCEPT ![a].at = "writing", ![a].read = quantity[Current(a).place]]
  /\ UNCHANGED <<quantity, line, journal, used, alerted, lost>>

(* Mutant of ReadQuantity: the result is not compared with zero. *)
ReadQuantityUnchecked(a) ==
  /\ Moving(a) /\ tx[a].at = "reading"
  /\ tx' = [tx EXCEPT ![a].at = "writing", ![a].read = quantity[Current(a).place]]
  /\ UNCHANGED <<quantity, line, journal, used, alerted, lost>>

(* changeWarehouseQuantity, changeTruckQuantity: read, refuse a negative result, *)
ReadQuantity(a) ==
  /\ Moving(a) /\ tx[a].at = "reading"
  /\ tx' = [tx EXCEPT ![a] =
       IF OrZero(quantity[Current(a).place]) + Current(a).delta < 0 THEN Idle
       ELSE [@ EXCEPT !.at = "writing", !.read = quantity[Current(a).place]]]
  /\ UNCHANGED <<quantity, line, journal, used, alerted, lost>>

After(a) == OrZero(tx[a].read) + Current(a).delta

LostUpdate(a) == quantity[Current(a).place] # tx[a].read

(* Mutant of Crosses: the quantity is compared after the write only. *)
CrossesWhenLow(a) ==
  /\ Current(a).place = "warehouse" /\ Current(a).delta < 0
  /\ After(a) < minStock

(* The alert of a crossing is emitted before the transaction commits. *)
Crosses(a) ==
  /\ Current(a).place = "warehouse" /\ Current(a).delta < 0
  /\ tx[a].read >= minStock /\ After(a) < minStock

(* Mutant of WriteQuantity: no row lock is held up to the end of the operation. *)
WriteQuantityUnlocked(a) ==
  /\ Moving(a) /\ tx[a].at = "writing"
  /\ LET p == Current(a).place IN
     /\ LostUpdate(a) => p \notin lost
     /\ alerted' = (alerted \/ Crosses(a))
     /\ lost' = IF LostUpdate(a) THEN lost \cup {p} ELSE lost
     /\ tx' = [tx EXCEPT ![a].at = "reading", ![a].written = Over([q \in {p} |-> After(a)], @)]
  /\ UNCHANGED <<quantity, line, journal, used>>

(* then write: another writer's lock is waited for. A truck row created meanwhile breaks the
   unique constraint, and the transaction is rolled back (Refused). *)
WriteQuantity(a) ==
  /\ Moving(a) /\ tx[a].at = "writing"
  /\ LET p == Current(a).place IN
     /\ ~LockedByOther(a, p)
     /\ tx[a].read # None \/ quantity[p] = None
     /\ LostUpdate(a) => p \notin lost  \* bound: one lost update for each place
     /\ alerted' = (alerted \/ Crosses(a))
     /\ lost' = IF LostUpdate(a) THEN lost \cup {p} ELSE lost
     /\ tx' = [tx EXCEPT ![a].at = "reading", ![a].written = Over([q \in {p} |-> After(a)], @)]
  /\ UNCHANGED <<quantity, line, journal, used>>

Booked(a, p) ==
  LET moves == {tx[a].moves[i] : i \in DOMAIN tx[a].moves}
  IN IF \E m \in moves : m.place = p THEN (CHOOSE m \in moves : m.place = p).delta ELSE 0

(* The movements and the row of work order parts come with the commit; deleting a row that
   another transaction deleted fails (Refused). *)
Commit(a) ==
  /\ Running(a) /\ ~Moving(a)
  /\ tx[a].removes # None => line[tx[a].removes] # None
  /\ quantity' = Over(tx[a].written, quantity)
  /\ \A p \in Place : OrZero(quantity'[p]) <= MaxQuantity
  /\ journal' = [p \in Place |-> journal[p] + Booked(a, p)]
  /\ used' = IF tx[a].adds = None /\ tx[a].removes = None THEN used
             ELSE [p \in Place |-> used[p] - Booked(a, p)]
  /\ line' = [l \in Line |->
       CASE l = tx[a].adds -> [source |-> tx[a].moves[1].place,
                               quantity |-> 0 - tx[a].moves[1].delta, addedBy |-> a]
         [] l = tx[a].removes -> None
         [] OTHER -> line[l]]
  /\ alerted' = (alerted /\ ~Replenished)
  /\ tx' = [tx EXCEPT ![a] = Idle]
  /\ UNCHANGED lost

Rollback(a) ==
  /\ tx' = [tx EXCEPT ![a] = Idle]
  /\ alerted' = (alerted /\ ("warehouse" \in Locked(a) => quantity["warehouse"] < minStock))
  /\ UNCHANGED <<quantity, line, journal, used, lost>>

WaitsFor(a, b) ==
  Moving(a) /\ tx[a].at = "writing" /\ a # b /\ Current(a).place \in Locked(b)

(* A constraint breaks (a truck row created twice, a row deleted twice), or the database finds
   two transactions waiting for each other; the alert already emitted is not taken back. The last
   two cases are the bounds. *)
Refused(a) ==
  /\ Running(a)
  /\ \/ Moving(a) /\ tx[a].at = "writing" /\ tx[a].read = None /\ quantity[Current(a).place] # None
     \/ ~Moving(a) /\ tx[a].removes # None /\ line[tx[a].removes] = None
     \/ \E b \in Actor : WaitsFor(a, b) /\ WaitsFor(b, a)
     \/ Moving(a) /\ tx[a].at = "writing" /\ LostUpdate(a) /\ Current(a).place \in lost
     \/ ~Moving(a) /\ \E p \in Place : OrZero(Over(tx[a].written, quantity)[p]) > MaxQuantity
  /\ Rollback(a)

(* A statement fails, or the process dies. *)
Fail(a) == Running(a) /\ Rollback(a)

Next ==
  \E a \in Actor :
    \/ \E q \in Amount :
         \/ receive(a, q)
         \/ \E p \in Place : adjust(a, p, q) \/ adjust(a, p, 0 - q)
         \/ \E t \in Technician, direction \in {"TO_TECH", "TO_WAREHOUSE"} : transfer(a, t, q, direction)
         \/ \E l \in Line, p \in Place : addWorkOrderPart(a, l, p, q)
    \/ \E l \in Line : removeWorkOrderPart(a, l)
    \/ ReadQuantity(a) \/ WriteQuantity(a) \/ Commit(a) \/ Refused(a) \/ Fail(a)

Spec == Init /\ [][Next]_vars

(* The awaits of a transaction settle, a lock queue is first in first out, and the database
   breaks deadlocks. *)
FairSpec ==
  /\ Spec
  /\ \A a \in Actor :
       /\ WF_vars(ReadQuantity(a))
       /\ SF_vars(WriteQuantity(a) \/ Commit(a) \/ Refused(a))

-----------------------------------------------------------------------------
(* Properties *)

(* Quantities, rows and transactions have their shape; no quantity at any place is ever negative,
   even where writes computed from the same reading overwrite each other. *)
TypeOK ==
  /\ quantity["warehouse"] \in 0..MaxQuantity
  /\ \A t \in Technician : quantity[t] \in 0..MaxQuantity \cup {None}
  /\ \A l \in Line : line[l] = None \/
       line[l] \in [source : Place, quantity : 1..MaxQuantity, addedBy : Actor]
  /\ \A a \in Actor : Running(a) => \A p \in Locked(a) : tx[a].written[p] \in Nat
  /\ alerted \in BOOLEAN /\ lost \subseteq Place

(* The quantity at a place is the sum of the movements booked for it, unless a transaction there
   overwrote a quantity another had changed since it read it. *)
QuantityIsJournal ==
  \A p \in Place \ lost : OrZero(quantity[p]) = journal[p]

(* What the journal books as used at a place is what the rows of work orders took from there:
   a part is taken once and given back once, however additions and removals interleave, and
   whatever happens to the quantities. *)
UsageIsOnWorkOrders ==
  \A p \in Place :
    used[p] = MapThenSumSet(LAMBDA l : line[l].quantity,
                            {l \in Line : line[l] # None /\ line[l].source = p})

(* One fall of the warehouse below its minimum is alerted once, unless the crossing was computed
   from an old reading. *)
OneAlertPerCrossing ==
  [][\A a \in Actor :
       Moving(a) /\ tx[a].at = "writing" /\ tx'[a] # Idle /\ tx'[a].at = "reading" /\ Crosses(a)
       => ~alerted \/ "warehouse" \in lost']_vars

(* Every transaction ends, also two transfers that lock the warehouse and a truck in opposite
   orders. *)
TransactionsEnd == \A a \in Actor : Running(a) ~> ~Running(a)
=============================================================================
