-------------------------- MODULE DeltaPullProofs --------------------------
(***************************************************************************)
(* Proofs about DeltaPull, for any work orders, pullers, page size and     *)
(* bounds: what the stored cursor has passed is on the phone, but for the  *)
(* rows a change brought in between a pull's two queries, and as long as   *)
(* no two pulls overlapped since a full resync.                            *)
(***************************************************************************)
EXTENDS DeltaPull, FiniteSetTheorems, TLAPS

-----------------------------------------------------------------------------
(* The keyset's order, and the greatest element of a finite set. *)

Key == [t : Nat, id : Nat]

LEMMA Order ==
  ASSUME NEW a \in Key, NEW b \in Key, NEW c \in Key
  PROVE  /\ Before(a, b) /\ Before(b, c) => Before(a, c)
         /\ ~Before(a, b) /\ ~Before(b, c) => ~Before(a, c)
         /\ ~Before(a, a)
         /\ a.id # b.id => Before(a, b) \/ Before(b, a)
         /\ a.t < b.t => Before(a, b)
  BY SMT DEF Key, Before

(* The greatest is the one with the fewest above it. *)
LEMMA Greatest ==
  ASSUME NEW S, IsFiniteSet(S), S # {}, NEW R,
         \A u, v, w \in S : <<u, v>> \in R /\ <<v, w>> \in R => <<u, w>> \in R,
         \A v \in S : <<v, v>> \notin R,
         \A v, w \in S : v # w => <<v, w>> \in R \/ <<w, v>> \in R
  PROVE  \E w \in S : \A v \in S \ {w} : <<v, w>> \in R
<1> DEFINE Above(w) == {v \in S : <<w, v>> \in R}
           Sizes == {Cardinality(Above(w)) : w \in S}
<1>1. \A w \in S : IsFiniteSet(Above(w)) /\ Cardinality(Above(w)) \in Nat
  <2> SUFFICES ASSUME NEW w \in S PROVE IsFiniteSet(Above(w)) /\ Cardinality(Above(w)) \in Nat
    OBVIOUS
  <2>1. Above(w) \in SUBSET S
    OBVIOUS
  <2>2. IsFiniteSet(Above(w))
    BY <2>1, FS_Subset
  <2> QED BY <2>2, FS_CardinalityType
<1>2. Sizes \subseteq Nat /\ Sizes # {}
  <2> HIDE DEF Above
  <2> QED BY <1>1
<1>3. PICK n \in Sizes : \A m \in Sizes : <<m, n>> \notin OpToRel(<, Nat)
  <2> HIDE DEF Sizes
  <2> QED BY <1>2, NatLessThanWellFounded, WFMin, Zenon
<1>4. PICK w \in S : n = Cardinality(Above(w))
  OBVIOUS
<1>5. \A v \in S : ~(Cardinality(Above(v)) < Cardinality(Above(w)))
  <2> SUFFICES ASSUME NEW v \in S, Cardinality(Above(v)) < Cardinality(Above(w)) PROVE FALSE
    OBVIOUS
  <2> HIDE DEF Above
  <2>1. Cardinality(Above(v)) \in Nat /\ n \in Nat /\ Cardinality(Above(v)) < n
    BY <1>1, <1>4
  <2>2. <<Cardinality(Above(v)), n>> \in OpToRel(<, Nat)
    <3> DEFINE m == Cardinality(Above(v))
    <3>1. m \in Nat /\ m < n
      BY <2>1
    <3> HIDE DEF m
    <3>2. <<m, n>> \in OpToRel(<, Nat)
      BY <2>1, <3>1, SMT DEF OpToRel
    <3> QED BY <3>2 DEF m
  <2> QED BY <1>3, <2>2
<1>6. ASSUME NEW v \in S \ {w} PROVE <<v, w>> \in R
  <2> SUFFICES ASSUME <<w, v>> \in R PROVE FALSE
    OBVIOUS
  <2>1. Above(v) \in SUBSET Above(w)
    OBVIOUS
  <2>2. Above(v) # Above(w)
    OBVIOUS
  <2>3. Cardinality(Above(v)) <= Cardinality(Above(w)) /\ Cardinality(Above(v)) # Cardinality(Above(w))
    BY <1>1, <2>1, <2>2, FS_Subset
  <2> QED
    <3> HIDE DEF Above
    <3> QED BY <1>1, <1>5, <2>3
<1> QED BY <1>6

-----------------------------------------------------------------------------
(* The types of the variables. *)

PullRecord == [
  at: {"idle", "asking", "idsRead", "pageRead", "fetched", "wiping", "upserting", "deleting", "storing"},
  from: Key, full: BOOLEAN, ids: SUBSET WorkOrder,
  rows: SUBSET [id: WorkOrder, version: Nat], next: Key, more: BOOLEAN, pages: Int]

Types ==
  /\ version \in [WorkOrder -> Nat \ {0}]
  /\ visible \subseteq WorkOrder
  /\ horizon \in Nat
  /\ local \in [WorkOrder -> Nat]
  /\ cursor \in Key
  /\ pull \in [Puller -> PullRecord]
  /\ crossed \in BOOLEAN

LEMMA KeysTyped ==
  ASSUME Types, NEW w \in WorkOrder
  PROVE  /\ KeyOf(w) \in Key /\ KeyOf(w).t = version[w] /\ KeyOf(w).id = w
         /\ NoCursor \in Key /\ Before(NoCursor, KeyOf(w))
  BY WorkOrderAssumption, SMT DEF Types, KeyOf, Key, NoCursor, Before

(* The first rows of a page end at one of them, which the others precede. *)
LEMMA PageEnds ==
  ASSUME Types, NEW S \in SUBSET WorkOrder, S # {}
  PROVE  LastOf(S) \in S /\ \A v \in S \ {LastOf(S)} : Before(KeyOf(v), KeyOf(LastOf(S)))
<1> DEFINE R == {d \in WorkOrder \X WorkOrder : Before(KeyOf(d[1]), KeyOf(d[2]))}
<1>1. IsFiniteSet(S)
  BY WorkOrderAssumption, FS_Subset
<1>2. \A u, v \in S : <<u, v>> \in R <=> Before(KeyOf(u), KeyOf(v))
  OBVIOUS
<1>3. \A u, v, w \in S : <<u, v>> \in R /\ <<v, w>> \in R => <<u, w>> \in R
  <2> HIDE DEF R
  <2> QED BY <1>2, KeysTyped, Order
<1>4. \A v \in S : <<v, v>> \notin R
  <2> HIDE DEF R
  <2> QED BY <1>2, KeysTyped, Order
<1>5. \A v, w \in S : v # w => <<v, w>> \in R \/ <<w, v>> \in R
  <2> HIDE DEF R
  <2> QED BY <1>2, KeysTyped, Order
<1>6. \E w \in S : \A v \in S \ {w} : <<v, w>> \in R
  <2> HIDE DEF R
  <2> QED BY <1>1, <1>3, <1>4, <1>5, Greatest
<1>7. \E w \in S : \A v \in S \ {w} : Before(KeyOf(v), KeyOf(w))
  <2> HIDE DEF R
  <2> QED BY <1>2, <1>6
<1> QED BY <1>7 DEF LastOf

(* Every row is at most as young as the clock. *)
LEMMA ClockIsLatest ==
  ASSUME Types
  PROVE  Clock \in Nat \ {0} /\ \A w \in WorkOrder : version[w] <= Clock
<1> DEFINE last == LastOf(WorkOrder)
<1>1. last \in WorkOrder /\ \A v \in WorkOrder \ {last} : Before(KeyOf(v), KeyOf(last))
  BY WorkOrderAssumption, PageEnds
<1> HIDE DEF last
<1>2. \A w \in WorkOrder : version[w] \in Nat \ {0}
  BY DEF Types
<1>3. \A w \in WorkOrder : version[w] <= version[last]
  BY <1>1, <1>2, KeysTyped, SMT DEF Before
<1> QED BY <1>1, <1>2, <1>3 DEF Clock

(* A page is downward closed: what precedes one of its rows is on it. *)
LEMMA PageIsPrefix ==
  ASSUME Types, NEW S \in SUBSET WorkOrder, NEW w \in FirstOf(S), NEW v \in S,
         Before(KeyOf(v), KeyOf(w))
  PROVE  v \in FirstOf(S)
<1> DEFINE Ahead(x) == {u \in S : Before(KeyOf(u), KeyOf(x))}
<1>1. w \in S /\ Cardinality(Ahead(w)) < Limit
  BY DEF FirstOf
<1>2. Ahead(v) \subseteq Ahead(w)
  <2> SUFFICES ASSUME NEW u \in S, Before(KeyOf(u), KeyOf(v)) PROVE Before(KeyOf(u), KeyOf(w))
    OBVIOUS
  <2> QED BY <1>1, KeysTyped, Order
<1>3. IsFiniteSet(Ahead(w)) /\ IsFiniteSet(Ahead(v))
  <2>1. Ahead(w) \in SUBSET WorkOrder /\ Ahead(v) \in SUBSET WorkOrder
    OBVIOUS
  <2> HIDE DEF Ahead
  <2> QED BY <2>1, WorkOrderAssumption, FS_Subset
<1>4. Cardinality(Ahead(v)) <= Cardinality(Ahead(w))
  <2> HIDE DEF Ahead
  <2> QED BY <1>2, <1>3, FS_Subset
<1>5. Cardinality(Ahead(v)) \in Nat /\ Cardinality(Ahead(w)) \in Nat
  <2> HIDE DEF Ahead
  <2> QED BY <1>3, FS_CardinalityType
<1>6. Cardinality(Ahead(v)) < Limit
  <2> HIDE DEF Ahead
  <2> QED BY <1>1, <1>4, <1>5, PagingAssumption
<1> QED BY <1>6 DEF FirstOf

-----------------------------------------------------------------------------
(* The invariant.  While a full resync is on its way the stored cursor is  *)
(* not usable, or no longer there; otherwise the pull starts where the     *)
(* cursor stands.  A page reaches from one cursor to the next without a    *)
(* gap, and when its rows are on the phone the next cursor could be        *)
(* stored: a later change only moves rows past every cursor given out.     *)

NotAhead(c) == \E w \in WorkOrder : c.t <= version[w]

Behind(c) == \A w \in visible \ raced : ~Before(c, KeyOf(w)) => local[w] = version[w]

Fetched == {"fetched", "wiping", "upserting", "deleting", "storing"}

(* A page reaches from its cursor to the next without a gap. *)
PageOK(x) ==
  /\ ~Before(x.next, x.from)
  /\ \A r \in x.rows : Before(x.from, KeyOf(r.id))
  /\ \A r, s \in x.rows : r.id = s.id => r.version = s.version
  /\ \A w \in visible : Before(x.from, KeyOf(w)) /\ ~Before(x.next, KeyOf(w)) =>
       \E r \in x.rows : r.id = w /\ r.version = version[w]

IdsOK(x) == \A w \in visible \ raced : ~Before(x.next, KeyOf(w)) => w \in x.ids

(* What holds of a pull's answer, whatever other pulls do to the phone. *)
PageHolds(x) ==
  /\ NotAhead(x.from) /\ NotAhead(x.next)
  /\ x.at # "idle" /\ x.full = TRUE => x.from = NoCursor
  /\ x.at = "idsRead" => visible \ raced \subseteq x.ids
  /\ x.at \in Fetched \cup {"pageRead"} => PageOK(x)
  /\ x.at \in Fetched => IdsOK(x)
  /\ x.at \in {"wiping", "upserting"} => x.full = TRUE

Pages == NotAhead(cursor) /\ \A p \in Puller : PageHolds(pull[p])

StartOK(x) ==
  IF x.full = TRUE
  THEN ~Usable(cursor)
  ELSE x.from = cursor /\ cursor # NoCursor /\ Behind(cursor)

(* What holds of a pull that has the phone for itself. *)
OrderHolds(x) ==
  /\ x.at # "idle" => StartOK(x)
  /\ x.at \in {"upserting", "deleting", "storing"} /\ x.full = TRUE => cursor = NoCursor
  /\ x.at \in {"deleting", "storing"} => Behind(x.next)

Aligned ==
  /\ Usable(cursor) => Behind(cursor)
  /\ \A p \in Puller : OrderHolds(pull[p])
  /\ \A p, q \in Puller : pull[p].at # "idle" /\ pull[q].at # "idle" => p = q

PullInv == Pages /\ (crossed = FALSE => Aligned)

(* What the page query gives: no row between the two cursors is missing. *)
LEMMA PageCovers ==
  ASSUME Types, NEW from \in Key, NotAhead(from),
         NEW x, x = PageOf(Changed(from), from)
  PROVE  /\ x.next \in Key /\ x.rows \subseteq [id: WorkOrder, version: Nat] /\ x.more \in BOOLEAN
         /\ NotAhead(x.next)
         /\ ~Before(x.next, from)
         /\ \A r \in x.rows : Before(from, KeyOf(r.id))
         /\ \A r \in x.rows : r.version = version[r.id]
         /\ \A w \in visible : Before(from, KeyOf(w)) /\ ~Before(x.next, KeyOf(w)) =>
              \E r \in x.rows : r.id = w /\ r.version = version[w]
<1> DEFINE changed == Changed(from)
           page == FirstOf(changed)
           last == LastOf(page)
<1>1. changed \in SUBSET WorkOrder /\ page \in SUBSET changed
  BY DEF Changed, FirstOf, Types
<1>2. /\ x.rows = {[id |-> w, version |-> version[w]] : w \in page}
      /\ x.more = (Cardinality(changed) > Limit)
      /\ x.next = IF page = {} THEN from ELSE KeyOf(last)
  BY DEF PageOf
<1>3. page # {} => last \in page /\ \A v \in page \ {last} : Before(KeyOf(v), KeyOf(last))
  BY <1>1, PageEnds
<1>4. \A w \in page : w \in WorkOrder /\ w \in visible /\ Before(from, KeyOf(w))
  BY DEF Changed, FirstOf, Types
<1>5. \A w \in page, v \in changed : Before(KeyOf(v), KeyOf(w)) => v \in page
  BY <1>1, PageIsPrefix
<1>6. \A w \in visible : Before(from, KeyOf(w)) => w \in changed
  BY DEF Changed
<1> HIDE DEF changed, page, last
<1>7. x.next \in Key
  BY <1>1, <1>2, <1>3, KeysTyped
<1>8. x.rows \subseteq [id: WorkOrder, version: Nat] /\ x.more \in BOOLEAN
  BY <1>1, <1>2 DEF Types
<1>9. NotAhead(x.next)
  <2>1. CASE page = {}
    BY <1>2, <2>1
  <2>2. CASE page # {}
    <3>1. last \in WorkOrder /\ x.next.t = version[last] /\ version[last] \in Nat
      BY <1>2, <1>3, <1>4, <2>2, KeysTyped DEF Types
    <3> QED BY <3>1 DEF NotAhead
  <2> QED BY <2>1, <2>2
<1>10. ~Before(x.next, from)
  <2>1. CASE page = {}
    BY <1>2, <2>1, Order
  <2>2. CASE page # {}
    BY <1>2, <1>3, <1>4, <2>2, KeysTyped, Order
  <2> QED BY <2>1, <2>2
<1>11. \A r \in x.rows : Before(from, KeyOf(r.id)) /\ r.version = version[r.id]
  BY <1>2, <1>4
<1>12. ASSUME NEW w \in visible, Before(from, KeyOf(w)), ~Before(x.next, KeyOf(w))
       PROVE  \E r \in x.rows : r.id = w /\ r.version = version[w]
  <2>1. page # {}
    BY <1>2, <1>12
  <2>2. last \in page /\ x.next = KeyOf(last) /\ w \in changed
    BY <1>2, <1>3, <1>6, <1>12, <2>1
  <2>3. w \in page
    <3>1. w \in WorkOrder /\ last \in WorkOrder
      BY <1>1, <2>2
    <3>2. w = last \/ Before(KeyOf(w), KeyOf(last))
      BY <1>12, <2>2, <3>1, KeysTyped, Order
    <3> QED BY <1>5, <2>2, <3>2
  <2>4. [id |-> w, version |-> version[w]] \in x.rows
    BY <1>2, <2>3
  <2> QED BY <2>4
<1> QED BY <1>7, <1>8, <1>9, <1>10, <1>11, <1>12

-----------------------------------------------------------------------------
(* The steps keep the types. *)

LEMMA IdleTyped == Idle \in PullRecord /\ Idle.next = NoCursor /\ Idle.from = NoCursor /\ Idle.at = "idle"
<1>1. Idle \in PullRecord
  BY DEF Idle, PullRecord, NoCursor, Key
<1> QED BY <1>1 DEF Idle

LEMMA InitTyped == Init => Types
<1> SUFFICES ASSUME Init PROVE Types
  OBVIOUS
<1>1. crossed \in BOOLEAN
  BY DEF Init
<1>2. pull \in [Puller -> PullRecord]
  BY IdleTyped DEF Init
<1>3. NoCursor \in Key
  BY DEF NoCursor, Key
<1> QED BY <1>1, <1>2, <1>3 DEF Init, Types, Absent

LEMMA AskingTyped ==
  ASSUME NEW c \in Key, NEW n \in Int
  PROVE  /\ Asking(c, n) \in PullRecord
         /\ Asking(c, n).at = "asking" /\ Asking(c, n).next = NoCursor
         /\ Usable(c) => Asking(c, n).full = FALSE /\ Asking(c, n).from = c
         /\ ~Usable(c) => Asking(c, n).full = TRUE /\ Asking(c, n).from = NoCursor
<1>1. NoCursor \in Key
  BY DEF NoCursor, Key
<1> DEFINE Request(full, from) ==
      [Idle EXCEPT !.at = "asking", !.pages = n, !.full = full, !.from = from]
<1>2. Usable(c) => Asking(c, n) = Request(FALSE, c)
  BY Zenon DEF Asking
<1>3. ~Usable(c) => Asking(c, n) = Request(TRUE, NoCursor)
  BY Zenon DEF Asking
<1>4. \A full \in BOOLEAN, from \in Key : Request(full, from) \in PullRecord
  BY IdleTyped DEF PullRecord
<1>5. \A full \in BOOLEAN, from \in Key :
        /\ Request(full, from).at = "asking"
        /\ Request(full, from).next = NoCursor
        /\ Request(full, from).from = from
  BY IdleTyped DEF PullRecord
<1>6. \A full \in BOOLEAN, from \in Key : Request(full, from).full = full
  BY IdleTyped DEF PullRecord
<1> HIDE DEF Request
<1>7. TRUE \in BOOLEAN /\ FALSE \in BOOLEAN
  OBVIOUS
<1>8. CASE Usable(c)
  <2>1. Asking(c, n) = Request(FALSE, c)
    BY <1>2, <1>8
  <2>2. Request(FALSE, c).full = FALSE
    BY <1>6, <1>7, Zenon
  <2>3. /\ Request(FALSE, c) \in PullRecord /\ Request(FALSE, c).at = "asking"
        /\ Request(FALSE, c).next = NoCursor /\ Request(FALSE, c).from = c
    BY <1>4, <1>5, <1>7
  <2> QED BY <1>8, <2>1, <2>2, <2>3, Zenon
<1>9. CASE ~Usable(c)
  <2>1. Asking(c, n) = Request(TRUE, NoCursor)
    BY <1>3, <1>9
  <2>2. Request(TRUE, NoCursor).full = TRUE
    BY <1>1, <1>6, <1>7, Zenon
  <2>3. /\ Request(TRUE, NoCursor) \in PullRecord /\ Request(TRUE, NoCursor).at = "asking"
        /\ Request(TRUE, NoCursor).next = NoCursor /\ Request(TRUE, NoCursor).from = NoCursor
    BY <1>1, <1>4, <1>5, <1>7
  <2> QED BY <1>9, <2>1, <2>2, <2>3, Zenon
<1> QED BY <1>8, <1>9, Zenon

LEMMA ChangeTyped ==
  ASSUME Types, NEW S \in SUBSET WorkOrder, NEW in \in SUBSET S, Change(S, in)
  PROVE  Types'
<1>1. version' \in [WorkOrder -> Nat \ {0}]
  BY ClockIsLatest DEF Types, Change
<1> QED BY <1>1 DEF Types, Change

LEMMA PullTyped ==
  ASSUME Types, NEW p \in Puller, NEW y \in PullRecord, pull' = [pull EXCEPT ![p] = y]
  PROVE  /\ pull' \in [Puller -> PullRecord] /\ pull'[p] = y
         /\ \A q \in Puller \ {p} : pull'[q] = pull[q]
  BY DEF Types

(* What each step of a pull does to it. *)

Same(x, y) == y.from = x.from /\ y.full = x.full /\ y.next = x.next

LEMMA GotoTyped ==
  ASSUME Types, NEW p \in Puller, NEW step \in {"wiping", "upserting", "deleting", "storing"},
         Goto(p, step)
  PROVE  /\ pull' \in [Puller -> PullRecord]
         /\ pull'[p].at = step /\ Same(pull[p], pull'[p])
         /\ pull'[p].ids = pull[p].ids /\ pull'[p].rows = pull[p].rows
<1> DEFINE x == pull[p]
           y == [x EXCEPT !.at = step]
<1>1. x \in PullRecord
  BY DEF Types
<1>2. pull' = [pull EXCEPT ![p] = y]
  BY DEF Goto
<1>3. y \in PullRecord /\ y.at = step /\ y.ids = x.ids /\ y.rows = x.rows
  <2> HIDE DEF x
  <2> QED BY <1>1 DEF PullRecord
<1>4. y.from = x.from /\ y.full = x.full /\ y.next = x.next
  <2> HIDE DEF x
  <2> QED BY <1>1 DEF PullRecord
<1> HIDE DEF y
<1>5. pull' \in [Puller -> PullRecord] /\ pull'[p] = y
  BY <1>2, <1>3, PullTyped
<1> QED BY <1>3, <1>4, <1>5 DEF Same

LEMMA ReadIdsTyped ==
  ASSUME Types, NEW p \in Puller, ReadIds(p)
  PROVE  /\ pull' \in [Puller -> PullRecord]
         /\ Same(pull[p], pull'[p])
         /\ pull'[p].ids = visible /\ pull'[p].rows = pull[p].rows
         /\ \/ pull[p].at = "asking" /\ pull'[p].at = "idsRead"
            \/ pull[p].at = "pageRead" /\ pull'[p].at = "fetched"
<1> DEFINE x == pull[p]
           y == [x EXCEPT !.ids = visible, !.at = IF x.at = "asking" THEN "idsRead" ELSE "fetched"]
<1>1. x \in PullRecord
  BY DEF Types
<1>2. pull' = [pull EXCEPT ![p] = y]
  BY DEF ReadIds, Types
<1>3. y \in PullRecord /\ y.ids = visible /\ y.rows = x.rows
  <2> HIDE DEF x
  <2> QED BY <1>1 DEF PullRecord, Types
<1>4. y.from = x.from /\ y.full = x.full /\ y.next = x.next
  <2> HIDE DEF x
  <2> QED BY <1>1 DEF PullRecord
<1>5. y.at = IF x.at = "asking" THEN "idsRead" ELSE "fetched"
  <2> HIDE DEF x
  <2> QED BY <1>1 DEF PullRecord
<1> HIDE DEF y
<1>6. pull' \in [Puller -> PullRecord] /\ pull'[p] = y
  BY <1>2, <1>3, PullTyped
<1> QED BY <1>3, <1>4, <1>5, <1>6 DEF Same, ReadIds

LEMMA ReadPageTyped ==
  ASSUME Types, NEW p \in Puller, NotAhead(pull[p].from), ReadPage(p),
         NEW page, page = PageOf(Changed(pull[p].from), pull[p].from)
  PROVE  /\ pull' \in [Puller -> PullRecord]
         /\ pull'[p].from = pull[p].from /\ pull'[p].full = pull[p].full
         /\ pull'[p].next = page.next /\ pull'[p].rows = page.rows /\ pull'[p].ids = pull[p].ids
         /\ \/ pull[p].at = "asking" /\ pull'[p].at = "pageRead"
            \/ pull[p].at = "idsRead" /\ pull'[p].at = "fetched"
<1> DEFINE x == pull[p]
           y == [x EXCEPT !.rows = page.rows, !.more = page.more, !.next = page.next,
                          !.at = IF x.at = "asking" THEN "pageRead" ELSE "fetched"]
<1>1. x \in PullRecord /\ x.from \in Key
  BY DEF Types, PullRecord
<1>2. page.next \in Key /\ page.rows \subseteq [id: WorkOrder, version: Nat] /\ page.more \in BOOLEAN
  BY <1>1, PageCovers
<1>3. pull' = [pull EXCEPT ![p] = y]
  BY DEF ReadPage, Types
<1>4. y \in PullRecord
  <2> HIDE DEF x
  <2> QED BY <1>1, <1>2 DEF PullRecord
<1>5. y.from = x.from /\ y.full = x.full /\ y.ids = x.ids
  <2> HIDE DEF x
  <2> QED BY <1>1 DEF PullRecord
<1>6. /\ y.next = page.next /\ y.rows = page.rows
      /\ y.at = IF x.at = "asking" THEN "pageRead" ELSE "fetched"
  <2> HIDE DEF x
  <2> QED BY <1>1 DEF PullRecord
<1> HIDE DEF y
<1>7. pull' \in [Puller -> PullRecord] /\ pull'[p] = y
  BY <1>3, <1>4, PullTyped
<1> QED BY <1>5, <1>6, <1>7 DEF ReadPage

(* The rows of a page, as applyPull writes them. *)
LEMMA UpsertTyped ==
  ASSUME Types, NEW p \in Puller, Upsert(p),
         \A r, s \in pull[p].rows : r.id = s.id => r.version = s.version
  PROVE  /\ local' \in [WorkOrder -> Nat]
         /\ \A r \in pull[p].rows : local'[r.id] = r.version
         /\ \A w \in WorkOrder : (\A r \in pull[p].rows : r.id # w) => local'[w] = local[w]
<1> DEFINE rows == pull[p].rows
           Given(w) == CHOOSE row \in rows : row.id = w
<1>1. rows \subseteq [id: WorkOrder, version: Nat]
  BY DEF Types, PullRecord
<1>2. local' = [w \in WorkOrder |-> IF \E row \in rows : row.id = w THEN Given(w).version ELSE local[w]]
  BY DEF Upsert
<1>3. \A w \in WorkOrder : (\E row \in rows : row.id = w) => Given(w) \in rows /\ Given(w).id = w
  <2> HIDE DEF rows
  <2> QED OBVIOUS
<1> HIDE DEF rows, Given
<1>4. local' \in [WorkOrder -> Nat]
  BY <1>1, <1>2, <1>3 DEF Types
<1>5. \A r \in rows : local'[r.id] = r.version
  <2> SUFFICES ASSUME NEW r \in rows PROVE local'[r.id] = r.version
    OBVIOUS
  <2>1. r.id \in WorkOrder /\ local'[r.id] = Given(r.id).version
    BY <1>1, <1>2
  <2>2. Given(r.id) \in rows /\ Given(r.id).id = r.id
    BY <1>3, <2>1
  <2> QED BY <2>1, <2>2 DEF rows
<1>6. \A w \in WorkOrder : (\A r \in rows : r.id # w) => local'[w] = local[w]
  BY <1>2
<1> QED BY <1>4, <1>5, <1>6 DEF rows

-----------------------------------------------------------------------------
(* The steps keep the invariant. *)

-----------------------------------------------------------------------------
(* The first cursor, and the other pulls. *)

LEMMA NoCursorIsFirst ==
  ASSUME Types
  PROVE  /\ NoCursor \in Key /\ NotAhead(NoCursor) /\ ~Usable(NoCursor)
         /\ \A c \in Key : ~Before(c, NoCursor)
         /\ \A c \in Key : c # NoCursor => Before(NoCursor, c)
<1>1. NoCursor \in Key /\ NoCursor.t = 0 /\ NoCursor.id = 0
  BY DEF NoCursor, Key
<1>2. \A c \in Key : ~Before(c, NoCursor)
  BY <1>1 DEF Key, Before
<1>3. ASSUME NEW c \in Key, c # NoCursor PROVE Before(NoCursor, c)
  <2>1. c = [t |-> c.t, id |-> c.id] /\ c.t \in Nat /\ c.id \in Nat
    BY DEF Key
  <2>2. c.t # 0 \/ c.id # 0
    BY <1>3, <2>1 DEF NoCursor
  <2> QED BY <1>1, <2>1, <2>2 DEF Before
<1>4. NotAhead(NoCursor)
  <2>1. PICK w \in WorkOrder : TRUE
    BY WorkOrderAssumption
  <2>2. version[w] \in Nat
    BY DEF Types
  <2> QED BY <1>1, <2>1, <2>2 DEF NotAhead
<1> QED BY <1>1, <1>2, <1>3, <1>4 DEF Usable

(* A step of one pull leaves the answers of the others as they are. *)
LEMMA OtherPages ==
  ASSUME Pages, NEW p \in Puller, UNCHANGED <<version, visible, raced>>,
         \A q \in Puller \ {p} : pull'[q] = pull[q],
         PageHolds(pull[p])', NotAhead(cursor)'
  PROVE  Pages'
<1>1. ASSUME NEW q \in Puller, q # p PROVE PageHolds(pull[q])'
  <2>1. PageHolds(pull[q]) /\ pull'[q] = pull[q]
    BY <1>1 DEF Pages
  <2> QED BY <2>1 DEF PageHolds, NotAhead, PageOK, IdsOK, KeyOf
<1> QED BY <1>1 DEF Pages

(* Nor does a step that writes the phone change the answer of its own pull. *)
LEMMA GotoPages ==
  ASSUME Types, Pages, NEW p \in Puller, NEW step \in {"wiping", "upserting", "deleting", "storing"},
         Goto(p, step), UNCHANGED <<version, visible, raced>>,
         pull[p].at \in Fetched, step \in {"wiping", "upserting"} => pull[p].full = TRUE,
         NotAhead(cursor)'
  PROVE  Pages'
<1> DEFINE x == pull[p]
           y == pull'[p]
<1>1. /\ y.at = step /\ Same(x, y) /\ y.ids = x.ids /\ y.rows = x.rows
  BY GotoTyped
<1>2. \A q \in Puller \ {p} : pull'[q] = pull[q]
  BY DEF Goto, Types
<1>3. PageHolds(x) /\ x.at \in Fetched
  BY DEF Pages
<1> HIDE DEF x, y
<1>4. NotAhead(pull[p].from)' /\ NotAhead(pull[p].next)'
  BY <1>1, <1>3 DEF NotAhead, Same, PageHolds, y
<1>5. PageOK(pull[p])' /\ IdsOK(pull[p])'
  <2>1. PageOK(x) /\ IdsOK(x)
    BY <1>3 DEF PageHolds
  <2> QED BY <1>1, <2>1 DEF PageOK, IdsOK, Same, KeyOf, y
<1>6. y.full = TRUE => y.from = NoCursor
  BY <1>1, <1>3 DEF PageHolds, Same, Fetched
<1>7. step \in {"wiping", "upserting"} => y.full = TRUE
  BY <1>1 DEF Same, x
<1>8. PageHolds(pull[p])'
  <2> USE DEF y
  <2> QED BY <1>1, <1>4, <1>5, <1>6, <1>7 DEF PageHolds
<1> QED BY <1>2, <1>8, OtherPages

(* A pull that is not idle has the phone for itself as long as none crossed another. *)
LEMMA OthersRest ==
  ASSUME NEW p \in Puller, \A q \in Puller \ {p} : pull[q].at = "idle",
         \A q \in Puller \ {p} : pull'[q] = pull[q],
         (Usable(cursor) => Behind(cursor))', OrderHolds(pull[p])'
  PROVE  Aligned'
<1>1. ASSUME NEW q \in Puller, q # p PROVE OrderHolds(pull[q])' /\ pull'[q].at = "idle"
  BY <1>1 DEF OrderHolds
<1> QED BY <1>1 DEF Aligned

-----------------------------------------------------------------------------
(* The steps keep the invariant. *)

LEMMA InitPullInv == Init => PullInv
<1> SUFFICES ASSUME Init PROVE PullInv
  OBVIOUS
<1>1. Types /\ cursor = NoCursor
  BY InitTyped DEF Init
<1>2. ASSUME NEW p \in Puller PROVE PageHolds(pull[p]) /\ OrderHolds(pull[p]) /\ pull[p].at = "idle"
  <2>1. pull[p] = Idle
    BY DEF Init
  <2>2. pull[p].at = "idle" /\ pull[p].from = NoCursor /\ pull[p].next = NoCursor
    BY <2>1, IdleTyped
  <2> QED BY <1>1, <2>2, NoCursorIsFirst DEF PageHolds, OrderHolds, Fetched
<1> QED BY <1>1, <1>2, NoCursorIsFirst DEF PullInv, Pages, Aligned

(* A change moves what it touches past every cursor given out. *)
LEMMA ChangePassesCursors ==
  ASSUME Types, NEW S \in SUBSET WorkOrder, NEW in \in SUBSET S, Change(S, in),
         NEW c \in Key, NotAhead(c)
  PROVE  /\ \E w \in WorkOrder : c.t <= version'[w]
         /\ \A w \in visible' : ~Before(c, KeyOf(w)') =>
              /\ w \in visible /\ version'[w] = version[w] /\ KeyOf(w)' = KeyOf(w)
              /\ w \in raced => w \in raced'
         /\ \A w \in WorkOrder : Before(c, KeyOf(w)) => Before(c, KeyOf(w)')
<1>1. \A w \in WorkOrder : version'[w] = IF w \in S THEN Clock + 1 ELSE version[w]
  BY DEF Change
<1>2. Clock \in Nat /\ (\A w \in WorkOrder : version[w] <= Clock /\ version[w] \in Nat)
  BY ClockIsLatest DEF Types
<1>3. \A w \in WorkOrder : version'[w] \in Nat /\ version[w] <= version'[w]
  BY <1>1, <1>2
<1>4. c.t \in Nat /\ c.t <= Clock
  BY <1>2 DEF NotAhead, Key
<1>5. \E w \in WorkOrder : c.t <= version'[w]
  BY <1>2, <1>3, <1>4 DEF NotAhead
<1>6. \A w \in S : Before(c, KeyOf(w)')
  BY <1>1, <1>2, <1>4 DEF Before, KeyOf
<1>7. \A w \in WorkOrder \ S : KeyOf(w)' = KeyOf(w) /\ version'[w] = version[w]
  BY <1>1 DEF KeyOf
<1>8. \A w \in visible' : w \in S \/ (w \in visible /\ w \in WorkOrder \ S)
  BY DEF Change, Types
<1>9. \A w \in raced : w \notin S => w \in raced'
  BY DEF Change
<1>10. \A w \in WorkOrder : Before(c, KeyOf(w)) => Before(c, KeyOf(w)')
  BY <1>6, <1>7
<1>11. \A w \in visible' : ~Before(c, KeyOf(w)') =>
         /\ w \in visible /\ version'[w] = version[w] /\ KeyOf(w)' = KeyOf(w)
         /\ w \in raced => w \in raced'
  BY <1>6, <1>7, <1>8, <1>9
<1> QED BY <1>5, <1>10, <1>11

(* Rows that come in view between the two queries of a pull are raced, and only they. *)
LEMMA ChangePages ==
  ASSUME Types, Pages, NEW S \in SUBSET WorkOrder, NEW in \in SUBSET S, Change(S, in)
  PROVE  Pages'
<1>1. UNCHANGED <<horizon, local, cursor, pull, crossed>>
  BY DEF Change
<1>2. \A c \in Key : NotAhead(c) => NotAhead(c)'
  BY ChangePassesCursors DEF NotAhead
<1>3. NotAhead(cursor)'
  <2>1. cursor \in Key /\ NotAhead(cursor)
    BY DEF Types, Pages
  <2> QED BY <1>1, <1>2, <2>1 DEF NotAhead
<1>4. ASSUME NEW p \in Puller PROVE PageHolds(pull[p])'
  <2> DEFINE x == pull[p]
  <2>1. x \in PullRecord /\ pull'[p] = x /\ PageHolds(x)
    BY <1>1 DEF Types, Pages, Change
  <2>2. x.from \in Key /\ x.next \in Key /\ NotAhead(x.from) /\ NotAhead(x.next)
    BY <2>1 DEF PullRecord, PageHolds
  <2>3. x.rows \subseteq [id: WorkOrder, version: Nat]
    BY <2>1 DEF PullRecord
  <2>4. x.at = "idsRead" => visible' \ raced' \subseteq x.ids
    <3> SUFFICES ASSUME x.at = "idsRead", NEW w \in visible', w \notin raced' PROVE w \in x.ids
      OBVIOUS
    <3>1. CASE w \in S
      BY <3>1 DEF Change
    <3>2. CASE w \notin S
      <4>1. w \in visible /\ w \notin raced
        BY <3>2 DEF Change
      <4>2. visible \ raced \subseteq x.ids
        BY <2>1 DEF PageHolds
      <4> QED BY <4>1, <4>2
    <3> QED BY <3>1, <3>2
  <2> HIDE DEF x
  <2>5. NotAhead(pull[p].from)' /\ NotAhead(pull[p].next)'
    BY <1>2, <2>1, <2>2 DEF NotAhead
  <2>6. x.at \in Fetched \cup {"pageRead"} => PageOK(pull[p])'
    <3> SUFFICES ASSUME PageOK(x) PROVE PageOK(pull[p])'
      BY <2>1 DEF PageHolds
    <3>1. ~Before(x.next, x.from) /\ \A r, s \in x.rows : r.id = s.id => r.version = s.version
      BY DEF PageOK
    <3>2. \A r \in x.rows : Before(x.from, KeyOf(r.id)')
      BY <2>2, <2>3, ChangePassesCursors DEF PageOK
    <3>3. \A w \in visible' : Before(x.from, KeyOf(w)') /\ ~Before(x.next, KeyOf(w)') =>
            \E r \in x.rows : r.id = w /\ r.version = version'[w]
      BY <2>2, ChangePassesCursors DEF PageOK
    <3> QED BY <2>1, <3>1, <3>2, <3>3 DEF PageOK
  <2>7. x.at \in Fetched => IdsOK(pull[p])'
    <3>1. x.at \in Fetched => IdsOK(x)
      BY <2>1 DEF PageHolds
    <3>2. IdsOK(x) => \A w \in visible' \ raced' : ~Before(x.next, KeyOf(w)') => w \in x.ids
      BY <2>2, ChangePassesCursors DEF IdsOK
    <3> QED BY <2>1, <3>1, <3>2 DEF IdsOK
  <2> QED BY <2>1, <2>4, <2>5, <2>6, <2>7 DEF PageHolds
<1> QED BY <1>3, <1>4 DEF Pages

LEMMA ChangeAligned ==
  ASSUME Types, Pages, Aligned, NEW S \in SUBSET WorkOrder, NEW in \in SUBSET S, Change(S, in)
  PROVE  Aligned'
<1>1. UNCHANGED <<horizon, local, cursor, pull>>
  BY DEF Change
<1>2. ASSUME NEW c \in Key, NotAhead(c), Behind(c) PROVE Behind(c)'
  BY <1>1, <1>2, ChangePassesCursors DEF Behind
<1>3. cursor \in Key /\ NotAhead(cursor)
  BY DEF Types, Pages
<1>4. Behind(cursor) => Behind(cursor)'
  BY <1>1, <1>2, <1>3 DEF Behind
<1>5. (Usable(cursor) => Behind(cursor))'
  BY <1>1, <1>4 DEF Aligned, Usable
<1>6. ASSUME NEW p \in Puller PROVE OrderHolds(pull[p])'
  <2> DEFINE x == pull[p]
  <2>1. pull'[p] = x /\ OrderHolds(x) /\ x.next \in Key /\ NotAhead(x.next)
    BY <1>1 DEF Types, Aligned, Pages, PageHolds, PullRecord
  <2> HIDE DEF x
  <2>2. StartOK(x) => StartOK(pull[p])'
    <3>1. CASE x.full = TRUE
      BY <1>1, <2>1, <3>1 DEF StartOK, Usable
    <3>2. CASE x.full # TRUE
      BY <1>1, <1>4, <2>1, <3>2 DEF StartOK
    <3> QED BY <3>1, <3>2
  <2>3. Behind(x.next) => Behind(pull[p].next)'
    BY <1>2, <2>1 DEF Behind
  <2> QED BY <1>1, <2>1, <2>2, <2>3 DEF OrderHolds
<1> QED BY <1>1, <1>5, <1>6 DEF Aligned

LEMMA GrowOldInv ==
  ASSUME Types, PullInv, GrowOld
  PROVE  Types' /\ PullInv'
<1>1. /\ UNCHANGED <<version, visible, local, cursor, pull, raced, crossed>>
      /\ horizon' \in Nat /\ horizon < horizon'
  BY ClockIsLatest DEF GrowOld, Types, history
<1>2. Types'
  BY <1>1 DEF Types
<1>3. Pages'
  BY <1>1 DEF PullInv, Pages, PageHolds, PageOK, IdsOK, NotAhead, KeyOf
<1>4. ASSUME Aligned PROVE Aligned'
  <2>1. Usable(cursor)' => Usable(cursor)
    BY <1>1 DEF Usable, Types, Key
  <2>2. \A c : Behind(c) => Behind(c)'
    BY <1>1 DEF Behind, KeyOf
  <2>3. Behind(cursor) => Behind(cursor)'
    BY <1>1, <2>2 DEF Behind
  <2>4. ASSUME NEW p \in Puller PROVE OrderHolds(pull[p])'
    <3> DEFINE x == pull[p]
    <3>1. pull'[p] = x /\ OrderHolds(x)
      BY <1>1, <1>4 DEF Aligned
    <3> HIDE DEF x
    <3>2. StartOK(x) => StartOK(pull[p])'
      <4>1. CASE x.full = TRUE
        BY <2>1, <3>1, <4>1 DEF StartOK
      <4>2. CASE x.full # TRUE
        BY <1>1, <2>3, <3>1, <4>2 DEF StartOK
      <4> QED BY <4>1, <4>2
    <3>3. Behind(x.next) => Behind(pull[p].next)'
      BY <1>1, <3>1 DEF Behind, KeyOf
    <3> QED BY <1>1, <3>1, <3>2, <3>3 DEF OrderHolds
  <2> QED BY <1>1, <1>4, <2>1, <2>3, <2>4 DEF Aligned
<1> QED BY <1>1, <1>2, <1>3, <1>4 DEF PullInv

LEMMA StartPullInv ==
  ASSUME Types, PullInv, NEW p \in Puller, StartPull(p)
  PROVE  Types' /\ PullInv'
<1> DEFINE y == Asking(cursor, 0)
<1>1. /\ UNCHANGED <<version, visible, horizon, local, cursor, raced>> /\ cursor \in Key
      /\ \A q \in Puller \ {p} : pull'[q] = pull[q]
  BY DEF StartPull, Types
<1>2. /\ crossed' \in BOOLEAN
      /\ crossed' = FALSE => crossed = FALSE /\ \A q \in Puller \ {p} : pull[q].at = "idle"
  BY Zenon DEF StartPull, Types, Others
<1>3. /\ y \in PullRecord /\ y.at = "asking" /\ y.next = NoCursor
      /\ Usable(cursor) => y.full = FALSE /\ y.from = cursor
      /\ ~Usable(cursor) => y.full = TRUE /\ y.from = NoCursor
  <2>1. 0 \in Int
    OBVIOUS
  <2> QED BY <1>1, <2>1, AskingTyped, Zenon
<1> HIDE DEF y
<1>4. pull' \in [Puller -> PullRecord] /\ pull'[p] = y
  BY <1>3, PullTyped DEF StartPull, y
<1>5. Types'
  BY <1>1, <1>2, <1>4 DEF Types
<1>6. NotAhead(cursor)
  BY DEF PullInv, Pages
<1>7. NotAhead(cursor)'
  BY <1>1, <1>6 DEF NotAhead
<1>8. NotAhead(y.from) /\ NotAhead(y.next)
  BY <1>3, <1>6, NoCursorIsFirst
<1>9. NotAhead(pull[p].from)' /\ NotAhead(pull[p].next)'
  BY <1>1, <1>4, <1>8 DEF NotAhead
<1>10. PageHolds(pull[p])'
  BY <1>3, <1>4, <1>9 DEF PageHolds, Fetched
<1>11. Pages'
  BY <1>1, <1>7, <1>10, OtherPages DEF PullInv
<1>12. ASSUME Aligned, \A q \in Puller \ {p} : pull[q].at = "idle" PROVE Aligned'
  <2>1. Usable(cursor) => Behind(cursor)
    BY <1>12 DEF Aligned
  <2>2. (Usable(cursor) => Behind(cursor))'
    BY <1>1, <2>1 DEF Usable, Behind, KeyOf
  <2>3. StartOK(y)
    BY <1>3, <2>1 DEF StartOK, Usable
  <2>4. StartOK(pull[p])'
    BY <1>1, <1>4, <2>3 DEF StartOK, Usable, Behind, KeyOf
  <2>5. OrderHolds(pull[p])'
    BY <1>3, <1>4, <2>4 DEF OrderHolds
  <2> QED BY <1>1, <1>12, <2>2, <2>5, OthersRest
<1> QED BY <1>2, <1>5, <1>11, <1>12 DEF PullInv

LEMMA AbortInv ==
  ASSUME Types, PullInv, NEW p \in Puller, Abort(p)
  PROVE  Types' /\ PullInv'
<1>1. /\ UNCHANGED <<version, visible, horizon, local, cursor, raced, crossed>>
      /\ pull[p].at # "idle" /\ \A q \in Puller \ {p} : pull'[q] = pull[q]
  BY DEF Abort, Types, history
<1>2. pull' \in [Puller -> PullRecord] /\ pull'[p] = Idle
  BY IdleTyped, PullTyped DEF Abort
<1>3. Types'
  BY <1>1, <1>2 DEF Types
<1>4. NotAhead(pull[p].from)' /\ NotAhead(pull[p].next)' /\ NotAhead(cursor)'
  BY <1>1, <1>2, IdleTyped, NoCursorIsFirst DEF NotAhead, PullInv, Pages
<1>5. PageHolds(pull[p])' /\ OrderHolds(pull[p])'
  BY <1>2, <1>4, IdleTyped DEF PageHolds, OrderHolds, Fetched
<1>6. Pages'
  BY <1>1, <1>4, <1>5, OtherPages DEF PullInv
<1>7. ASSUME Aligned PROVE Aligned'
  <2>1. (Usable(cursor) => Behind(cursor))'
    BY <1>1, <1>7 DEF Aligned, Usable, Behind, KeyOf
  <2>2. \A q \in Puller \ {p} : pull[q].at = "idle"
    BY <1>1, <1>7 DEF Aligned
  <2> QED BY <1>1, <1>5, <2>1, <2>2, OthersRest
<1> QED BY <1>1, <1>3, <1>6, <1>7 DEF PullInv

LEMMA ReadIdsInv ==
  ASSUME Types, PullInv, NEW p \in Puller, ReadIds(p)
  PROVE  Types' /\ PullInv'
<1> DEFINE x == pull[p]
           y == pull'[p]
<1>1. /\ UNCHANGED <<version, visible, horizon, local, cursor, raced, crossed>>
      /\ \A q \in Puller \ {p} : pull'[q] = pull[q]
  BY DEF ReadIds, Types, history
<1>2. /\ pull' \in [Puller -> PullRecord] /\ Same(x, y)
      /\ y.ids = visible /\ y.rows = x.rows
      /\ \/ x.at = "asking" /\ y.at = "idsRead"
         \/ x.at = "pageRead" /\ y.at = "fetched"
  BY ReadIdsTyped
<1>3. PageHolds(x) /\ NotAhead(cursor)
  BY DEF PullInv, Pages
<1> HIDE DEF x, y
<1>4. Types'
  BY <1>1, <1>2 DEF Types
<1>5. NotAhead(pull[p].from)' /\ NotAhead(pull[p].next)' /\ NotAhead(cursor)'
  BY <1>1, <1>2, <1>3 DEF NotAhead, Same, PageHolds, y
<1>6. y.at = "fetched" => PageOK(pull[p])'
  BY <1>1, <1>2, <1>3 DEF PageHolds, PageOK, Same, KeyOf, y
<1>7. y.at = "fetched" => IdsOK(pull[p])'
  BY <1>1, <1>2 DEF IdsOK, y
<1>8. y.full = TRUE => y.from = NoCursor
  BY <1>2, <1>3 DEF PageHolds, Same
<1>9. visible' \ raced' \subseteq y.ids
  BY <1>1, <1>2
<1>10. PageHolds(pull[p])'
  <2> USE DEF y
  <2> QED BY <1>2, <1>5, <1>6, <1>7, <1>8, <1>9 DEF PageHolds, Fetched
<1>11. Pages'
  BY <1>1, <1>5, <1>10, OtherPages DEF PullInv
<1>12. ASSUME Aligned PROVE Aligned'
  <2>1. (Usable(cursor) => Behind(cursor))'
    BY <1>1, <1>12 DEF Aligned, Usable, Behind, KeyOf
  <2>2. StartOK(pull[p])'
    <3>1. StartOK(x) /\ y.full = x.full /\ y.from = x.from
      BY <1>2, <1>12 DEF Aligned, OrderHolds, Same, x
    <3>2. CASE x.full = TRUE
      BY <1>1, <3>1, <3>2 DEF StartOK, Usable, y
    <3>3. CASE x.full # TRUE
      BY <1>1, <3>1, <3>3 DEF StartOK, Behind, KeyOf, y
    <3> QED BY <3>2, <3>3
  <2>3. OrderHolds(pull[p])'
    <3> USE DEF y
    <3> QED BY <1>2, <2>2 DEF OrderHolds
  <2>4. \A q \in Puller \ {p} : pull[q].at = "idle"
    BY <1>2, <1>12 DEF Aligned, x
  <2> QED BY <1>1, <2>1, <2>3, <2>4, OthersRest
<1> QED BY <1>1, <1>4, <1>11, <1>12 DEF PullInv

LEMMA ReadPageInv ==
  ASSUME Types, PullInv, NEW p \in Puller, ReadPage(p)
  PROVE  Types' /\ PullInv'
<1> DEFINE x == pull[p]
           y == pull'[p]
           page == PageOf(Changed(x.from), x.from)
<1>1. /\ UNCHANGED <<version, visible, horizon, local, cursor, raced, crossed>>
      /\ \A q \in Puller \ {p} : pull'[q] = pull[q]
  BY DEF ReadPage, Types, history
<1>2. PageHolds(x) /\ x.from \in Key /\ NotAhead(x.from) /\ NotAhead(cursor)
  BY DEF PullInv, Pages, PageHolds, Types, PullRecord
<1>3. /\ pull' \in [Puller -> PullRecord]
      /\ y.from = x.from /\ y.full = x.full
      /\ y.next = page.next /\ y.rows = page.rows /\ y.ids = x.ids
      /\ \/ x.at = "asking" /\ y.at = "pageRead"
         \/ x.at = "idsRead" /\ y.at = "fetched"
  BY <1>2, ReadPageTyped
<1>4. /\ NotAhead(page.next)
      /\ ~Before(page.next, x.from)
      /\ \A r \in page.rows : Before(x.from, KeyOf(r.id))
      /\ \A r \in page.rows : r.version = version[r.id]
      /\ \A w \in visible : Before(x.from, KeyOf(w)) /\ ~Before(page.next, KeyOf(w)) =>
           \E r \in page.rows : r.id = w /\ r.version = version[w]
  <2> HIDE DEF x
  <2> QED BY <1>2, PageCovers
<1> HIDE DEF x, y, page
<1>5. Types'
  BY <1>1, <1>3 DEF Types
<1>6. NotAhead(pull[p].from)' /\ NotAhead(pull[p].next)' /\ NotAhead(cursor)'
  BY <1>1, <1>2, <1>3, <1>4 DEF NotAhead, y
<1>7. PageOK(pull[p])'
  <2>1. ~Before(y.next, y.from)
    BY <1>3, <1>4
  <2>2. \A r, s \in y.rows : r.id = s.id => r.version = s.version
    BY <1>3, <1>4
  <2>3. \A r \in y.rows : Before(y.from, KeyOf(r.id)')
    BY <1>1, <1>3, <1>4 DEF KeyOf
  <2>4. \A w \in visible' : Before(y.from, KeyOf(w)') /\ ~Before(y.next, KeyOf(w)') =>
          \E r \in y.rows : r.id = w /\ r.version = version'[w]
    BY <1>1, <1>3, <1>4 DEF KeyOf
  <2> QED BY <2>1, <2>2, <2>3, <2>4 DEF PageOK, y
<1>8. y.at = "fetched" => IdsOK(pull[p])'
  <2>1. y.at = "fetched" => visible \ raced \subseteq x.ids
    BY <1>2, <1>3 DEF PageHolds
  <2> QED BY <1>1, <1>3, <2>1 DEF IdsOK, y
<1>9. y.full = TRUE => y.from = NoCursor
  BY <1>2, <1>3 DEF PageHolds
<1>10. PageHolds(pull[p])'
  <2> USE DEF y
  <2> QED BY <1>3, <1>6, <1>7, <1>8, <1>9 DEF PageHolds, Fetched
<1>11. Pages'
  BY <1>1, <1>6, <1>10, OtherPages DEF PullInv
<1>12. ASSUME Aligned PROVE Aligned'
  <2>1. (Usable(cursor) => Behind(cursor))'
    BY <1>1, <1>12 DEF Aligned, Usable, Behind, KeyOf
  <2>2. StartOK(pull[p])'
    <3>1. StartOK(x)
      BY <1>3, <1>12 DEF Aligned, OrderHolds, x
    <3>2. CASE x.full = TRUE
      BY <1>1, <1>3, <3>1, <3>2 DEF StartOK, Usable, y
    <3>3. CASE x.full # TRUE
      BY <1>1, <1>3, <3>1, <3>3 DEF StartOK, Behind, KeyOf, y
    <3> QED BY <3>2, <3>3
  <2>3. OrderHolds(pull[p])'
    <3> USE DEF y
    <3> QED BY <1>3, <2>2 DEF OrderHolds
  <2>4. \A q \in Puller \ {p} : pull[q].at = "idle"
    BY <1>3, <1>12 DEF Aligned, x
  <2> QED BY <1>1, <2>1, <2>3, <2>4, OthersRest
<1> QED BY <1>1, <1>5, <1>11, <1>12 DEF PullInv

LEMMA WipeTablesInv ==
  ASSUME Types, PullInv, NEW p \in Puller, WipeTables(p)
  PROVE  Types' /\ PullInv'
<1> DEFINE x == pull[p]
           y == pull'[p]
<1>1. /\ UNCHANGED <<version, visible, horizon, cursor, raced, crossed>> /\ x.at = "fetched"
      /\ local' = [w \in WorkOrder |-> Absent] /\ Goto(p, "wiping")
      /\ \A q \in Puller \ {p} : pull'[q] = pull[q]
  BY DEF WipeTables, Goto, Types, history
<1>2. x.full = TRUE
  <2>1. x.full
    BY DEF WipeTables
  <2>2. x.full \in BOOLEAN
    BY DEF Types, PullRecord
  <2> QED BY <2>1, <2>2
<1>3. pull' \in [Puller -> PullRecord] /\ y.at = "wiping" /\ Same(x, y)
  BY <1>1, GotoTyped
<1>4. local' \in [WorkOrder -> Nat]
  BY <1>1 DEF Absent
<1>5. Types'
  BY <1>1, <1>3, <1>4 DEF Types
<1>6. NotAhead(cursor)'
  BY <1>1 DEF PullInv, Pages, NotAhead
<1>7. Pages'
  <2>1. x.at \in Fetched
    BY <1>1 DEF Fetched
  <2> QED BY <1>1, <1>2, <1>6, <2>1, GotoPages DEF PullInv
<1>8. ASSUME Aligned PROVE Aligned'
  <2>1. ~Usable(cursor)
    BY <1>1, <1>2, <1>8 DEF Aligned, OrderHolds, StartOK
  <2>2. ~Usable(cursor)'
    BY <1>1, <2>1 DEF Usable
  <2>3. OrderHolds(pull[p])'
    BY <1>2, <1>3, <2>2 DEF OrderHolds, StartOK, Same
  <2>4. \A q \in Puller \ {p} : pull[q].at = "idle"
    BY <1>1, <1>8 DEF Aligned
  <2> HIDE DEF x, y
  <2> QED BY <1>1, <2>2, <2>3, <2>4, OthersRest
<1> QED BY <1>1, <1>5, <1>7, <1>8 DEF PullInv

(* A full resync that nobody crosses starts from scratch, whatever crossed before. *)
LEMMA WipeCursorInv ==
  ASSUME Types, PullInv, NEW p \in Puller, WipeCursor(p)
  PROVE  Types' /\ PullInv'
<1> DEFINE x == pull[p]
           y == pull'[p]
<1>1. /\ UNCHANGED <<version, visible, horizon, local, raced>> /\ x.at = "wiping" /\ cursor' = NoCursor
      /\ Goto(p, "upserting") /\ \A q \in Puller \ {p} : pull'[q] = pull[q]
  BY DEF WipeCursor, Goto, Types
<1>2. /\ crossed' \in BOOLEAN
      /\ crossed' = FALSE => crossed = FALSE \/ \A q \in Puller \ {p} : pull[q].at = "idle"
  BY Zenon DEF WipeCursor, Types, Others
<1>3. pull' \in [Puller -> PullRecord] /\ y.at = "upserting" /\ Same(x, y)
  BY <1>1, GotoTyped
<1>4. PageHolds(x) /\ x.full = TRUE /\ x.at \in Fetched
  BY <1>1 DEF PullInv, Pages, PageHolds, Fetched
<1>5. NoCursor \in Key /\ NotAhead(NoCursor) /\ ~Usable(NoCursor)
  BY NoCursorIsFirst
<1>6. Types'
  BY <1>1, <1>2, <1>3, <1>5 DEF Types
<1>7. NotAhead(cursor)' /\ ~Usable(cursor)'
  BY <1>1, <1>5 DEF NotAhead, Usable
<1>8. Pages'
  BY <1>1, <1>4, <1>7, GotoPages DEF PullInv
<1>9. ASSUME \A q \in Puller \ {p} : pull[q].at = "idle" PROVE Aligned'
  <2>1. OrderHolds(pull[p])'
    BY <1>1, <1>3, <1>4, <1>7 DEF OrderHolds, StartOK, Same
  <2> HIDE DEF x, y
  <2> QED BY <1>1, <1>7, <1>9, <2>1, OthersRest
<1>10. Aligned => \A q \in Puller \ {p} : pull[q].at = "idle"
  BY <1>1 DEF Aligned
<1> QED BY <1>2, <1>6, <1>8, <1>9, <1>10 DEF PullInv

(* The rows after the cursor arrive, and those it had passed are not touched. *)
LEMMA UpsertInv ==
  ASSUME Types, PullInv, NEW p \in Puller, Upsert(p)
  PROVE  Types' /\ PullInv'
<1> DEFINE x == pull[p]
           y == pull'[p]
<1>1. /\ UNCHANGED <<version, visible, horizon, cursor, raced, crossed>>
      /\ x.at = "upserting" \/ (x.at = "fetched" /\ x.full # TRUE)
      /\ Goto(p, "deleting") /\ \A q \in Puller \ {p} : pull'[q] = pull[q]
  <2>1. x.full \in BOOLEAN
    BY DEF Types, PullRecord
  <2> QED BY <2>1 DEF Upsert, Goto, Types, history
<1>2. pull' \in [Puller -> PullRecord] /\ y.at = "deleting" /\ Same(x, y)
  BY <1>1, GotoTyped
<1>3. PageHolds(x) /\ PageOK(x) /\ x.at \in Fetched
  BY <1>1 DEF PullInv, Pages, PageHolds, Fetched
<1>4. x.from \in Key /\ x.next \in Key /\ x.rows \subseteq [id: WorkOrder, version: Nat]
  BY DEF Types, PullRecord
<1>5. /\ local' \in [WorkOrder -> Nat]
      /\ \A r \in x.rows : local'[r.id] = r.version
      /\ \A w \in WorkOrder : (\A r \in x.rows : r.id # w) => local'[w] = local[w]
  <2>1. \A r, s \in pull[p].rows : r.id = s.id => r.version = s.version
    BY <1>3 DEF PageOK
  <2> QED BY <2>1, UpsertTyped
<1>6. Types'
  BY <1>1, <1>2, <1>5 DEF Types
<1>7. NotAhead(cursor)'
  BY <1>1 DEF PullInv, Pages, NotAhead
<1>8. Pages'
  BY <1>1, <1>3, <1>7, GotoPages DEF PullInv
<1>9. ASSUME Aligned PROVE Aligned'
  <2>1. OrderHolds(x) /\ StartOK(x)
    BY <1>1, <1>9 DEF Aligned, OrderHolds
  <2>2. \A q \in Puller \ {p} : pull[q].at = "idle"
    BY <1>1, <1>9 DEF Aligned
  <2> HIDE DEF x, y
  <2>3. x.full = TRUE => x.from = NoCursor
    BY <1>1, <1>3 DEF PageHolds
  <2>4. ASSUME NEW w \in visible \ raced, ~Before(x.from, KeyOf(w))
        PROVE  x.full # TRUE /\ Behind(cursor) /\ x.from = cursor /\ local'[w] = version[w]
    <3>1. w \in WorkOrder
      BY DEF Types
    <3>2. x.full # TRUE
      BY <2>3, <2>4, <3>1, KeysTyped
    <3>3. x.from = cursor /\ Behind(cursor)
      BY <2>1, <3>2 DEF StartOK
    <3>4. \A r \in x.rows : r.id # w
      BY <1>3, <2>4 DEF PageOK
    <3> QED BY <1>5, <2>4, <3>1, <3>2, <3>3, <3>4 DEF Behind
  <2>5. Behind(x.next)'
    <3> SUFFICES ASSUME NEW w \in visible \ raced, ~Before(x.next, KeyOf(w)) PROVE local'[w] = version[w]
      BY <1>1, <1>2 DEF Behind, KeyOf, Same, x, y
    <3>1. CASE Before(x.from, KeyOf(w))
      BY <1>3, <1>5, <3>1 DEF PageOK
    <3>2. CASE ~Before(x.from, KeyOf(w))
      BY <2>4, <3>2
    <3> QED BY <3>1, <3>2
  <2>6. x.full # TRUE => Behind(cursor)'
    <3> SUFFICES ASSUME x.full # TRUE, NEW w \in visible \ raced, ~Before(cursor, KeyOf(w))
                 PROVE  local'[w] = version[w]
      BY <1>1 DEF Behind, KeyOf
    <3>1. x.from = cursor
      BY <2>1 DEF StartOK
    <3> QED BY <2>4, <3>1
  <2>7. x.full = TRUE => cursor = NoCursor
    BY <1>1, <2>1 DEF OrderHolds
  <2>8. (Usable(cursor) => Behind(cursor))'
    <3>1. CASE x.full = TRUE
      BY <1>1, <2>7, <3>1, NoCursorIsFirst DEF Usable
    <3>2. CASE x.full # TRUE
      BY <2>6, <3>2
    <3> QED BY <3>1, <3>2
  <2>9. StartOK(pull[p])'
    <3>1. CASE x.full = TRUE
      BY <1>1, <1>2, <2>1, <3>1 DEF StartOK, Usable, Same, y
    <3>2. CASE x.full # TRUE
      BY <1>1, <1>2, <2>1, <2>6, <3>2 DEF StartOK, Same, y
    <3> QED BY <3>1, <3>2
  <2>10. Behind(pull[p].next)'
    BY <1>2, <2>5 DEF Same, Behind, y, x
  <2>11. OrderHolds(pull[p])'
    <3> USE DEF x, y
    <3> QED BY <1>1, <1>2, <2>7, <2>9, <2>10 DEF OrderHolds, Same
  <2> QED BY <1>1, <2>2, <2>8, <2>11, OthersRest
<1> QED BY <1>1, <1>6, <1>8, <1>9 DEF PullInv

(* The deletion spares what the next cursor has passed: the ids were read with the rows. *)
LEMMA DeleteGoneInv ==
  ASSUME Types, PullInv, NEW p \in Puller, DeleteGone(p)
  PROVE  Types' /\ PullInv'
<1> DEFINE x == pull[p]
           y == pull'[p]
<1>1. /\ UNCHANGED <<version, visible, horizon, cursor, raced, crossed>> /\ x.at = "deleting"
      /\ local' = [w \in WorkOrder |-> IF w \in x.ids THEN local[w] ELSE Absent]
      /\ Goto(p, "storing") /\ \A q \in Puller \ {p} : pull'[q] = pull[q]
  BY DEF DeleteGone, Goto, Types, history
<1>2. pull' \in [Puller -> PullRecord] /\ y.at = "storing" /\ Same(x, y)
  BY <1>1, GotoTyped
<1>3. PageHolds(x) /\ PageOK(x) /\ IdsOK(x) /\ x.at \in Fetched
  BY <1>1 DEF PullInv, Pages, PageHolds, Fetched
<1>4. x.from \in Key /\ x.next \in Key
  BY DEF Types, PullRecord
<1>5. local' \in [WorkOrder -> Nat]
  BY <1>1 DEF Absent, Types
<1>6. Types'
  BY <1>1, <1>2, <1>5 DEF Types
<1>7. NotAhead(cursor)'
  BY <1>1 DEF PullInv, Pages, NotAhead
<1>8. Pages'
  BY <1>1, <1>3, <1>7, GotoPages DEF PullInv
<1>9. ASSUME Aligned PROVE Aligned'
  <2>1. OrderHolds(x) /\ StartOK(x) /\ Behind(x.next)
    BY <1>1, <1>9 DEF Aligned, OrderHolds
  <2>2. \A q \in Puller \ {p} : pull[q].at = "idle"
    BY <1>1, <1>9 DEF Aligned
  <2> HIDE DEF x, y
  <2>3. ASSUME NEW w \in visible \ raced, ~Before(x.next, KeyOf(w)) PROVE local'[w] = local[w]
    BY <1>1, <1>3, <2>3 DEF IdsOK, Types
  <2>4. Behind(x.next)'
    BY <1>1, <1>2, <2>1, <2>3 DEF Behind, KeyOf, Same, x, y
  <2>5. x.full # TRUE => Behind(cursor)'
    <3> SUFFICES ASSUME x.full # TRUE, NEW w \in visible \ raced, ~Before(cursor, KeyOf(w))
                 PROVE  local'[w] = version[w]
      BY <1>1 DEF Behind, KeyOf
    <3>1. x.from = cursor /\ Behind(cursor)
      BY <2>1 DEF StartOK
    <3>2. ~Before(x.next, KeyOf(w))
      BY <1>3, <1>4, <3>1, KeysTyped, Order DEF PageOK, Types
    <3> QED BY <2>3, <3>1, <3>2 DEF Behind
  <2>6. x.full = TRUE => cursor = NoCursor
    BY <1>1, <2>1 DEF OrderHolds
  <2>7. (Usable(cursor) => Behind(cursor))'
    <3>1. CASE x.full = TRUE
      BY <1>1, <2>6, <3>1, NoCursorIsFirst DEF Usable
    <3>2. CASE x.full # TRUE
      BY <2>5, <3>2
    <3> QED BY <3>1, <3>2
  <2>8. StartOK(pull[p])'
    <3>1. CASE x.full = TRUE
      BY <1>1, <1>2, <2>1, <3>1 DEF StartOK, Usable, Same, y
    <3>2. CASE x.full # TRUE
      BY <1>1, <1>2, <2>1, <2>5, <3>2 DEF StartOK, Same, y
    <3> QED BY <3>1, <3>2
  <2>9. Behind(pull[p].next)'
    BY <1>2, <2>4 DEF Same, Behind, y, x
  <2>10. OrderHolds(pull[p])'
    <3> USE DEF x, y
    <3> QED BY <1>1, <1>2, <2>6, <2>8, <2>9 DEF OrderHolds, Same
  <2> QED BY <1>1, <2>2, <2>7, <2>10, OthersRest
<1> QED BY <1>1, <1>6, <1>8, <1>9 DEF PullInv

(* The cursor moves to where the page ends, and the next request starts from there. *)
LEMMA StoreCursorInv ==
  ASSUME Types, PullInv, NEW p \in Puller, StoreCursor(p)
  PROVE  Types' /\ PullInv'
<1> DEFINE x == pull[p]
           y == pull'[p]
           n == pull[p].pages + 1
<1>1. /\ UNCHANGED <<version, visible, horizon, local, raced, crossed>> /\ x.at = "storing"
      /\ cursor' = IF x.next = NoCursor THEN cursor ELSE x.next
      /\ \/ pull' = [pull EXCEPT ![p] = Asking(x.next, n)]
         \/ pull' = [pull EXCEPT ![p] = Idle]
  BY DEF StoreCursor, history
<1>2. x.from \in Key /\ x.next \in Key /\ n \in Int /\ cursor \in Key
  BY DEF Types, PullRecord
<1>3. PageHolds(x) /\ PageOK(x) /\ NotAhead(x.next) /\ NotAhead(cursor)
  BY <1>1 DEF PullInv, Pages, PageHolds, Fetched
<1> DEFINE z == Asking(x.next, n)
<1>4. /\ z \in PullRecord /\ z.at = "asking" /\ z.next = NoCursor
      /\ Usable(x.next) => z.full = FALSE /\ z.from = x.next
      /\ ~Usable(x.next) => z.full = TRUE /\ z.from = NoCursor
  <2> HIDE DEF x, n
  <2> QED BY <1>2, AskingTyped, Zenon
<1>5. /\ pull' \in [Puller -> PullRecord]
      /\ y = z \/ y = Idle
      /\ \A q \in Puller \ {p} : pull'[q] = pull[q]
  <2> HIDE DEF x, n, z
  <2>1. CASE pull' = [pull EXCEPT ![p] = z]
    BY <1>4, <2>1, PullTyped
  <2>2. CASE pull' = [pull EXCEPT ![p] = Idle]
    BY <2>2, IdleTyped, PullTyped
  <2> QED BY <1>1, <2>1, <2>2 DEF z
<1>6. Aligned => /\ OrderHolds(x) /\ StartOK(x) /\ Behind(x.next)
                 /\ \A q \in Puller \ {p} : pull[q].at = "idle"
  BY <1>1 DEF Aligned, OrderHolds
<1> HIDE DEF x, y, n, z
<1>7. Types'
  BY <1>1, <1>2, <1>5 DEF Types
<1>8. NotAhead(cursor)'
  BY <1>1, <1>3 DEF NotAhead
<1>9. NotAhead(NoCursor)
  BY NoCursorIsFirst
<1>10. \/ /\ y.at = "idle" /\ y.from = NoCursor /\ y.next = NoCursor
       \/ /\ y.at = "asking" /\ y.next = NoCursor
          /\ Usable(x.next) => y.full = FALSE /\ y.from = x.next
          /\ ~Usable(x.next) => y.full = TRUE /\ y.from = NoCursor
  <2>1. CASE y = Idle
    BY <2>1, IdleTyped
  <2>2. CASE y = z
    BY <1>4, <2>2, Zenon
  <2> QED BY <1>5, <2>1, <2>2
<1>11. NotAhead(pull[p].from)' /\ NotAhead(pull[p].next)'
  <2>1. NotAhead(y.from) /\ NotAhead(y.next)
    BY <1>3, <1>9, <1>10, Zenon
  <2> QED BY <1>1, <2>1 DEF NotAhead, y
<1>12. PageHolds(pull[p])'
  <2>1. y.at # "idle" /\ y.full = TRUE => y.from = NoCursor
    BY <1>10
  <2> USE DEF y
  <2> QED BY <1>10, <1>11, <2>1 DEF PageHolds, Fetched
<1>13. Pages'
  BY <1>1, <1>5, <1>8, <1>12, OtherPages DEF PullInv
<1>14. ASSUME Aligned PROVE Aligned'
  <2>1. (Usable(cursor) => Behind(cursor))'
    <3>1. CASE x.next = NoCursor
      BY <1>1, <1>14, <3>1 DEF Aligned, Usable, Behind, KeyOf
    <3>2. CASE x.next # NoCursor
      BY <1>1, <1>6, <1>14, <3>2 DEF Behind, KeyOf
    <3> QED BY <3>1, <3>2
  <2>2. Usable(x.next) => cursor' = x.next /\ cursor' # NoCursor /\ Behind(cursor)'
    <3> SUFFICES ASSUME Usable(x.next) PROVE cursor' = x.next /\ cursor' # NoCursor /\ Behind(cursor)'
      OBVIOUS
    <3>1. cursor' = x.next /\ cursor' # NoCursor
      BY <1>1 DEF Usable
    <3> QED BY <1>1, <1>6, <1>14, <3>1 DEF Behind, KeyOf
  <2>3. ~Usable(x.next) => ~Usable(cursor)'
    <3>1. CASE x.next # NoCursor
      BY <1>1, <3>1 DEF Usable
    <3>2. CASE x.next = NoCursor
      <4>1. cursor = NoCursor
        <5>1. CASE x.full = TRUE
          BY <1>1, <1>6, <1>14, <5>1 DEF OrderHolds
        <5>2. CASE x.full # TRUE
          <6>1. x.from = cursor /\ cursor # NoCursor /\ ~Before(x.next, x.from)
            BY <1>3, <1>6, <1>14, <5>2 DEF StartOK, PageOK
          <6> QED BY <1>2, <3>2, <6>1, NoCursorIsFirst
        <5> QED BY <5>1, <5>2
      <4> QED BY <1>1, <3>2, <4>1 DEF Usable
    <3> QED BY <3>1, <3>2
  <2>4. y.at # "idle" => StartOK(pull[p])'
    <3>1. CASE Usable(x.next)
      BY <1>10, <2>2, <3>1 DEF StartOK, y
    <3>2. CASE ~Usable(x.next)
      BY <1>10, <2>3, <3>2 DEF StartOK, y
    <3> QED BY <3>1, <3>2
  <2>5. OrderHolds(pull[p])'
    <3> USE DEF y
    <3> QED BY <1>10, <2>4 DEF OrderHolds
  <2> QED BY <1>5, <1>6, <1>14, <2>1, <2>5, OthersRest
<1> QED BY <1>1, <1>7, <1>13, <1>14 DEF PullInv

-----------------------------------------------------------------------------
LEMMA StepPullInv ==
  ASSUME Types, PullInv, [Next]_vars
  PROVE  Types' /\ PullInv'
<1>1. ASSUME NEW S \in SUBSET WorkOrder, NEW in \in SUBSET S, Change(S, in) PROVE Types' /\ PullInv'
  <2>1. Types' /\ Pages' /\ (Aligned => Aligned') /\ crossed' = crossed
    BY <1>1, ChangeTyped, ChangePages, ChangeAligned DEF PullInv, Change
  <2> QED BY <2>1 DEF PullInv
<1>2. CASE GrowOld
  BY <1>2, GrowOldInv
<1>3. ASSUME NEW p \in Puller, PullStep(p) \/ Abort(p) PROVE Types' /\ PullInv'
  BY <1>3, StartPullInv, ReadIdsInv, ReadPageInv, WipeTablesInv, WipeCursorInv, UpsertInv,
     DeleteGoneInv, StoreCursorInv, AbortInv DEF PullStep
<1>4. CASE UNCHANGED vars
  BY <1>4 DEF vars, history, Types, PullInv, Pages, Aligned, PageHolds, OrderHolds, PageOK, StartOK, IdsOK,
              NotAhead, Behind, Usable, KeyOf
<1> QED BY <1>1, <1>2, <1>3, <1>4 DEF Next

(* Whatever changes between any two steps, also between the two queries of a pull, whatever is      *)
(* interrupted and however many pulls are at work: between pulls the phone has the current version  *)
(* of every visible row the stored cursor has passed, so that no later pull has to bring it.  Only  *)
(* the rows that came into view between a pull's reading the ids and its reading the page may be    *)
(* missing, until they change again; and where two pulls overlapped, until a full resync made alone. *)
THEOREM NothingIsSkipped == Spec => []NothingBehindCursor
<1>1. Init => Types /\ PullInv
  BY InitTyped, InitPullInv
<1>2. Types /\ PullInv /\ [Next]_vars => Types' /\ PullInv'
  BY StepPullInv
<1>3. Types /\ PullInv => NothingBehindCursor
  BY DEF Types, PullInv, Aligned, NothingBehindCursor, Behind
<1> QED BY <1>1, <1>2, <1>3, PTL DEF Spec
=============================================================================
