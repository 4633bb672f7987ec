------------------------ MODULE PaperConnectorProofs ------------------------
(***************************************************************************)
(* Proofs of what the paper venue promises: that its positions are the net *)
(* of its fills, and what FlattenAll leaves, for any symbols, callers,     *)
(* sizes and number of fills.                                              *)
(***************************************************************************)
EXTENDS PaperConnector, SumProofs, SequenceTheorems

(* What FlattenAll has on its way: only while it runs, one placement at a  *)
(* time (as for every goroutine), and for exactly the quantity it still    *)
(* has to close.                                                           *)
OnePlacementEach == \A p, q \in pending : p.by = q.by => p = q
ClosingPlacements ==
  \A p \in pending : p.by = Flattener => flatten = "closing" /\ p.qty = -toClose[p.sym]

PaperIInv == PaperTypeOK /\ OnePlacementEach /\ ClosingPlacements /\ FlattenAccounts

----------------------------------------------------------------------------
(* Filling a pending placement records a well-formed order, moves one      *)
(* position by its quantity and takes the placement off.                   *)
LEMMA FillMoves ==
  ASSUME PaperIInv, NEW p \in pending, Fill(p)
  PROVE  /\ p \in Placement
         /\ orders' \in Seq(Order)
         /\ positions' \in [Symbols -> Int]
         /\ positions'[p.sym] = positions[p.sym] + p.qty
         /\ \A s \in Symbols \ {p.sym} : positions'[s] = positions[s]
         /\ pending' \in SUBSET Placement /\ pending' = pending \ {p}
<1> USE DEF PaperIInv, PaperTypeOK, Fill
<1>1. p \in Placement
  OBVIOUS
<1>2. FilledOrder(p) \in Order
  BY <1>1 DEF FilledOrder, Placement, Order
<1>3. orders' \in Seq(Order)
  BY <1>2
<1>4. p.sym \in Symbols /\ p.qty \in Int
  BY <1>1 DEF Placement
<1> QED BY <1>1, <1>3, <1>4

(* A placement past its book fetch is well-formed and the only one of its  *)
(* caller.                                                                 *)
LEMMA PlaceBookAdds ==
  ASSUME PaperIInv, NEW c \in Callers \cup {Flattener}, NEW s \in Symbols,
         NEW q \in Int \ {0}, NEW ro \in BOOLEAN, PlaceBook(c, s, q, ro)
  PROVE  pending' \in SUBSET Placement /\ OnePlacementEach'
<1> USE DEF PaperIInv, PaperTypeOK, PlaceBook
<1>1. [by |-> c, sym |-> s, qty |-> q, reduceOnly |-> ro] \in Placement
  BY DEF Placement
<1>2. OnePlacementEach'
  BY DEF OnePlacementEach, Busy
<1> QED BY <1>1, <1>2

(* Marking an order canceled leaves a well-formed order.                   *)
LEMMA CanceledIsOrder ==
  ASSUME NEW o \in Order
  PROVE  [o EXCEPT !.state = "canceled"] \in Order
  BY DEF Order

(* Cancelling what still works leaves as many orders, all well-formed.     *)
LEMMA CancelledOrders ==
  ASSUME orders \in Seq(Order), CancelWorking
  PROVE  orders' \in Seq(Order) /\ Len(orders') = Len(orders)
<1>1. ASSUME NEW i \in 1..Len(orders) PROVE orders'[i] \in Order
  <2>1. orders[i] \in Order /\ i \in DOMAIN orders
    BY ElementOfSeq, LenProperties
  <2>2. [orders[i] EXCEPT !.state = "canceled"] \in Order
    BY <2>1, CanceledIsOrder
  <2> QED BY <2>1, <2>2 DEF CancelWorking
<1>2. DOMAIN orders' = 1..Len(orders) /\ Len(orders) \in Nat
  BY LenProperties DEF CancelWorking
<1>3. orders' = [i \in 1..Len(orders) |-> orders'[i]]
  BY <1>2 DEF CancelWorking
<1>4. orders' \in [1..Len(orders) -> Order]
  BY <1>1, <1>3
<1>5. orders' \in Seq(Order)
  BY <1>2, <1>4, SeqDef
<1> QED BY <1>2, <1>5, LenProperties

(* Nothing is open or pending at the start.                                *)
LEMMA InitPaperIInv == PaperInit => PaperIInv
  BY DEF PaperInit, PaperIInv, PaperTypeOK, NoneOpen, OnePlacementEach, ClosingPlacements,
         FlattenAccounts

(* No placement, cancel or step of FlattenAll breaks the invariant.        *)
LEMMA NextPaperIInv == PaperIInv /\ [PaperNext]_paperVars => PaperIInv'
<1> SUFFICES ASSUME PaperIInv, [PaperNext]_paperVars PROVE PaperIInv'
  OBVIOUS
<1> USE PaperAssumption DEF PaperIInv
<1>1. ASSUME NEW c \in Callers, CallerBook(c) PROVE PaperIInv'
  <2>1. PICK s \in Symbols, q \in Qtys, ro \in BOOLEAN : PlaceBook(c, s, q, ro)
    BY <1>1 DEF CallerBook
  <2>2. pending' \in SUBSET Placement /\ OnePlacementEach'
    BY <2>1, PlaceBookAdds
  <2>3. PaperTypeOK'
    BY <1>1, <2>1, <2>2 DEF CallerBook, PlaceBook, PaperTypeOK
  <2>4. ClosingPlacements' /\ FlattenAccounts'
    BY <1>1, <2>1 DEF CallerBook, PlaceBook, ClosingPlacements, FlattenAccounts
  <2> QED BY <2>2, <2>3, <2>4
<1>2. ASSUME NEW c \in Callers, PlaceFill(c) PROVE PaperIInv'
  <2>1. PICK p \in pending : p.by = c /\ Fill(p)
            /\ others' = IF flatten = "closing" THEN [others EXCEPT ![p.sym] = @ + p.qty]
                         ELSE others
    BY <1>2 DEF PlaceFill
  <2>2. UNCHANGED <<flatten, toClose>>
    BY <1>2 DEF PlaceFill
  <2>3. p.sym \in Symbols /\ p.qty \in Int
    BY <2>1, FillMoves DEF Placement
  <2>4. others' \in [Symbols -> Int]
    BY <2>1, <2>3 DEF PaperTypeOK
  <2>5. PaperTypeOK'
    BY <2>1, <2>2, <2>4, FillMoves DEF PaperTypeOK
  <2>6. OnePlacementEach' /\ ClosingPlacements'
    BY <2>1, <2>2, FillMoves DEF OnePlacementEach, ClosingPlacements
  <2>7. FlattenAccounts'
    <3> SUFFICES ASSUME flatten = "closing", NEW s \in Symbols
                 PROVE  positions'[s] = toClose[s] + others'[s]
      BY <2>2 DEF FlattenAccounts
    <3>1. /\ positions[s] = toClose[s] + others[s]
          /\ positions[s] \in Int /\ toClose[s] \in Int /\ others[s] \in Int
      BY DEF FlattenAccounts, PaperTypeOK
    <3>2. others'[s] = IF s = p.sym THEN others[s] + p.qty ELSE others[s]
      BY <2>1, <2>3 DEF PaperTypeOK
    <3>3. positions'[s] = IF s = p.sym THEN positions[s] + p.qty ELSE positions[s]
      BY <2>1, FillMoves
    <3> QED BY <2>3, <3>1, <3>2, <3>3
  <2> QED BY <2>5, <2>6, <2>7
<1>3. CASE CallerCancel
  <2>1. PICK i \in DOMAIN orders : CancelOrder(i)
    BY <1>3 DEF CallerCancel
  <2>2. [orders[i] EXCEPT !.state = "canceled"] \in Order
    BY CanceledIsOrder, ElementOfSeq, LenProperties DEF PaperTypeOK
  <2>3. orders' \in Seq(Order)
    BY <2>1, <2>2, ExceptSeq DEF CancelOrder, PaperTypeOK
  <2> QED BY <2>1, <2>3
          DEF CancelOrder, PaperTypeOK, OnePlacementEach, ClosingPlacements, FlattenAccounts
<1>4. CASE CancelAll
  BY <1>4, CancelledOrders
  DEF CancelAll, PaperTypeOK, OnePlacementEach, ClosingPlacements, FlattenAccounts
<1>5. CASE FlattenStart
  BY <1>5
  DEF FlattenStart, FlattenCopy, FlattenRefused, FlattenStops, NoneOpen, PaperTypeOK,
      OnePlacementEach, ClosingPlacements, FlattenAccounts
<1>6. ASSUME NEW s \in Symbols, FlattenBook(s) PROVE PaperIInv'
  <2>1. toClose[s] \in Int \ {0} /\ -toClose[s] \in Int \ {0}
    BY <1>6 DEF FlattenBook, PaperTypeOK
  <2>2. pending' \in SUBSET Placement /\ OnePlacementEach'
    BY <1>6, <2>1, PlaceBookAdds DEF FlattenBook
  <2>3. PaperTypeOK'
    BY <1>6, <2>2 DEF FlattenBook, PlaceBook, PaperTypeOK
  <2>4. ClosingPlacements' /\ FlattenAccounts'
    BY <1>6 DEF FlattenBook, PlaceBook, ClosingPlacements, FlattenAccounts
  <2> QED BY <2>2, <2>3, <2>4
<1>7. ASSUME NEW s \in Symbols, NEW err \in BOOLEAN, FlattenClose(s, err) PROVE PaperIInv'
  <2>1. PICK p \in pending : p.by = Flattener /\ p.sym = s /\ Fill(p)
    BY <1>7 DEF FlattenClose
  <2>2. p.qty = -toClose[s] /\ flatten = "closing"
    BY <2>1 DEF ClosingPlacements
  <2>3. OnePlacementEach' /\ \A q \in pending' : q.by # Flattener
    BY <2>1, FillMoves DEF OnePlacementEach
  <2>4. ClosingPlacements'
    BY <2>3 DEF ClosingPlacements
  <2>5. CASE err
    BY <1>7, <2>1, <2>3, <2>4, <2>5, FillMoves
    DEF FlattenClose, FlattenStops, NoneOpen, PaperTypeOK, FlattenAccounts
  <2>6. CASE ~err
    <3>1. toClose' = [toClose EXCEPT ![s] = 0] /\ UNCHANGED <<flatten, others>>
      BY <1>7, <2>6 DEF FlattenClose
    <3>2. PaperTypeOK'
      BY <2>1, <3>1, FillMoves DEF PaperTypeOK
    <3>3. FlattenAccounts'
      BY <2>1, <2>2, <3>1, FillMoves DEF FlattenAccounts, PaperTypeOK
    <3> QED BY <2>3, <2>4, <3>2, <3>3
  <2> QED BY <2>5, <2>6
<1>8. CASE FlattenFails
  BY <1>8
  DEF FlattenFails, FlattenStops, NoneOpen, Busy, PaperTypeOK, OnePlacementEach,
      ClosingPlacements, FlattenAccounts
<1>9. CASE FlattenReturns
  <2>1. \A p \in pending : p.by # Flattener
    BY <1>9 DEF FlattenReturns, NoneOpen, ClosingPlacements, PaperTypeOK, Placement
  <2> QED BY <1>9, <2>1
          DEF FlattenReturns, FlattenStops, NoneOpen, PaperTypeOK, OnePlacementEach,
              ClosingPlacements, FlattenAccounts
<1>10. CASE UNCHANGED paperVars
  BY <1>10 DEF paperVars, PaperTypeOK, OnePlacementEach, ClosingPlacements, FlattenAccounts
<1> QED
  BY <1>1, <1>2, <1>3, <1>4, <1>5, <1>6, <1>7, <1>8, <1>9, <1>10 DEF PaperNext, FlattenStep
----------------------------------------------------------------------------
(* The inductive invariant holds throughout every behaviour.               *)
LEMMA PaperInvariant == PaperSafety => []PaperIInv
  BY InitPaperIInv, NextPaperIInv, PTL DEF PaperSafety

(* Every variable keeps its type.                                          *)
THEOREM PaperTypeCorrect == PaperSafety => []PaperTypeOK
<1>1. PaperIInv => PaperTypeOK
  BY DEF PaperIInv
<1> QED BY <1>1, PaperInvariant, PTL

(* Whatever is filled while FlattenAll runs, each position is what it has  *)
(* still to close plus what the others filled.                             *)
THEOREM FlattenKeepsAccount == PaperSafety => []FlattenAccounts
<1>1. PaperIInv => FlattenAccounts
  BY DEF PaperIInv
<1> QED BY <1>1, PaperInvariant, PTL

(* Only FlattenReturns ends a flatten without error, with nothing left to  *)
(* close.                                                                  *)
LEMMA DoneIsClosed ==
  ASSUME PaperIInv, [PaperNext]_paperVars, flatten = "closing", flatten' = "done"
  PROVE  positions = others
<1>1. FlattenReturns
  BY DEF PaperNext, paperVars, CallerBook, PlaceFill, CallerCancel, CancelOrder, CancelAll,
         FlattenStart, FlattenStep, FlattenBook, FlattenClose, FlattenFails, FlattenStops
<1>2. \A s \in Symbols : positions[s] = others[s]
  BY <1>1 DEF FlattenReturns, NoneOpen, PaperIInv, PaperTypeOK, FlattenAccounts
<1> QED BY <1>2 DEF PaperIInv, PaperTypeOK

(* A FlattenAll that returns without error leaves what others filled after *)
(* its copy, and nothing else.                                             *)
THEOREM FlattenClosesItsCopy == PaperSafety => FlattenLeavesOnlyLaterFills
<1>1. PaperIInv /\ [PaperNext]_paperVars =>
        [flatten = "closing" /\ flatten' = "done" => positions = others]_paperVars
  BY DoneIsClosed
<1> QED BY <1>1, PaperInvariant, PTL DEF PaperSafety, FlattenLeavesOnlyLaterFills

----------------------------------------------------------------------------
(* The positions and the orders.  An order filled adds its quantity to the *)
(* net of its symbol.                                                      *)
LEMMA FillAddsToNet ==
  ASSUME orders \in Seq(Order), NEW o \in Order, orders' = Append(orders, o), NEW s \in Symbols
  PROVE  /\ NetFilled(s) \in Int
         /\ NetFilled(s)' = NetFilled(s) + IF o.sym = s THEN o.qty ELSE 0
<1> DEFINE new == Len(orders) + 1
           before == [i \in {j \in DOMAIN orders : orders[j].sym = s} |-> orders[i].qty]
           after == [i \in {j \in DOMAIN orders' : orders'[j].sym = s} |-> orders'[i].qty]
<1>1. /\ DOMAIN orders = 1..Len(orders) /\ Len(orders) \in Nat /\ DOMAIN orders' = 1..new
      /\ orders'[new] = o /\ \A i \in 1..Len(orders) : orders'[i] = orders[i]
  BY AppendProperties, LenProperties
<1>2. IsFiniteSet(DOMAIN before)
  <2>1. IsFiniteSet(DOMAIN orders)
    BY LenProperties, FS_Interval
  <2> QED BY <2>1, FS_Subset
<1>3. \A i \in 1..Len(orders) : orders[i].qty \in Int
  <2>1. \A i \in 1..Len(orders) : orders[i] \in Order
    BY ElementOfSeq
  <2> QED BY <2>1 DEF Order
<1>4. o.qty \in Int
  BY DEF Order
<1>5. NetFilled(s) = SumFunction(before) /\ NetFilled(s)' = SumFunction(after)
  BY DEF NetFilled
<1>6. SumFunction(before) \in Int
  BY <1>1, <1>2, <1>3, TotalIsInt
<1>7. \A i \in DOMAIN before : after[i] = before[i]
  BY <1>1
<1>8. \A i \in DOMAIN after : after[i] \in Int
  BY <1>1, <1>3, <1>4
<1>9. CASE o.sym = s
  <2>1. DOMAIN after = DOMAIN before \cup {new} /\ new \notin DOMAIN before /\ after[new] = o.qty
    BY <1>1, <1>9
  <2>2. SumFunction(after) = SumFunction(before) + after[new]
    <3> HIDE DEF before, after, new
    <3> QED BY <1>2, <1>7, <1>8, <2>1, TotalAddsOne
  <2> QED BY <1>5, <1>6, <1>9, <2>1, <2>2
<1>10. CASE o.sym # s
  <2>1. DOMAIN after = DOMAIN before
    BY <1>1, <1>10
  <2>2. SumFunction(after) = SumFunction(before)
    <3> HIDE DEF before, after
    <3> QED BY <1>2, <1>7, <2>1, TotalOfEqual
  <2>3. NetFilled(s) \in Int /\ NetFilled(s)' = NetFilled(s)
    BY ONLY <1>5, <1>6, <2>2, Zenon
  <2> QED BY ONLY <1>10, <2>3, SMT
<1> QED BY <1>9, <1>10

(* Marking orders moves no net quantity.                                   *)
LEMMA MarkingKeepsNet ==
  ASSUME orders \in Seq(Order), DOMAIN orders' = DOMAIN orders, NEW s \in Symbols,
         \A i \in DOMAIN orders : orders'[i].sym = orders[i].sym /\ orders'[i].qty = orders[i].qty
  PROVE  NetFilled(s)' = NetFilled(s)
<1> DEFINE before == [i \in {j \in DOMAIN orders : orders[j].sym = s} |-> orders[i].qty]
           after == [i \in {j \in DOMAIN orders' : orders'[j].sym = s} |-> orders'[i].qty]
<1>1. IsFiniteSet(DOMAIN before)
  BY LenProperties, FS_Interval, FS_Subset
<1>2. DOMAIN after = DOMAIN before /\ \A i \in DOMAIN before : after[i] = before[i]
  OBVIOUS
<1>3. SumFunction(after) = SumFunction(before)
  <2> HIDE DEF before, after
  <2> QED BY <1>1, <1>2, TotalOfEqual
<1> QED BY <1>3 DEF NetFilled

(* Both cancels only mark orders: CancelOrder any, CancelAll those that    *)
(* still work.                                                             *)
LEMMA CancelsKeepNet ==
  ASSUME orders \in Seq(Order), NEW s \in Symbols, CallerCancel \/ CancelWorking
  PROVE  NetFilled(s)' = NetFilled(s)
<1>1. \A i \in DOMAIN orders : orders[i] \in Order
  BY ElementOfSeq, LenProperties
<1>2. DOMAIN orders' = DOMAIN orders /\ \A i \in DOMAIN orders :
        orders'[i].sym = orders[i].sym /\ orders'[i].qty = orders[i].qty
  BY <1>1 DEF CallerCancel, CancelOrder, CancelWorking, Order
<1> QED BY <1>2, MarkingKeepsNet

(* A fill moves the net of its symbol just as it moves the position.       *)
LEMMA FillKeepsNet ==
  ASSUME PaperIInv, PositionsAreNetFills, NEW p \in pending, Fill(p)
  PROVE  PositionsAreNetFills'
<1>1. FilledOrder(p) \in Order /\ p.sym \in Symbols /\ p.qty \in Int
  BY FillMoves DEF FilledOrder, Placement, Order
<1>2. orders \in Seq(Order) /\ orders' = Append(orders, FilledOrder(p))
  BY DEF Fill, PaperIInv, PaperTypeOK
<1>3. FilledOrder(p).sym = p.sym /\ FilledOrder(p).qty = p.qty
  BY DEF FilledOrder
<1>4. ASSUME NEW s \in Symbols PROVE positions'[s] = NetFilled(s)'
  <2>1. positions[s] = NetFilled(s)
    BY DEF PositionsAreNetFills
  <2>2. NetFilled(s) \in Int /\ NetFilled(s)' = NetFilled(s) + IF p.sym = s THEN p.qty ELSE 0
    <3> HIDE DEF FilledOrder, NetFilled
    <3> QED BY <1>1, <1>2, <1>3, FillAddsToNet
  <2>3. positions'[s] = positions[s] + IF p.sym = s THEN p.qty ELSE 0
    BY FillMoves DEF PaperIInv, PaperTypeOK
  <2> QED BY <2>1, <2>2, <2>3
<1> QED BY <1>4 DEF PositionsAreNetFills

(* So no step of the venue parts the positions from the net of the orders. *)
LEMMA NextKeepsNet ==
  ASSUME PaperIInv, PositionsAreNetFills, [PaperNext]_paperVars
  PROVE  PositionsAreNetFills'
<1>1. ASSUME NEW p \in pending, Fill(p) PROVE PositionsAreNetFills'
  BY <1>1, FillKeepsNet
<1>2. CASE CallerCancel \/ CancelAll
  <2>1. positions' = positions /\ (CallerCancel \/ CancelWorking)
    BY <1>2 DEF CallerCancel, CancelOrder, CancelAll
  <2>2. \A s \in Symbols : NetFilled(s)' = NetFilled(s)
    BY <2>1, CancelsKeepNet DEF PaperIInv, PaperTypeOK
  <2> QED BY <2>1, <2>2 DEF PositionsAreNetFills
<1>3. CASE UNCHANGED <<positions, orders>>
  BY <1>3 DEF PositionsAreNetFills, NetFilled
<1> QED
  BY <1>1, <1>2, <1>3
  DEF PaperNext, paperVars, CallerBook, PlaceBook, PlaceFill, FlattenStart, FlattenCopy,
      FlattenRefused, FlattenStep, FlattenBook, FlattenClose, FlattenFails, FlattenReturns

(* Nothing is filled at the start.                                         *)
LEMMA InitNetFills == PaperInit => PositionsAreNetFills
<1> SUFFICES ASSUME PaperInit, NEW s \in Symbols PROVE NetFilled(s) = 0
  BY DEF PaperInit, NoneOpen, PositionsAreNetFills
<1> DEFINE none == [i \in {j \in DOMAIN orders : orders[j].sym = s} |-> orders[i].qty]
<1>1. DOMAIN none = {}
  BY DEF PaperInit
<1>2. SumFunction(none) = 0
  <2> HIDE DEF none
  <2> QED BY <1>1, TotalOfNone
<1> QED BY <1>2 DEF NetFilled

(* No position has a fill lost or doubled: each is the net of every order  *)
(* filled on its symbol, cancelled ones included, in any interleaving.     *)
THEOREM PositionsAreTheFills == PaperSafety => []PositionsAreNetFills
<1>1. PaperIInv /\ PositionsAreNetFills /\ [PaperNext]_paperVars => PositionsAreNetFills'
  BY NextKeepsNet
<1> QED BY <1>1, InitNetFills, PaperInvariant, PTL DEF PaperSafety
=============================================================================
