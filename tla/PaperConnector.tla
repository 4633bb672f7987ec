--------------------------- MODULE PaperConnector ---------------------------
(***************************************************************************)
(* exchange.PaperConnector: the simulated venue every loop goroutine and   *)
(* the nuke place orders on.  A placement fetches the public book outside  *)
(* the lock and then fills, always in full, under it; FlattenAll copies    *)
(* the positions under the read lock, releases it and places one closing   *)
(* order per position.  Quantities are signed: buys positive.              *)
(*                                                                         *)
(* A position with Qty 0 and a missing one are the same to every reader,   *)
(* so positions is total.  Balances are written only by the constructor,   *)
(* and prices and fees decide nothing here: all three are left out.        *)
(***************************************************************************)
EXTENDS Integers, Sequences, Functions

CONSTANTS
  Symbols,      \* instruments traded on the paper venue
  Callers,      \* goroutines that place orders
  Flattener,    \* the goroutine running FlattenAll
  Qtys,         \* signed sizes callers order
  MaxFills      \* bound: orders ever recorded, the flattener's aside

ASSUME PaperAssumption ==
  /\ Flattener \notin Callers
  /\ Qtys \subseteq Int \ {0}
  /\ MaxFills \in Nat

VARIABLES
  positions,    \* net signed quantity per symbol
  orders,       \* every order placed, in order of filling
  pending,      \* placements past their book fetch, waiting for the lock
  flatten,      \* FlattenAll: "idle", "closing", "failed", "done"
  toClose,      \* FlattenAll's copy of the positions it has not closed yet
  others        \* history: net quantity others filled since that copy, if it runs

paperVars == <<positions, orders, pending, flatten, toClose, others>>

Placement == [by : Callers \cup {Flattener}, sym : Symbols, qty : Int \ {0}, reduceOnly : BOOLEAN]
Order == [sym : Symbols, qty : Int \ {0}, reduceOnly : BOOLEAN,
          state : {"filled", "canceled", "open", "partial", "pending"}]
Busy(c) == \E p \in pending : p.by = c
NoneOpen == [s \in Symbols |-> 0]

PaperTypeOK ==
  /\ positions \in [Symbols -> Int]
  /\ orders \in Seq(Order)
  /\ pending \in SUBSET Placement
  /\ flatten \in {"idle", "closing", "failed", "done"}
  /\ toClose \in [Symbols -> Int]
  /\ others \in [Symbols -> Int]

PaperInit ==
  /\ positions = NoneOpen /\ orders = <<>> /\ pending = {}
  /\ flatten = "idle" /\ toClose = NoneOpen /\ others = NoneOpen

----------------------------------------------------------------------------
(* PlaceOrder: the book fetch succeeded.  A failed fetch changes nothing.  *)
PlaceBook(c, s, q, ro) ==
  /\ ~Busy(c)
  /\ pending' = pending \cup {[by |-> c, sym |-> s, qty |-> q, reduceOnly |-> ro]}
  /\ UNCHANGED <<positions, orders>>

FilledOrder(p) == [sym |-> p.sym, qty |-> p.qty, reduceOnly |-> p.reduceOnly, state |-> "filled"]

(* Plausible bug: the order is recorded, the position is not moved. *)
FillOrderOnly(p) ==
  /\ orders' = Append(orders, FilledOrder(p))
  /\ pending' = pending \ {p}
  /\ UNCHANGED positions

(* PlaceOrder: the fill, under the lock.  ReduceOnly is stored with the    *)
(* order and otherwise ignored.  The caller gets ctx.Err() only now.       *)
Fill(p) ==
  /\ orders' = Append(orders, FilledOrder(p))
  /\ positions' = [positions EXCEPT ![p.sym] = @ + p.qty]
  /\ pending' = pending \ {p}

PlaceFill(c) ==
  \E p \in pending :
    /\ p.by = c /\ Fill(p)
    /\ others' = IF flatten = "closing" THEN [others EXCEPT ![p.sym] = @ + p.qty] ELSE others
    /\ UNCHANGED <<flatten, toClose>>

(* CancelOrder: marks whatever order has that id, filled or not; the       *)
(* position stays.                                                         *)
CancelOrder(i) ==
  /\ orders' = [orders EXCEPT ![i].state = "canceled"]
  /\ UNCHANGED <<positions, pending, flatten, toClose, others>>

(* CancelAll: only orders still working. *)
CancelWorking ==
  orders' = [i \in DOMAIN orders |->
               IF orders[i].state \in {"open", "partial", "pending"}
               THEN [orders[i] EXCEPT !.state = "canceled"] ELSE orders[i]]

CancelAll == CancelWorking /\ UNCHANGED <<positions, pending, flatten, toClose, others>>

----------------------------------------------------------------------------
(* FlattenAll, one step per lock region.                                   *)

FlattenCopy ==
  /\ toClose' = positions /\ others' = NoneOpen
  /\ flatten' = "closing"
  /\ UNCHANGED <<positions, orders, pending>>

FlattenStops(how) == flatten' = how /\ toClose' = NoneOpen /\ others' = NoneOpen

(* FetchPositions failed: the context is already done. *)
FlattenRefused ==
  /\ FlattenStops("failed")
  /\ UNCHANGED <<positions, orders, pending>>

(* Plausible bug: closed positions are not skipped. *)
FlattenBookZero(s) ==
  /\ flatten = "closing"
  /\ PlaceBook(Flattener, s, -toClose[s], TRUE)
  /\ UNCHANGED <<flatten, toClose, others>>

(* Plausible bug: a short is closed by selling more of it. *)
FlattenSellsShort(s) ==
  /\ flatten = "closing" /\ toClose[s] # 0
  /\ PlaceBook(Flattener, s, IF toClose[s] > 0 THEN -toClose[s] ELSE toClose[s], TRUE)
  /\ UNCHANGED <<flatten, toClose, others>>

FlattenBook(s) ==
  /\ flatten = "closing" /\ toClose[s] # 0
  /\ PlaceBook(Flattener, s, -toClose[s], TRUE)
  /\ UNCHANGED <<flatten, toClose, others>>

FlattenClose(s, err) ==
  /\ flatten = "closing" /\ toClose[s] # 0
  /\ \E p \in pending : p.by = Flattener /\ p.sym = s /\ Fill(p)
  /\ IF err THEN FlattenStops("failed")
     ELSE toClose' = [toClose EXCEPT ![s] = 0] /\ UNCHANGED <<flatten, others>>

(* A failed book fetch: the first error leaves the other positions open. *)
FlattenFails ==
  /\ flatten = "closing" /\ toClose # NoneOpen /\ ~Busy(Flattener)
  /\ FlattenStops("failed")
  /\ UNCHANGED <<positions, orders, pending>>

(* Plausible bug: waits until the venue is flat. *)
FlattenWaitsForFlat ==
  /\ flatten = "closing" /\ positions = NoneOpen
  /\ FlattenStops("done")
  /\ UNCHANGED <<positions, orders, pending>>

FlattenReturns ==
  /\ flatten = "closing" /\ toClose = NoneOpen
  /\ FlattenStops("done")
  /\ UNCHANGED <<positions, orders, pending>>

----------------------------------------------------------------------------
(* The connector with arbitrary callers: what it promises to any of them. *)

CallerBook(c) ==
  /\ Len(orders) < MaxFills
  /\ \E s \in Symbols, q \in Qtys, ro \in BOOLEAN : PlaceBook(c, s, q, ro)
  /\ UNCHANGED <<flatten, toClose, others>>

CallerCancel == \E i \in DOMAIN orders : CancelOrder(i)

FlattenStart == flatten # "closing" /\ (FlattenCopy \/ FlattenRefused)

FlattenStep ==
  \/ \E s \in Symbols :
       \/ FlattenBook(s)
       \/ \E err \in BOOLEAN : FlattenClose(s, err)
  \/ FlattenFails \/ FlattenReturns

PaperNext ==
  \/ \E c \in Callers : CallerBook(c) \/ PlaceFill(c)
  \/ CallerCancel \/ CancelAll \/ FlattenStart \/ FlattenStep

(* The mutex is fair and the book fetch has a timeout. *)
PaperSafety == PaperInit /\ [][PaperNext]_paperVars
PaperSpec == PaperSafety /\ WF_paperVars(FlattenStep)

----------------------------------------------------------------------------
NetFilled(s) ==
  SumFunction([i \in {j \in DOMAIN orders : orders[j].sym = s} |-> orders[i].qty])

(* A position is the net of every order ever filled on its symbol: no      *)
(* placement, flatten or cancel, in any interleaving, loses or doubles a   *)
(* fill (a filled order stays filled even once CancelOrder marks it).      *)
PositionsAreNetFills == \A s \in Symbols : positions[s] = NetFilled(s)

(* While FlattenAll runs, each position is what it still has to close plus *)
(* what others filled since it copied the positions.                       *)
FlattenAccounts ==
  flatten = "closing" => \A s \in Symbols : positions[s] = toClose[s] + others[s]

(* When FlattenAll returns without error, what is left open is exactly     *)
(* what other goroutines filled after its copy: undisturbed, it closes     *)
(* everything and never overshoots.                                        *)
FlattenLeavesOnlyLaterFills ==
  [][flatten = "closing" /\ flatten' = "done" => positions = others]_paperVars

(* FlattenAll returns. *)
FlattenEnds == flatten = "closing" ~> flatten # "closing"
=============================================================================
