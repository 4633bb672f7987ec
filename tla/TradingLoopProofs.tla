-------------------------- MODULE TradingLoopProofs --------------------------
(***************************************************************************)
(* Proofs about the whole trading bot: it is the control plane of          *)
(* RunnerControl with its ticks taken apart, placing orders on the venue   *)
(* of PaperConnector; what both promise carries over, and what the loops,  *)
(* the operator and the nuke promise together is proved on top, for any    *)
(* number of loops, instruments, signals and fills.                        *)
(***************************************************************************)
EXTENDS TradingLoop, RunnerControlProofs, SumProofs, SequenceTheorems

(* The paper venue and its lemmas, for callers that order any quantity: an *)
(* exit is as large as the position the snapshot showed.                   *)
Venue == INSTANCE PaperConnectorProofs
           WITH Callers <- Loops, Flattener <- Nuker, Qtys <- Int \ {0}

(* Every step of the bot is one of the control plane, or leaves its        *)
(* variables alone.                                                        *)
LEMMA StepsAreControlSteps == TradingNext => [ControlNext]_controlVars
<1> SUFFICES ASSUME TradingNext PROVE [ControlNext]_controlVars
  OBVIOUS
<1>1. CASE ControlStep
  BY <1>1 DEF ControlStep, ControlNext
<1>2. ASSUME NEW l \in Loops, TickStart(l) PROVE ControlNext
  BY <1>2 DEF TickStart, ControlNext
<1>3. ASSUME NEW l \in Loops, TickStep(l) PROVE [ControlNext]_controlVars
  <2>1. CASE ReplacePositions(l)
    BY <2>1 DEF ReplacePositions, ControlNext
  <2>2. CASE ~ReplacePositions(l)
    BY <1>3, <2>2
    DEF TickStep, TickReturns, TickSignals, SignalsDone, FlattenSignal, PausedBreak,
        OppositeSignal, EntrySignal, Handling, PlaceBook, PlaceFails, PlaceFill, LogFill,
        LogFillLost, FetchPositions
  <2> QED BY <2>1, <2>2
<1>4. CASE NukeConfirm \/ NukeStep
  BY <1>4 DEF NukeConfirm, NukeStep, NukeCopy, NukeClose, NukeFlattenEnds, NukeHaltStep,
              ControlNext
<1> QED BY <1>1, <1>2, <1>3, <1>4 DEF TradingNext

(* With its ticks taken apart the bot is still the control plane.          *)
THEOREM TradingIsControl == TradingSafety => ControlSafety
<1>1. TradingInit => ControlInit
  BY DEF TradingInit
<1>2. [TradingNext]_tradingVars => [ControlNext]_controlVars
  BY StepsAreControlSteps DEF tradingVars, controlVars
<1> QED BY <1>1, <1>2, PTL DEF TradingSafety, ControlSafety

----------------------------------------------------------------------------
(* The loops, the venue and the nuke fit together: a loop's placement on   *)
(* its way is the order in its hand, and the flatten's are exits; the      *)
(* flatten runs only inside a nuke, before its cancels; signals are those  *)
(* of an instrument the tick has not left.                                 *)
PlacementIsOrder ==
  \A p \in pending :
    \/ p.by = Nuker /\ p.reduceOnly = TRUE
    \/ /\ p.by \in Loops /\ at[p.by] = "fill"
       /\ p.sym = order[p.by].sym /\ p.qty = order[p.by].qty
       /\ p.reduceOnly = order[p.by].reduceOnly
FlattenInsideNuke ==
  /\ flatten # "idle" => nuke # "idle"
  /\ flatten = "closing" => nuke = "flatten"

InstrumentInHand ==
  \A l \in Loops : at[l] \in {"signals", "place", "fill", "log"} => todo[l] # <<>>

TradingIInv ==
  /\ ControlIInv /\ Venue!PaperIInv /\ LoopTypeOK /\ HistoryTypeOK
  /\ InstrumentInHand /\ PlacementIsOrder /\ FlattenInsideNuke

(* The instruments are the symbols; an intent that orders nothing is one.  *)
LEMMA InstrumentsAreSymbols ==
  /\ Instruments \in Seq(Symbols) /\ NoIntent \in Intent /\ NoIntent.qty = 0
  /\ Flat \in [Symbols -> Int]
<1>1. Instruments[1] \in Symbols
  BY TradingAssumption, HeadTailProperties
<1> QED BY <1>1, TradingAssumption DEF NoIntent, Intent, Flat

(* What is left of a tick's lists stays a list of the same things.         *)
LEMMA TailsAreTyped ==
  ASSUME LoopTypeOK, NEW l \in Loops
  PROVE  /\ todo[l] # <<>> => Tail(todo[l]) \in Seq(Symbols)
         /\ sigs[l] # <<>> => /\ Head(sigs[l]) \in StrategySignal
                              /\ Tail(sigs[l]) \in Seq(StrategySignal)
<1>1. todo[l] \in Seq(Symbols) /\ sigs[l] \in Seq(StrategySignal)
  BY DEF LoopTypeOK
<1> QED BY <1>1, HeadTailProperties

(* An order decided on for a signal keeps the loop's data in their types.  *)
LEMMA DecideKeepsTypes ==
  ASSUME LoopTypeOK, NEW l \in Loops, NEW intent \in Intent, intent.qty # 0,
         at[l] = "signals", sigs[l] # <<>>, Decide(l, intent),
         UNCHANGED <<loop, todo, fetched, snapshot, ledger>>
  PROVE  LoopTypeOK'
  BY TailsAreTyped DEF LoopTypeOK, Decide, Goto

(* So does a signal passed over.                                           *)
LEMMA DropKeepsTypes ==
  ASSUME LoopTypeOK, NEW l \in Loops, sigs[l] # <<>>, Drop(l),
         UNCHANGED <<loop, todo, fetched, snapshot, ledger>>
  PROVE  LoopTypeOK'
  BY TailsAreTyped DEF LoopTypeOK, Drop

(* So does the exit of a position the snapshot shows.                      *)
LEMMA ExitKeepsTypes ==
  ASSUME LoopTypeOK, NEW l \in Loops, NEW s \in Symbols, snapshot[s] # 0,
         at[l] = "signals", sigs[l] # <<>>, Exit(l, s),
         UNCHANGED <<loop, todo, fetched, snapshot, ledger>>
  PROVE  LoopTypeOK'
<1>1. snapshot[s] \in Int
  BY DEF LoopTypeOK
<1>2. [sym |-> s, qty |-> -snapshot[s], reduceOnly |-> TRUE] \in Intent
  BY <1>1 DEF Intent
<1> QED BY <1>1, <1>2, DecideKeepsTypes, DropKeepsTypes DEF Exit

(* A step of a tick keeps the loop's data in their types: in particular an *)
(* order in hand is never for nothing.                                     *)
LEMMA TickStepKeepsTypes ==
  ASSUME TradingIInv, NEW l \in Loops, TickStep(l)
  PROVE  LoopTypeOK'
<1> USE TailsAreTyped, InstrumentsAreSymbols DEF TradingIInv
<1>1. CASE TickReturns(l) \/ SignalsDone(l)
  <2>1. Tail(todo[l]) \in Seq(Symbols)
    BY <1>1 DEF TickReturns, SignalsDone, InTick, InstrumentInHand
  <2> QED BY <1>1, <2>1
          DEF TickReturns, SignalsDone, NextInstrument, LoopTypeOK, Goto, InTick, controlVars
<1>2. CASE TickSignals(l)
  <2>1. PICK s \in UNION {[1..n -> StrategySignal] : n \in 0..MaxSignals} :
          sigs' = [sigs EXCEPT ![l] = s]
    BY ONLY <1>2 DEF TickSignals
  <2>2. PICK n \in 0..MaxSignals : s \in [1..n -> StrategySignal]
    OBVIOUS
  <2>3. s \in Seq(StrategySignal)
    <3>1. n \in Nat
      BY TradingAssumption
    <3> QED BY ONLY <2>2, <3>1
  <2> QED BY ONLY <1>2, <2>1, <2>3, LoopTypeOK, l \in Loops
          DEF TickSignals, LoopTypeOK, Goto, InTick, controlVars
<1>3. CASE FlattenSignal(l)
  <2>1. Head(sigs[l]).sym \in Symbols
    BY <1>3 DEF FlattenSignal, Handling, StrategySignal
  <2> QED BY <1>3, <2>1, ExitKeepsTypes, DropKeepsTypes
          DEF FlattenSignal, Handling, InTick, controlVars
<1>4. CASE PausedBreak(l)
  BY <1>4 DEF PausedBreak, Handling, LoopTypeOK, controlVars
<1>5. CASE OppositeSignal(l)
  <2>1. Head(sigs[l]) \in StrategySignal /\ Head(sigs[l]).sym \in Symbols
    BY <1>5 DEF OppositeSignal, Handling, StrategySignal
  <2>2. snapshot[Head(sigs[l]).sym] # 0
    BY <1>5, <2>1 DEF OppositeSignal, ExitsFirst, Opposes, Direction, LoopTypeOK
  <2> QED BY <1>5, <2>1, <2>2, ExitKeepsTypes DEF OppositeSignal, Handling, InTick, controlVars
<1>6. CASE EntrySignal(l)
  <2> DEFINE sig == Head(sigs[l])
             intent(q) == [sym |-> sig.sym, qty |-> q * Direction(sig), reduceOnly |-> FALSE]
  <2>1. sig \in StrategySignal /\ sig.sym \in Symbols
    BY <1>6 DEF EntrySignal, Handling, StrategySignal
  <2>2. CASE Drop(l)
    BY <1>6, <2>2, DropKeepsTypes DEF EntrySignal, Handling, controlVars
  <2>3. ASSUME NEW q \in EntrySizes, Decide(l, intent(q)) PROVE LoopTypeOK'
    <3>1. q * Direction(sig) \in Int \ {0}
      BY TradingAssumption DEF Direction
    <3>2. intent(q) \in Intent /\ intent(q).qty # 0
      BY <2>1, <3>1 DEF Intent
    <3> QED BY ONLY <1>6, <2>3, <3>2, LoopTypeOK, DecideKeepsTypes
            DEF EntrySignal, Handling, InTick, controlVars
  <2> QED BY <1>6, <2>2, <2>3 DEF EntrySignal, Enter
<1>7. CASE PlaceBook(l)
  BY <1>7 DEF PlaceBook, LoopTypeOK, Goto, InTick, controlVars
<1>8. CASE PlaceFails(l) \/ LogFillLost(l)
  <2>1. /\ UNCHANGED <<controlVars, todo, sigs, fetched, snapshot, ledger>>
        /\ PlaceReturns(l) /\ at[l] # "idle"
    BY ONLY <1>8 DEF PlaceFails, LogFillLost, InTick
  <2> QED BY ONLY <2>1, LoopTypeOK, InstrumentsAreSymbols, l \in Loops
          DEF PlaceReturns, LoopTypeOK, Goto, controlVars
<1>9. CASE PlaceFill(l)
  BY <1>9 DEF PlaceFill, PlaceReturns, LoopTypeOK, Goto, InTick, controlVars
<1>10. CASE LogFill(l)
  <2>1. order[l].sym \in Symbols /\ order[l].qty \in Int
    BY DEF LoopTypeOK, Intent
  <2>2. ledger' \in [Symbols -> Int]
    BY ONLY <1>10, <2>1, LoopTypeOK DEF LogFill, LoopTypeOK
  <2>3. /\ UNCHANGED <<controlVars, todo, sigs, fetched, snapshot>>
        /\ PlaceReturns(l) /\ at[l] # "idle"
    BY ONLY <1>10 DEF LogFill, InTick
  <2> QED BY ONLY <2>2, <2>3, LoopTypeOK, InstrumentsAreSymbols, l \in Loops
          DEF PlaceReturns, LoopTypeOK, Goto, controlVars
<1>11. CASE FetchPositions(l)
  <2>1. positions \in [Symbols -> Int]
    BY DEF Venue!PaperIInv, Venue!PaperTypeOK
  <2> QED BY <1>11, <2>1 DEF FetchPositions, LoopTypeOK, Goto, InTick, controlVars
<1>12. CASE ReplacePositions(l)
  BY <1>12 DEF ReplacePositions, LoopTickEnd, LoopTypeOK, Goto, ControlIInv, ControlTypeOK
<1> QED
  BY <1>1, <1>2, <1>3, <1>4, <1>5, <1>6, <1>7, <1>8, <1>9, <1>10, <1>11, <1>12 DEF TickStep

(* Outside the ticks a loop goroutine only starts and exits, from and to   *)
(* its select; the data of the ticks stay as they are.                     *)
LEMMA OtherStepsKeepTypes ==
  ASSUME TradingIInv,
         ControlStep \/ NukeConfirm \/ NukeStep \/ \E l \in Loops : TickStart(l)
  PROVE  LoopTypeOK' /\ InstrumentInHand'
<1> USE InstrumentsAreSymbols DEF TradingIInv, LoopTypeOK, InstrumentInHand
<1>1. ASSUME NEW l \in Loops, TickStart(l) PROVE LoopTypeOK' /\ InstrumentInHand'
  <2>1. \A k \in Loops : /\ loop'[k] = IF k = l THEN "tick" ELSE loop[k]
                         /\ at'[k] = IF k = l THEN "enter" ELSE at[k]
    BY <1>1 DEF TickStart, LoopTick, Goto, ControlIInv, ControlTypeOK
  <2>2. at[l] = "idle"
    BY <1>1 DEF TickStart, LoopTick
  <2>3. todo' \in [Loops -> Seq(Symbols)] /\ \A k \in Loops \ {l} : todo'[k] = todo[k]
    BY <1>1 DEF TickStart
  <2>4. UNCHANGED <<sigs, order, fetched, snapshot, ledger>>
    BY <1>1 DEF TickStart
  <2>5. at' \in [Loops -> {"idle", "enter", "signals", "place", "fill", "log", "replace"}]
    BY <1>1 DEF TickStart, Goto
  <2>6. \A k \in Loops : order'[k].qty # 0 <=> at'[k] \in {"place", "fill", "log"}
    BY <2>1, <2>2, <2>4
  <2>7. \A k \in Loops : loop'[k] = "tick" <=> at'[k] # "idle"
    BY <2>1
  <2>8. LoopTypeOK'
    BY <2>3, <2>4, <2>5, <2>6, <2>7
  <2>9. InstrumentInHand'
    BY <2>1, <2>3
  <2> QED BY <2>8, <2>9
<1>2. CASE NukeConfirm \/ NukeStep
  <2>1. UNCHANGED <<loop, loopVars>>
    BY <1>2
    DEF NukeConfirm, NukeStep, NukeCopy, NukeClose, NukeFlattenEnds, NukeHaltStep, Confirm,
        ConfirmNuke, RejectNuke, Flattened, NukeFlattened, Halt, NukeHalt, controlVars
  <2> QED BY <2>1 DEF loopVars
<1>3. CASE ControlStep
  <2>1. UNCHANGED loopVars
    BY <1>3 DEF ControlStep
  <2>2. \A l \in Loops : loop'[l] = "tick" <=> loop[l] = "tick"
    BY <1>3
    DEF ControlStep, Command, StartTrading, SpawnLoop, StopTrading, SetPaused, RequestNuke,
        CheckConfirm, TelegramStops, Boot, Signal, Shutdown, ProcessEnds, LoopExit, ClockTick,
        Exited, controlVars, runnerVars, ControlIInv, ControlTypeOK
  <2> QED BY <2>1, <2>2 DEF loopVars
<1> QED BY <1>1, <1>2, <1>3

(* A tick leaves an instrument only once its signals are used up.          *)
LEMMA TickStepKeepsInstrument ==
  ASSUME TradingIInv, NEW l \in Loops, TickStep(l)
  PROVE  InstrumentInHand'
<1> USE DEF TradingIInv, InstrumentInHand, InTick, Goto
<1>1. CASE TickReturns(l) \/ SignalsDone(l)
  BY <1>1 DEF TickReturns, SignalsDone, NextInstrument, LoopTypeOK
<1>2. CASE ~(TickReturns(l) \/ SignalsDone(l))
  BY <1>2
  DEF TickStep, TickSignals, FlattenSignal, PausedBreak, OppositeSignal, EntrySignal, Handling,
      Drop, Decide, Exit, Enter, PlaceBook, PlaceFails, PlaceFill, PlaceReturns, LogFill,
      LogFillLost, FetchPositions, ReplacePositions, LoopTypeOK
<1> QED BY <1>1, <1>2

(* Every step of the bot is one the venue knows from its callers or its    *)
(* flatten, or leaves it alone; the nuke's cancels end the flatten as      *)
(* well.                                                                   *)
LEMMA StepsAreVenueSteps ==
  ASSUME TradingIInv, TradingNext, ~NukeHaltStep
  PROVE  [Venue!PaperNext]_(Venue!paperVars)
<1> USE DEF TradingIInv, Venue!paperVars
<1>1. ASSUME NEW l \in Loops, PlaceBook(l) PROVE Venue!CallerBook(l)
  <2>1. order[l].sym \in Symbols /\ order[l].qty \in Int \ {0} /\ order[l].reduceOnly \in BOOLEAN
    BY <1>1 DEF PlaceBook, InTick, LoopTypeOK, Intent
  <2> QED BY <1>1, <2>1
          DEF PlaceBook, Venue!CallerBook, Paper!PlaceBook, Venue!PlaceBook, Paper!Busy, Venue!Busy
<1>2. ASSUME NEW l \in Loops, PlaceFill(l) PROVE Venue!PlaceFill(l)
  BY <1>2 DEF PlaceFill, Paper!PlaceFill, Venue!PlaceFill, Paper!Fill, Venue!Fill,
              Paper!FilledOrder, Venue!FilledOrder
<1>3. ASSUME NEW l \in Loops, TickStart(l) \/ TickStep(l), ~PlaceBook(l), ~PlaceFill(l)
      PROVE  UNCHANGED paperVars
  BY <1>3
  DEF TickStart, TickStep, TickReturns, TickSignals, SignalsDone, FlattenSignal, PausedBreak,
      OppositeSignal, EntrySignal, Handling, PlaceFails, LogFill, LogFillLost, FetchPositions,
      ReplacePositions
<1>4. CASE ControlStep \/ NukeConfirm \/ NukeFlattenEnds
  BY <1>4 DEF ControlStep, NukeConfirm, NukeFlattenEnds, paperVars
<1>5. CASE NukeCopy
  BY <1>5
  DEF NukeCopy, Venue!PaperNext, Venue!FlattenStart, Paper!FlattenRefused, Paper!FlattenCopy,
      Venue!FlattenRefused, Venue!FlattenCopy, Paper!FlattenStops, Venue!FlattenStops,
      Paper!NoneOpen, Venue!NoneOpen
<1>6. CASE NukeClose
  <2>1. rootDone \in BOOLEAN
    BY DEF ControlIInv, ControlTypeOK
  <2>2. ASSUME NEW s \in Symbols, Paper!FlattenBook(s) PROVE Venue!FlattenBook(s)
    BY <2>2 DEF Paper!FlattenBook, Venue!FlattenBook, Paper!PlaceBook, Venue!PlaceBook,
                Paper!Busy, Venue!Busy
  <2>3. ASSUME NEW s \in Symbols, Paper!FlattenClose(s, rootDone)
        PROVE  Venue!FlattenClose(s, rootDone)
    BY <2>3 DEF Paper!FlattenClose, Venue!FlattenClose, Paper!Fill, Venue!Fill,
                Paper!FilledOrder, Venue!FilledOrder, Paper!FlattenStops, Venue!FlattenStops,
                Paper!NoneOpen, Venue!NoneOpen
  <2>4. Paper!FlattenFails => Venue!FlattenFails
    BY DEF Paper!FlattenFails, Venue!FlattenFails, Paper!FlattenStops, Venue!FlattenStops,
           Paper!NoneOpen, Venue!NoneOpen, Paper!Busy, Venue!Busy
  <2>5. Paper!FlattenReturns => Venue!FlattenReturns
    BY DEF Paper!FlattenReturns, Venue!FlattenReturns, Paper!FlattenStops, Venue!FlattenStops,
           Paper!NoneOpen, Venue!NoneOpen
  <2>6. Venue!FlattenStep
    BY <1>6, <2>1, <2>2, <2>3, <2>4, <2>5 DEF NukeClose, Venue!FlattenStep
  <2> QED BY <2>6 DEF Venue!PaperNext
<1> QED BY <1>1, <1>2, <1>3, <1>4, <1>5, <1>6 DEF TradingNext, NukeStep, Venue!PaperNext, paperVars

(* The venue's own invariant therefore holds of the bot: when the nuke's   *)
(* cancels end the flatten, none of its closing orders is on its way.      *)
LEMMA VenueIsKept ==
  ASSUME TradingIInv, TradingNext
  PROVE  Venue!PaperIInv'
<1>1. CASE ~NukeHaltStep
  BY <1>1, StepsAreVenueSteps, Venue!NextPaperIInv, TradingAssumption
  DEF Venue!PaperAssumption, TradingIInv
<1>2. CASE NukeHaltStep
  <2>1. nuke = "cancelAll" /\ Venue!CancelWorking /\ flatten' = "idle"
        /\ UNCHANGED <<positions, pending, toClose, others>>
    BY <1>2 DEF NukeHaltStep, Halt, NukeHalt, Paper!CancelWorking, Venue!CancelWorking
  <2>2. \A p \in pending : p.by # Nuker
    BY <2>1 DEF TradingIInv, FlattenInsideNuke, Venue!PaperIInv, Venue!ClosingPlacements
  <2>3. orders' \in Seq(Venue!Order)
    BY <2>1, Venue!CancelledOrders, TradingAssumption
    DEF TradingIInv, Venue!PaperIInv, Venue!PaperTypeOK
  <2> QED BY <2>1, <2>2, <2>3
          DEF TradingIInv, Venue!PaperIInv, Venue!PaperTypeOK, Venue!OnePlacementEach,
              Venue!ClosingPlacements, Venue!FlattenAccounts
<1> QED BY <1>1, <1>2

(* What fills is a placement on its way: a loop's own, or a closing order  *)
(* of the nuke's flatten.  It is the last order on record and moves one    *)
(* position by its quantity; nothing else is filled in that step.          *)
FillOf(p) ==
  /\ p \in pending /\ p \in Venue!Placement /\ pending' = pending \ {p}
  /\ Last(orders') = Paper!FilledOrder(p)
  /\ positions'[p.sym] = positions[p.sym] + p.qty
  /\ \A s \in Symbols \ {p.sym} : positions'[s] = positions[s]
  /\ \/ \E l \in Loops : p.by = l /\ PlaceFill(l)
     \/ p.by = Nuker /\ NukeClose

(* An order is filled by a placement that was pending, and positions       *)
(* change with fills only.                                                 *)
LEMMA FilledIsPlacement ==
  ASSUME TradingIInv, TradingNext
  PROVE  /\ Filled => \E p \in pending : FillOf(p)
         /\ ~Filled => positions' = positions
         /\ \A l \in Loops : PlaceFill(l) => Filled
<1> USE DEF TradingIInv
<1>1. orders \in Seq(Paper!Order) /\ Len(orders) \in Nat
  BY LenProperties
  DEF Venue!PaperIInv, Venue!PaperTypeOK, Venue!Order, Paper!Order
<1>2. ASSUME NEW p \in pending, Paper!Fill(p),
             (\E l \in Loops : p.by = l /\ PlaceFill(l)) \/ (p.by = Nuker /\ NukeClose)
      PROVE  Filled /\ FillOf(p)
  <2>1. Venue!Fill(p)
    BY <1>2 DEF Paper!Fill, Venue!Fill, Paper!FilledOrder, Venue!FilledOrder
  <2>2. /\ p \in Venue!Placement /\ pending' = pending \ {p}
        /\ positions'[p.sym] = positions[p.sym] + p.qty
        /\ \A s \in Symbols \ {p.sym} : positions'[s] = positions[s]
    BY <2>1, Venue!FillMoves, TradingAssumption DEF Venue!PaperAssumption
  <2>3. Paper!FilledOrder(p) \in Paper!Order
    BY <2>2 DEF Paper!FilledOrder, Paper!Order, Venue!Placement
  <2>4. Len(orders') = Len(orders) + 1 /\ orders'[Len(orders) + 1] = Paper!FilledOrder(p)
    BY <1>1, <1>2, <2>3, AppendProperties DEF Paper!Fill
  <2> QED BY <1>1, <1>2, <2>2, <2>4 DEF Filled, FillOf, Last
<1>3. ASSUME NEW l \in Loops, PlaceFill(l) PROVE Filled /\ \E p \in pending : FillOf(p)
  <2>1. PICK p \in pending : p.by = l /\ Paper!Fill(p)
    BY <1>3 DEF PlaceFill, Paper!PlaceFill
  <2>2. \E k \in Loops : p.by = k /\ PlaceFill(k)
    BY <1>3, <2>1
  <2>3. Filled /\ FillOf(p)
    BY <1>2, <2>1, <2>2
  <2> QED BY <2>3
<1>4. CASE NukeClose
  <2>1. ASSUME NEW p \in pending, p.by = Nuker, Paper!Fill(p)
        PROVE  Filled /\ \E q \in pending : FillOf(q)
    BY <1>2, <1>4, <2>1
  <2>2. (\E p \in pending : p.by = Nuker /\ Paper!Fill(p)) \/ UNCHANGED <<positions, orders>>
    BY <1>4 DEF NukeClose, Paper!FlattenBook, Paper!PlaceBook, Paper!FlattenClose,
                Paper!FlattenFails, Paper!FlattenReturns
  <2> QED BY <1>1, <1>3, <2>1, <2>2 DEF Filled
<1>5. CASE NukeHaltStep
  <2>1. Len(orders') = Len(orders) /\ UNCHANGED positions
    BY <1>1, <1>5, Venue!CancelledOrders, TradingAssumption
    DEF NukeHaltStep, Paper!CancelWorking, Venue!CancelWorking, Venue!Order, Paper!Order
  <2> QED BY <1>1, <1>3, <2>1 DEF Filled
<1>6. CASE ~NukeClose /\ ~NukeHaltStep /\ \A l \in Loops : ~PlaceFill(l)
  <2>1. UNCHANGED <<positions, orders>>
    BY <1>6
    DEF TradingNext, ControlStep, NukeConfirm, NukeStep, NukeCopy, NukeFlattenEnds, TickStart,
        TickStep, TickReturns, TickSignals, SignalsDone, FlattenSignal, PausedBreak,
        OppositeSignal, EntrySignal, Handling, PlaceBook, PlaceFails, LogFill, LogFillLost,
        FetchPositions, ReplacePositions, paperVars, Paper!PlaceBook, Paper!FlattenRefused,
        Paper!FlattenCopy
  <2> QED BY <1>1, <1>6, <2>1 DEF Filled
<1> QED BY <1>3, <1>4, <1>5, <1>6

(* The history variables keep their types.                                 *)
LEMMA HistoryKeepsTypes ==
  ASSUME TradingIInv, TradingNext
  PROVE  HistoryTypeOK'
<1> USE DEF TradingIInv, HistoryTypeOK, TradingNext, History
<1>1. Filled => Last(orders').sym \in Symbols
  BY FilledIsPlacement DEF FillOf, Paper!FilledOrder, Venue!Placement
<1>2. moved' \in SUBSET Symbols
  BY <1>1
<1>3. late' \in Nat
  OBVIOUS
<1>4. trouble' \in SUBSET {"ledger", "snapshot"}
  BY DEF NewTrouble
<1> QED BY <1>2, <1>3, <1>4

(* Only placing puts an order of a loop on its way, only filling takes it  *)
(* off, and in between the loop keeps it in hand.                          *)
LEMMA PlacementStaysOrder ==
  ASSUME TradingIInv, TradingNext
  PROVE  PlacementIsOrder'
<1> USE DEF TradingIInv, PlacementIsOrder
<1>1. ASSUME NEW l \in Loops, PlaceBook(l) PROVE PlacementIsOrder'
  BY <1>1 DEF PlaceBook, Paper!PlaceBook, InTick, Goto, LoopTypeOK
<1>2. ASSUME NEW l \in Loops, PlaceFill(l) PROVE PlacementIsOrder'
  <2>1. PICK p \in pending : p.by = l /\ pending' = pending \ {p}
    BY <1>2 DEF PlaceFill, Paper!PlaceFill, Paper!Fill
  <2>2. \A q \in pending' : q.by # l
    BY <2>1 DEF Venue!PaperIInv, Venue!OnePlacementEach
  <2>3. \A k \in Loops \ {l} : at'[k] = at[k] /\ order'[k] = order[k]
    BY <1>2 DEF PlaceFill, PlaceReturns, Goto, LoopTypeOK
  <2> QED BY <2>1, <2>2, <2>3
<1>3. ASSUME NEW l \in Loops, TickStart(l) \/ TickStep(l), ~PlaceBook(l), ~PlaceFill(l)
      PROVE  PlacementIsOrder'
  <2>1. UNCHANGED pending
    BY <1>3
    DEF TickStart, TickStep, TickReturns, TickSignals, SignalsDone, FlattenSignal, PausedBreak,
        OppositeSignal, EntrySignal, Handling, PlaceFails, LogFill, LogFillLost, FetchPositions,
        ReplacePositions, paperVars
  <2>2. at[l] # "fill"
    BY <1>3
    DEF TickStart, LoopTick, TickStep, TickReturns, TickSignals, SignalsDone, FlattenSignal,
        PausedBreak, OppositeSignal, EntrySignal, Handling, PlaceFails, LogFill, LogFillLost,
        FetchPositions, ReplacePositions, InTick, LoopTypeOK
  <2>3. \A k \in Loops \ {l} : at'[k] = at[k] /\ order'[k] = order[k]
    BY <1>3
    DEF TickStart, TickStep, TickReturns, TickSignals, SignalsDone, NextInstrument, FlattenSignal,
        PausedBreak, OppositeSignal, EntrySignal, Handling, Exit, Enter, Drop, Decide, PlaceFails,
        PlaceReturns, LogFill, LogFillLost, FetchPositions, ReplacePositions, Goto, LoopTypeOK
  <2> QED BY <2>1, <2>2, <2>3
<1>4. CASE ControlStep \/ NukeConfirm \/ NukeStep
  <2>1. UNCHANGED <<at, order>>
    BY <1>4 DEF ControlStep, NukeConfirm, NukeStep, NukeCopy, NukeClose, NukeFlattenEnds,
                NukeHaltStep, loopVars
  <2>2. ~NukeClose => UNCHANGED pending
    BY <1>4
    DEF ControlStep, NukeConfirm, NukeStep, NukeCopy, NukeFlattenEnds, NukeHaltStep, paperVars,
        Paper!FlattenCopy, Paper!FlattenRefused
  <2>3. ASSUME NukeClose, NEW p \in pending'
        PROVE  p \in pending \/ (p.by = Nuker /\ p.reduceOnly = TRUE)
    <3>1. CASE \E s \in Symbols : Paper!FlattenBook(s)
      BY <2>3, <3>1 DEF Paper!FlattenBook, Paper!PlaceBook
    <3>2. CASE ~\E s \in Symbols : Paper!FlattenBook(s)
      BY <2>3, <3>2 DEF NukeClose, Paper!FlattenClose, Paper!Fill, Paper!FlattenFails,
                        Paper!FlattenReturns
    <3> QED BY <3>1, <3>2
  <2> QED BY <2>1, <2>2, <2>3
<1> QED BY <1>1, <1>2, <1>3, <1>4 DEF TradingNext

(* The flatten begins once a nuke is confirmed and is over before the      *)
(* cancels; the halt forgets it.                                           *)
LEMMA FlattenStaysInside ==
  ASSUME TradingIInv, TradingNext
  PROVE  FlattenInsideNuke'
<1> USE DEF TradingIInv, FlattenInsideNuke
<1>1. ASSUME NEW l \in Loops, TickStart(l) \/ TickStep(l) PROVE UNCHANGED <<flatten, nuke>>
  BY <1>1
  DEF TickStart, LoopTick, TickStep, TickReturns, TickSignals, SignalsDone, FlattenSignal,
      PausedBreak, OppositeSignal, EntrySignal, Handling, PlaceBook, PlaceFails, PlaceFill,
      Paper!PlaceFill, LogFill, LogFillLost, FetchPositions, ReplacePositions, LoopTickEnd,
      controlVars, paperVars
<1>2. CASE ControlStep
  <2>1. UNCHANGED nuke
    BY <1>2
    DEF ControlStep, Command, StartTrading, StopTrading, SetPaused, RequestNuke, CheckConfirm,
        TelegramStops, Boot, Signal, Shutdown, ProcessEnds, LoopExit, ClockTick, Exited,
        controlVars, runnerVars
  <2> QED BY <1>2, <2>1 DEF ControlStep, paperVars
<1>3. CASE NukeConfirm
  BY <1>3 DEF NukeConfirm, Confirm, ConfirmNuke, RejectNuke, RunMuFree, paperVars
<1>4. CASE NukeCopy \/ NukeClose
  BY <1>4
  DEF NukeCopy, NukeClose, Paper!FlattenCopy, Paper!FlattenRefused, Paper!FlattenStops,
      Paper!FlattenBook, Paper!FlattenClose, Paper!FlattenFails, Paper!FlattenReturns, controlVars
<1>5. CASE NukeFlattenEnds \/ NukeHaltStep
  BY <1>5 DEF NukeFlattenEnds, Flattened, NukeFlattened, NukeHaltStep, Halt, NukeHalt, paperVars
<1> QED BY <1>1, <1>2, <1>3, <1>4, <1>5 DEF TradingNext, NukeStep

(* Nothing runs and nothing is on its way at the start.                    *)
LEMMA InitTradingIInv == TradingInit => TradingIInv
<1> SUFFICES ASSUME TradingInit PROVE TradingIInv
  OBVIOUS
<1> USE InstrumentsAreSymbols DEF TradingInit
<1>1. ControlIInv
  BY InitControlIInv
<1>2. Venue!PaperIInv
  BY Venue!InitPaperIInv, TradingAssumption
  DEF Venue!PaperAssumption, Paper!PaperInit, Venue!PaperInit, Paper!NoneOpen, Venue!NoneOpen
<1>3. LoopTypeOK
  BY DEF LoopTypeOK, ControlInit
<1>4. HistoryTypeOK /\ InstrumentInHand /\ PlacementIsOrder /\ FlattenInsideNuke
  BY DEF HistoryTypeOK, InstrumentInHand, PlacementIsOrder, FlattenInsideNuke, Paper!PaperInit
<1> QED BY <1>1, <1>2, <1>3, <1>4 DEF TradingIInv

(* No step of the loops, the operator or the nuke breaks the invariant.    *)
LEMMA NextTradingIInv == TradingIInv /\ [TradingNext]_tradingVars => TradingIInv'
<1>1. ASSUME TradingIInv, TradingNext PROVE TradingIInv'
  <2>1. ControlIInv'
    BY <1>1, StepsAreControlSteps, NextControlIInv DEF TradingIInv
  <2>2. LoopTypeOK' /\ InstrumentInHand'
    BY <1>1, TickStepKeepsTypes, TickStepKeepsInstrument, OtherStepsKeepTypes DEF TradingNext
  <2> QED BY <1>1, <2>1, <2>2, VenueIsKept, HistoryKeepsTypes, PlacementStaysOrder,
             FlattenStaysInside DEF TradingIInv
<1>2. ASSUME TradingIInv, UNCHANGED tradingVars PROVE TradingIInv'
  <2>1. ControlIInv'
    BY <1>2, NextControlIInv DEF TradingIInv, tradingVars
  <2>2. Venue!PaperIInv'
    BY <1>2, Venue!NextPaperIInv, TradingAssumption
    DEF Venue!PaperAssumption, TradingIInv, tradingVars, paperVars, Venue!paperVars
  <2>3. LoopTypeOK' /\ InstrumentInHand'
    BY <1>2 DEF TradingIInv, LoopTypeOK, InstrumentInHand, tradingVars, controlVars, loopVars
  <2>4. HistoryTypeOK' /\ PlacementIsOrder' /\ FlattenInsideNuke'
    BY <1>2 DEF TradingIInv, HistoryTypeOK, PlacementIsOrder, FlattenInsideNuke, tradingVars,
                controlVars, paperVars, loopVars, historyVars
  <2> QED BY <2>1, <2>2, <2>3, <2>4 DEF TradingIInv
<1> QED BY <1>1, <1>2

(* The inductive invariant holds throughout every behaviour.               *)
LEMMA TradingInvariant == TradingSafety => []TradingIInv
  BY InitTradingIInv, NextTradingIInv, PTL DEF TradingSafety

(* Every variable keeps its type.                                          *)
THEOREM TradingTypeCorrect == TradingSafety => []TradingTypeOK
<1>1. TradingIInv => TradingTypeOK
  BY DEF TradingIInv, TradingTypeOK, ControlIInv, Venue!PaperIInv, Venue!PaperTypeOK,
         Paper!PaperTypeOK, Venue!Placement, Paper!Placement, Venue!Order, Paper!Order
<1> QED BY <1>1, TradingInvariant, PTL

----------------------------------------------------------------------------
(* What the control plane and the venue promise, of the whole bot. *)

(* After the halt no loop of the trading bot is armed.                     *)
THEOREM TradingHaltDisarms == TradingSafety => []HaltedIsDisarmed
  BY TradingIsControl, HaltDisarms, PTL

(* Whatever the loops fill while the nuke flattens, each position is what  *)
(* the nuke has still to close plus what the loops filled.                 *)
THEOREM NukeKeepsAccount == TradingSafety => []Paper!FlattenAccounts
<1>1. TradingIInv => Paper!FlattenAccounts
  BY DEF TradingIInv, Venue!PaperIInv, Venue!FlattenAccounts, Paper!FlattenAccounts
<1> QED BY <1>1, TradingInvariant, PTL

(* A nuke whose flatten succeeds leaves at the venue what the loops filled *)
(* after its copy of the positions, and nothing else.                      *)
THEOREM NukeClosesItsCopy == TradingSafety => Paper!FlattenLeavesOnlyLaterFills
<1>1. TradingIInv /\ [TradingNext]_tradingVars =>
        [flatten = "closing" /\ flatten' = "done" => positions = others]_(Paper!paperVars)
  <2> SUFFICES ASSUME TradingIInv, [TradingNext]_tradingVars, flatten = "closing", flatten' = "done"
               PROVE  positions = others
    OBVIOUS
  <2>1. TradingNext /\ ~NukeHaltStep
    BY DEF tradingVars, paperVars, NukeHaltStep
  <2>2. [Venue!PaperNext]_(Venue!paperVars) /\ Venue!PaperIInv
    BY <2>1, StepsAreVenueSteps DEF TradingIInv
  <2> QED BY <2>2, Venue!DoneIsClosed, TradingAssumption DEF Venue!PaperAssumption
<1> QED BY <1>1, TradingInvariant, PTL DEF TradingSafety, Paper!FlattenLeavesOnlyLaterFills

(* Once halted, no loop sends an order to the venue: it is cancelled, and  *)
(* the book request carries its context.                                   *)
THEOREM HaltSilencesLoops == TradingSafety => QuietAfterHalt
<1>1. TradingIInv /\ [TradingNext]_tradingVars =>
        [halted => \A p \in pending' : p \in pending \/ p.by = Nuker]_tradingVars
  <2> SUFFICES ASSUME TradingIInv, TradingNext, halted, NEW p \in pending'
               PROVE  p \in pending \/ p.by = Nuker
    OBVIOUS
  <2>1. ASSUME NEW l \in Loops, PlaceBook(l) PROVE FALSE
    <3>1. Alive(l)
      BY <2>1 DEF PlaceBook, InTick, TradingIInv, LoopTypeOK, Alive
    <3>2. l \in canceled
      BY <3>1, ControlAssumption DEF TradingIInv, ControlIInv, HaltedHoldsNoLoop, OneArmedLoop
    <3> QED BY <2>1, <3>2 DEF PlaceBook, CtxDone
  <2>2. CASE NukeClose
    <3>1. CASE \E s \in Symbols : Paper!FlattenBook(s)
      BY <3>1 DEF Paper!FlattenBook, Paper!PlaceBook
    <3>2. CASE ~\E s \in Symbols : Paper!FlattenBook(s)
      BY <2>2, <3>2 DEF NukeClose, Paper!FlattenClose, Paper!Fill, Paper!FlattenFails,
                        Paper!FlattenReturns
    <3> QED BY <3>1, <3>2
  <2>3. CASE ~NukeClose
    BY <2>1, <2>3
    DEF TradingNext, ControlStep, NukeConfirm, NukeStep, NukeCopy, NukeFlattenEnds, NukeHaltStep,
        TickStart, TickStep, TickReturns, TickSignals, SignalsDone, FlattenSignal, PausedBreak,
        OppositeSignal, EntrySignal, Handling, PlaceFails, PlaceFill, Paper!PlaceFill, Paper!Fill,
        LogFill, LogFillLost, FetchPositions, ReplacePositions, paperVars, Paper!FlattenCopy,
        Paper!FlattenRefused
  <2> QED BY <2>2, <2>3
<1> QED BY <1>1, TradingInvariant, PTL DEF TradingSafety, QuietAfterHalt

----------------------------------------------------------------------------
(* The portfolio snapshot of an undisturbed loop.  As long as nothing      *)
(* disturbs it there is no nuke and no live loop whose context is done, so *)
(* one loop at most; what it fetched is what the venue holds until it      *)
(* replaces the snapshot, and an exit in its hand is as large as the       *)
(* position it was decided from.                                           *)
Untroubled == "snapshot" \notin trouble
UntroubledIsAlone == Untroubled => nuke = "idle" /\ \A l \in Loops : Alive(l) => ~CtxDone(l)
FetchIsFresh == Untroubled => \A l \in Loops : at[l] = "replace" => fetched[l] = positions
ExitIsSized ==
  Untroubled =>
    \A l \in Loops : at[l] \in {"place", "fill"} /\ order[l].reduceOnly = TRUE =>
                       order[l].qty = -snapshot[order[l].sym]

SnapshotIInv ==
  TradingIInv /\ UntroubledIsAlone /\ FetchIsFresh /\ ExitIsSized /\ SnapshotExactUnlessMoved

(* Undisturbed, a loop inside its tick is the only live one, its context   *)
(* is not done and no step of a nuke is possible.                          *)
LEMMA UntroubledTick ==
  ASSUME SnapshotIInv, Untroubled
  PROVE  /\ \A k, l \in Loops : at[k] # "idle" /\ at[l] # "idle" => k = l
         /\ \A l \in Loops : at[l] # "idle" => ~CtxDone(l)
         /\ ~NukeStep
<1> USE DEF SnapshotIInv, TradingIInv, UntroubledIsAlone
<1>1. \A l \in Loops : at[l] # "idle" => Alive(l)
  BY DEF LoopTypeOK, Alive
<1>2. \A k, l \in Loops : Alive(k) /\ Alive(l) => k = l
  BY DEF ControlIInv, OneArmedLoop, CtxDone
<1>3. ~NukeStep
  BY DEF NukeStep, NukeCopy, NukeClose, NukeFlattenEnds, Flattened, NukeFlattened, NukeHaltStep,
         Halt, NukeHalt, FlattenInsideNuke, Paper!FlattenBook, Paper!FlattenClose,
         Paper!FlattenFails, Paper!FlattenReturns
<1> QED BY <1>1, <1>2, <1>3

(* A disturbance is remembered: a step that ends undisturbed began so, and *)
(* ends with no nuke and no live loop whose context is done.               *)
LEMMA TroubleStays ==
  ASSUME SnapshotIInv, TradingNext
  PROVE  UntroubledIsAlone' /\ (Untroubled' => Untroubled)
  BY DEF TradingNext, History, NewTrouble, ContextDone, UntroubledIsAlone, Untroubled,
         SnapshotIInv, TradingIInv, HistoryTypeOK, Alive, CtxDone

(* A step of a tick that fills or replaces nothing leaves the snapshot and *)
(* the venue's positions alone; it fetches them as they are, and decides   *)
(* on exits of just what the snapshot shows.                               *)
LEMMA QuietTickStep ==
  ASSUME SnapshotIInv, Untroubled, NEW l \in Loops, TickStart(l) \/ TickStep(l),
         ~PlaceFill(l), ~ReplacePositions(l)
  PROVE  /\ UNCHANGED <<positions, snapshot>>
         /\ \A k \in Loops \ {l} : at'[k] = at[k] /\ order'[k] = order[k] /\ fetched'[k] = fetched[k]
         /\ at[l] # "replace"
         /\ at'[l] = "replace" => fetched'[l] = positions
         /\ at'[l] \in {"place", "fill"} /\ order'[l].reduceOnly = TRUE =>
              order'[l].qty = -snapshot[order'[l].sym]
<1> USE DEF SnapshotIInv, TradingIInv, LoopTypeOK
<1>1. ~CtxDone(l) \/ at[l] = "idle"
  BY UntroubledTick
<1>2. UNCHANGED <<positions, snapshot>>
  BY DEF TickStart, TickStep, TickReturns, TickSignals, SignalsDone, NextInstrument, FlattenSignal,
         PausedBreak, OppositeSignal, EntrySignal, Handling, PlaceBook, Paper!PlaceBook, PlaceFails,
         LogFill, LogFillLost, FetchPositions, paperVars
<1>3. \A k \in Loops \ {l} : at'[k] = at[k] /\ order'[k] = order[k] /\ fetched'[k] = fetched[k]
  BY DEF TickStart, TickStep, TickReturns, TickSignals, SignalsDone, NextInstrument, FlattenSignal,
         PausedBreak, OppositeSignal, EntrySignal, Handling, Exit, Enter, Drop, Decide, PlaceBook,
         PlaceFails, PlaceReturns, LogFill, LogFillLost, FetchPositions, Goto
<1>4. at[l] # "replace"
  BY DEF TickStart, LoopTick, TickStep, TickReturns, TickSignals, SignalsDone, FlattenSignal,
         PausedBreak, OppositeSignal, EntrySignal, Handling, PlaceBook, PlaceFails, LogFill,
         LogFillLost, FetchPositions, InTick
<1>5. at'[l] = "replace" => fetched'[l] = positions
  <2>1. CASE FetchPositions(l)
    BY <1>1, <2>1 DEF FetchPositions, InTick
  <2>2. CASE ~FetchPositions(l)
    BY <1>4, <2>2
    DEF TickStart, TickStep, TickReturns, TickSignals, SignalsDone, NextInstrument, FlattenSignal,
        PausedBreak, OppositeSignal, EntrySignal, Handling, Exit, Enter, Drop, Decide, PlaceBook,
        PlaceFails, PlaceReturns, LogFill, LogFillLost, Goto
  <2> QED BY <2>1, <2>2
<1>6. at'[l] \in {"place", "fill"} /\ order'[l].reduceOnly = TRUE =>
        order'[l].qty = -snapshot[order'[l].sym]
  <2>1. CASE FlattenSignal(l) \/ OppositeSignal(l) \/ EntrySignal(l)
    BY <2>1 DEF FlattenSignal, OppositeSignal, EntrySignal, Handling, InTick, Exit, Enter, Drop,
                Decide, Goto
  <2>2. CASE PlaceBook(l)
    BY <2>2 DEF PlaceBook, InTick, ExitIsSized
  <2>3. CASE ~(FlattenSignal(l) \/ OppositeSignal(l) \/ EntrySignal(l) \/ PlaceBook(l))
    BY <2>3
    DEF TickStart, TickStep, TickReturns, TickSignals, SignalsDone, NextInstrument, PausedBreak,
        Handling, InTick, PlaceFails, PlaceReturns, LogFill, LogFillLost, FetchPositions, Goto
  <2> QED BY <2>1, <2>2, <2>3
<1> QED BY <1>2, <1>3, <1>4, <1>5, <1>6

(* Nothing disturbs the invariant's own steps: outside the symbol a step   *)
(* fills, what agreed goes on agreeing.                                    *)
LEMMA NextSnapshotIInv ==
  ASSUME SnapshotIInv, TradingNext
  PROVE  SnapshotIInv'
<1> USE DEF SnapshotIInv
<1>1. TradingIInv'
  BY NextTradingIInv
<1>2. UntroubledIsAlone' /\ (Untroubled' => Untroubled)
  BY TroubleStays
<1> SUFFICES ASSUME Untroubled, Untroubled'
             PROVE  FetchIsFresh' /\ ExitIsSized' /\ SnapshotExactUnlessMoved'
  BY <1>1, <1>2 DEF FetchIsFresh, ExitIsSized, SnapshotExactUnlessMoved, Untroubled
<1>3. /\ moved' = IF Replaced THEN {}
                  ELSE IF Filled THEN moved \cup {Last(orders').sym} ELSE moved
      /\ \A s \in Symbols \ moved : snapshot[s] = positions[s]
      /\ snapshot \in [Symbols -> Int] /\ positions \in [Symbols -> Int]
  BY DEF TradingNext, History, SnapshotExactUnlessMoved, Untroubled, TradingIInv, LoopTypeOK,
         Venue!PaperIInv, Venue!PaperTypeOK
<1>4. ASSUME NEW l \in Loops, PlaceFill(l)
      PROVE  FetchIsFresh' /\ ExitIsSized' /\ SnapshotExactUnlessMoved'
  <2>1. UNCHANGED <<snapshot, fetched>> /\ at[l] = "fill" /\ at'[l] \in {"signals", "log"}
        /\ \A k \in Loops \ {l} : at'[k] = at[k] /\ order'[k] = order[k]
    BY <1>4 DEF PlaceFill, InTick, PlaceReturns, Goto, TradingIInv, LoopTypeOK
  <2>2. \A k \in Loops \ {l} : at[k] = "idle"
    BY <2>1, UntroubledTick
  <2>3. FetchIsFresh' /\ ExitIsSized'
    BY <2>1, <2>2 DEF FetchIsFresh, ExitIsSized
  <2>4. PICK p \in pending : FillOf(p)
    BY <1>4, FilledIsPlacement, <1>1 DEF TradingIInv
  <2>5. Filled /\ ~Replaced
    BY <1>4, <2>1, <2>2, FilledIsPlacement DEF Replaced
  <2> QED BY <1>3, <2>1, <2>3, <2>4, <2>5
          DEF SnapshotExactUnlessMoved, FillOf, Paper!FilledOrder
<1>5. ASSUME NEW l \in Loops, ReplacePositions(l)
      PROVE  FetchIsFresh' /\ ExitIsSized' /\ SnapshotExactUnlessMoved'
  <2>1. at[l] = "replace" /\ at' = [at EXCEPT ![l] = "idle"] /\ snapshot' = fetched[l]
        /\ UNCHANGED positions
    BY <1>5 DEF ReplacePositions, Goto, paperVars
  <2>2. \A k \in Loops : at'[k] = "idle"
    BY <2>1, UntroubledTick DEF TradingIInv, LoopTypeOK
  <2> QED BY <1>3, <2>1, <2>2 DEF FetchIsFresh, ExitIsSized, SnapshotExactUnlessMoved
<1>6. ASSUME NEW l \in Loops, TickStart(l) \/ TickStep(l), ~PlaceFill(l), ~ReplacePositions(l)
      PROVE  FetchIsFresh' /\ ExitIsSized' /\ SnapshotExactUnlessMoved'
  <2>1. /\ UNCHANGED <<positions, snapshot>>
        /\ \A k \in Loops \ {l} : at'[k] = at[k] /\ order'[k] = order[k] /\ fetched'[k] = fetched[k]
        /\ at[l] # "replace"
        /\ at'[l] = "replace" => fetched'[l] = positions
        /\ at'[l] \in {"place", "fill"} /\ order'[l].reduceOnly = TRUE =>
             order'[l].qty = -snapshot[order'[l].sym]
    BY <1>6, QuietTickStep
  <2>2. moved \subseteq moved'
    BY <1>3, <2>1 DEF Replaced
  <2> QED BY <1>3, <2>1, <2>2 DEF FetchIsFresh, ExitIsSized, SnapshotExactUnlessMoved
<1>7. CASE ControlStep \/ NukeConfirm
  <2>1. UNCHANGED <<paperVars, loopVars>>
    BY <1>7 DEF ControlStep, NukeConfirm
  <2> QED BY <1>3, <2>1 DEF paperVars, loopVars, FetchIsFresh, ExitIsSized,
                            SnapshotExactUnlessMoved, Replaced
<1> QED BY <1>4, <1>5, <1>6, <1>7, UntroubledTick DEF TradingNext

(* The snapshot layer holds throughout every behaviour.                    *)
LEMMA SnapshotInvariant == TradingSafety => []SnapshotIInv
<1>1. TradingInit => SnapshotIInv
  BY InitTradingIInv
  DEF TradingInit, ControlInit, Paper!PaperInit, SnapshotIInv, UntroubledIsAlone, FetchIsFresh,
      ExitIsSized, SnapshotExactUnlessMoved, Alive, Flat, Paper!NoneOpen
<1>2. SnapshotIInv /\ [TradingNext]_tradingVars => SnapshotIInv'
  <2>1. ASSUME SnapshotIInv, UNCHANGED tradingVars PROVE SnapshotIInv'
    <3>1. TradingIInv'
      BY <2>1, NextTradingIInv DEF SnapshotIInv
    <3> QED BY <2>1, <3>1
            DEF SnapshotIInv, UntroubledIsAlone, FetchIsFresh, ExitIsSized, Untroubled, Alive,
                CtxDone, SnapshotExactUnlessMoved, tradingVars, controlVars, paperVars, loopVars,
                historyVars
  <2> QED BY <2>1, NextSnapshotIInv
<1> QED BY <1>1, <1>2, PTL DEF TradingSafety

(* While one loop runs undisturbed the portfolio snapshot is the venue's   *)
(* truth on every symbol not filled on since the last reconcile.           *)
THEOREM SnapshotIsVenueTruth == TradingSafety => []SnapshotExactUnlessMoved
<1>1. SnapshotIInv => SnapshotExactUnlessMoved
  BY DEF SnapshotIInv
<1> QED BY <1>1, SnapshotInvariant, PTL

(* An undisturbed loop's exit leaves its symbol flat, unless the symbol    *)
(* was filled on since the snapshot that sized the exit.                   *)
THEOREM ExitsCloseWhatTheySaw == TradingSafety => ExitClosesUnmoved
<1>1. SnapshotIInv /\ [TradingNext]_tradingVars =>
        [Filled /\ Last(orders').reduceOnly /\ "snapshot" \notin trouble' =>
           LET s == Last(orders').sym IN s \in moved \/ positions'[s] = 0]_tradingVars
  <2> SUFFICES ASSUME SnapshotIInv, TradingNext, Filled, Last(orders').reduceOnly, Untroubled',
                      Last(orders').sym \notin moved
               PROVE  positions'[Last(orders').sym] = 0
    BY DEF Untroubled
  <2> USE DEF SnapshotIInv, TradingIInv
  <2>1. Untroubled
    BY TroubleStays
  <2>2. PICK p \in pending : FillOf(p)
    BY FilledIsPlacement
  <2>3. PICK l \in Loops : p.by = l /\ PlaceFill(l)
    BY <2>1, <2>2, UntroubledTick DEF FillOf, NukeStep
  <2>4. at[l] = "fill" /\ p.sym = order[l].sym /\ p.qty = order[l].qty
        /\ p.reduceOnly = order[l].reduceOnly
    BY <2>3, TradingAssumption DEF PlacementIsOrder
  <2>5. order[l].reduceOnly \in BOOLEAN /\ order[l].sym \in Symbols
    BY DEF LoopTypeOK, Intent
  <2>6. Last(orders').sym = p.sym /\ Last(orders').reduceOnly = p.reduceOnly
    BY ONLY <2>2 DEF FillOf, Paper!FilledOrder
  <2>7. p.qty = -snapshot[p.sym]
    <3>1. order[l].reduceOnly = TRUE
      BY <2>4, <2>5, <2>6, Zenon
    <3> QED BY <2>1, <2>4, <3>1 DEF ExitIsSized
  <2>8. snapshot[p.sym] = positions[p.sym] /\ positions[p.sym] \in Int
    BY <2>1, <2>4, <2>5, <2>6
    DEF SnapshotExactUnlessMoved, Untroubled, Venue!PaperIInv, Venue!PaperTypeOK
  <2> QED BY <2>2, <2>6, <2>7, <2>8 DEF FillOf
<1> QED BY <1>1, SnapshotInvariant, PTL DEF TradingSafety, ExitClosesUnmoved

----------------------------------------------------------------------------
(* The pause.  A loop can put an entry in its hand only while the bot is   *)
(* not paused, and each entry that fills leaves a hand: the entries filled *)
(* since the pause and those still in hand never outnumber the loops.      *)
InFlight == {l \in Loops : EntryInFlight(l)}

(* There are at most as many entries in flight as loops.                   *)
LEMMA InFlightIsFinite ==
  /\ IsFiniteSet(InFlight) /\ IsFiniteSet(Loops)
  /\ Cardinality(InFlight) \in Nat /\ Cardinality(Loops) \in Nat
  /\ Cardinality(InFlight) <= Cardinality(Loops)
<1>1. IsFiniteSet(Loops) /\ InFlight \subseteq Loops
  BY TradingAssumption DEF InFlight
<1> QED BY <1>1, FS_Subset, FS_CardinalityType

(* While paused nothing new comes in flight: a flatten signal gives exits  *)
(* only and any other signal ends the list.                                *)
LEMMA PausedDecidesNoEntry ==
  ASSUME TradingIInv, TradingNext, paused
  PROVE  InFlight' \subseteq InFlight
<1> SUFFICES ASSUME NEW k \in Loops, EntryInFlight(k)' PROVE EntryInFlight(k)
  BY DEF InFlight
<1> USE DEF EntryInFlight, TradingIInv, LoopTypeOK
<1>1. ASSUME NEW l \in Loops, TickStart(l) \/ TickStep(l) PROVE EntryInFlight(k)
  <2>1. CASE k = l
    <3>1. CASE FlattenSignal(l)
      BY <1>1, <2>1, <3>1 DEF FlattenSignal, Handling, InTick, Exit, Drop, Decide, Goto
    <3>2. CASE PlaceBook(l)
      BY <2>1, <3>2 DEF PlaceBook, InTick
    <3>3. CASE ~(FlattenSignal(l) \/ PlaceBook(l))
      BY <1>1, <2>1, <3>3
      DEF TickStart, TickStep, TickReturns, TickSignals, SignalsDone, NextInstrument, PausedBreak,
          OppositeSignal, EntrySignal, Handling, InTick, PlaceFails, PlaceFill, PlaceReturns,
          LogFill, LogFillLost, FetchPositions, ReplacePositions, Goto
    <3> QED BY <3>1, <3>2, <3>3
  <2>2. CASE k # l
    <3>1. at'[k] = at[k] /\ order'[k] = order[k]
      BY <1>1, <2>2
      DEF TickStart, TickStep, TickReturns, TickSignals, SignalsDone, NextInstrument,
          FlattenSignal, PausedBreak, OppositeSignal, EntrySignal, Handling, Exit, Enter, Drop,
          Decide, PlaceBook, PlaceFails, PlaceFill, PlaceReturns, LogFill, LogFillLost,
          FetchPositions, ReplacePositions, Goto
    <3> QED BY <3>1
  <2> QED BY <2>1, <2>2
<1>2. CASE ControlStep \/ NukeConfirm \/ NukeStep
  BY <1>2 DEF ControlStep, NukeConfirm, NukeStep, NukeCopy, NukeClose, NukeFlattenEnds,
              NukeHaltStep, loopVars
<1> QED BY <1>1, <1>2 DEF TradingNext

(* An entry that fills while paused was in flight and is not any more.     *)
LEMMA EntryFillLeavesFlight ==
  ASSUME TradingIInv, TradingNext, Filled, ~Last(orders').reduceOnly
  PROVE  \E l \in InFlight : l \notin InFlight'
<1> USE DEF TradingIInv
<1>1. PICK p \in pending : FillOf(p)
  BY FilledIsPlacement
<1>2. Last(orders').reduceOnly = p.reduceOnly
  BY <1>1 DEF FillOf, Paper!FilledOrder
<1>3. p.by # Nuker
  BY <1>2, TradingAssumption DEF PlacementIsOrder
<1>4. PICK l \in Loops : p.by = l /\ PlaceFill(l)
  BY <1>1, <1>3 DEF FillOf
<1>5. at[l] = "fill" /\ ~order[l].reduceOnly
  BY <1>2, <1>4, TradingAssumption DEF PlacementIsOrder
<1>6. at'[l] \in {"signals", "log"}
  BY <1>4 DEF PlaceFill, PlaceReturns, Goto, LoopTypeOK
<1> QED BY <1>5, <1>6 DEF InFlight, EntryInFlight

(* A pause lets each loop place the entry in its hand and no other.        *)
THEOREM PauseStopsEntries == TradingSafety => []PauseLetsInFlightOnly
<1> DEFINE Inv == TradingIInv /\ PauseLetsInFlightOnly
<1>1. TradingInit => Inv
  BY InitTradingIInv DEF TradingInit, ControlInit, PauseLetsInFlightOnly
<1>2. ASSUME Inv, TradingNext PROVE PauseLetsInFlightOnly'
  <2>1. CASE ~paused \/ ~paused'
    <3>1. late' = 0
      BY <1>2, <2>1 DEF TradingNext, History
    <3>2. (Cardinality(InFlight) <= Cardinality(Loops) /\ Cardinality(InFlight) \in Nat)'
      BY InFlightIsFinite, PTL
    <3> QED BY <3>1, <3>2 DEF PauseLetsInFlightOnly, InFlight
  <2>2. CASE paused /\ paused'
    <3>1. late + Cardinality(InFlight) <= Cardinality(Loops) /\ late \in Nat
      BY <1>2, <2>2 DEF PauseLetsInFlightOnly, InFlight, TradingIInv, HistoryTypeOK
    <3>2. InFlight' \subseteq InFlight
      BY <1>2, <2>2, PausedDecidesNoEntry
    <3>3. CASE Filled /\ ~Last(orders').reduceOnly
      <4>1. PICK l \in InFlight : l \notin InFlight'
        BY <1>2, <3>3, EntryFillLeavesFlight
      <4>2. Cardinality(InFlight \ {l}) = Cardinality(InFlight) - 1 /\ IsFiniteSet(InFlight \ {l})
        BY <4>1, InFlightIsFinite, FS_RemoveElement
      <4>3. Cardinality(InFlight') <= Cardinality(InFlight \ {l}) /\ Cardinality(InFlight') \in Nat
        BY <3>2, <4>1, <4>2, FS_Subset, FS_CardinalityType
      <4>4. late' = late + 1
        BY <1>2, <2>2, <3>3 DEF TradingNext, History
      <4> QED BY <3>1, <4>2, <4>3, <4>4, InFlightIsFinite DEF PauseLetsInFlightOnly, InFlight
    <3>4. CASE ~(Filled /\ ~Last(orders').reduceOnly)
      <4>1. late' = late
        BY <1>2, <2>2, <3>4 DEF TradingNext, History
      <4>2. Cardinality(InFlight') <= Cardinality(InFlight) /\ Cardinality(InFlight') \in Nat
        BY <3>2, InFlightIsFinite, FS_Subset, FS_CardinalityType
      <4> QED BY <3>1, <4>1, <4>2, InFlightIsFinite DEF PauseLetsInFlightOnly, InFlight
    <3> QED BY <3>3, <3>4
  <2> QED BY <2>1, <2>2
<1>3. Inv /\ [TradingNext]_tradingVars => Inv'
  <2>1. ASSUME Inv, UNCHANGED tradingVars PROVE PauseLetsInFlightOnly'
    BY <2>1 DEF PauseLetsInFlightOnly, EntryInFlight, tradingVars, controlVars, loopVars, historyVars
  <2> QED BY <1>2, <2>1, NextTradingIInv
<1>4. Inv => PauseLetsInFlightOnly
  OBVIOUS
<1> QED BY <1>1, <1>3, <1>4, PTL DEF TradingSafety

----------------------------------------------------------------------------
(* The venue's orders and the fills table.  Every step but the nuke's      *)
(* cancels is one the venue knows, and those only mark orders.             *)
THEOREM PositionsAreFilledOrders == TradingSafety => []Paper!PositionsAreNetFills
<1>1. TradingInit => Venue!PositionsAreNetFills
  <2>1. TradingInit => Venue!PaperInit
    BY DEF TradingInit, Paper!PaperInit, Venue!PaperInit, Paper!NoneOpen, Venue!NoneOpen
  <2> QED BY <2>1, Venue!InitNetFills, TradingAssumption DEF Venue!PaperAssumption
<1>2. TradingIInv /\ Venue!PositionsAreNetFills /\ [TradingNext]_tradingVars =>
        Venue!PositionsAreNetFills'
  <2> SUFFICES ASSUME TradingIInv, Venue!PositionsAreNetFills, [TradingNext]_tradingVars
               PROVE  Venue!PositionsAreNetFills'
    OBVIOUS
  <2>1. CASE NukeHaltStep
    <3>1. Venue!CancelWorking /\ UNCHANGED positions /\ orders \in Seq(Venue!Order)
      BY <2>1 DEF NukeHaltStep, Paper!CancelWorking, Venue!CancelWorking, TradingIInv,
                  Venue!PaperIInv, Venue!PaperTypeOK
    <3>2. \A s \in Symbols : Venue!NetFilled(s)' = Venue!NetFilled(s)
      BY <3>1, Venue!CancelsKeepNet, TradingAssumption DEF Venue!PaperAssumption
    <3> QED BY <3>1, <3>2 DEF Venue!PositionsAreNetFills
  <2>2. CASE UNCHANGED tradingVars
    BY <2>2 DEF tradingVars, paperVars, Venue!PositionsAreNetFills, Venue!NetFilled
  <2>3. CASE TradingNext /\ ~NukeHaltStep
    BY <2>3, StepsAreVenueSteps, Venue!NextKeepsNet, TradingAssumption
    DEF Venue!PaperAssumption, TradingIInv
  <2> QED BY <2>1, <2>2, <2>3
<1>3. Venue!PositionsAreNetFills => Paper!PositionsAreNetFills
  <2>1. \A f : Venue!SumFunction(f) = Paper!SumFunction(f)
    BY DEF Venue!SumFunction, Venue!SumFunctionOnSet, Venue!FoldFunctionOnSet,
           Venue!MapThenFoldSet, Paper!SumFunction, Paper!SumFunctionOnSet,
           Paper!FoldFunctionOnSet, Paper!MapThenFoldSet
  <2> QED BY <2>1 DEF Venue!PositionsAreNetFills, Paper!PositionsAreNetFills, Venue!NetFilled,
                      Paper!NetFilled
<1> QED BY <1>1, <1>2, <1>3, TradingInvariant, PTL DEF TradingSafety

(* What a loop has filled and not logged yet is part of the sum just while *)
(* it is about to insert it.                                               *)
LEMMA UnloggedIsKept ==
  ASSUME NEW s \in Symbols,
         \A k \in Loops : /\ at'[k] = "log" <=> at[k] = "log"
                          /\ at[k] = "log" => order'[k] = order[k]
  PROVE  Unlogged(s)' = Unlogged(s)
<1> DEFINE before == [l \in {k \in Loops : at[k] = "log" /\ order[k].sym = s} |-> order[l].qty]
           after == [l \in {k \in Loops : at'[k] = "log" /\ order'[k].sym = s} |-> order'[l].qty]
<1>1. IsFiniteSet(DOMAIN before)
  BY TradingAssumption, FS_Subset
<1>2. DOMAIN after = DOMAIN before /\ \A l \in DOMAIN before : after[l] = before[l]
  OBVIOUS
<1>3. SumFunction(after) = SumFunction(before)
  <2> HIDE DEF before, after
  <2> QED BY <1>1, <1>2, TotalOfEqual
<1> QED BY <1>3 DEF Unlogged

(* A fill a loop comes to hold adds its quantity.                          *)
LEMMA FillIsUnlogged ==
  ASSUME LoopTypeOK, NEW l \in Loops, at[l] # "log", at'[l] = "log", order' = order,
         \A k \in Loops \ {l} : at'[k] = at[k], NEW s \in Symbols
  PROVE  /\ Unlogged(s) \in Int
         /\ Unlogged(s)' = Unlogged(s) + IF order[l].sym = s THEN order[l].qty ELSE 0
<1> DEFINE before == [i \in {k \in Loops : at[k] = "log" /\ order[k].sym = s} |-> order[i].qty]
           after == [i \in {k \in Loops : at'[k] = "log" /\ order'[k].sym = s} |-> order'[i].qty]
<1>1. IsFiniteSet(DOMAIN before)
  BY TradingAssumption, FS_Subset
<1>2. \A k \in Loops : order[k].qty \in Int
  BY DEF LoopTypeOK, Intent
<1>3. Unlogged(s) = SumFunction(before) /\ Unlogged(s)' = SumFunction(after)
  BY DEF Unlogged
<1>4. SumFunction(before) \in Int
  BY <1>1, <1>2, TotalIsInt
<1>5. \A i \in DOMAIN before : after[i] = before[i]
  OBVIOUS
<1>6. CASE order[l].sym = s
  <2>1. /\ DOMAIN after = DOMAIN before \cup {l} /\ l \notin DOMAIN before
        /\ after[l] = order[l].qty /\ \A i \in DOMAIN after : after[i] \in Int
    BY <1>2, <1>6
  <2>2. SumFunction(after) = SumFunction(before) + after[l]
    <3> HIDE DEF before, after
    <3> QED BY <1>1, <1>5, <2>1, TotalAddsOne
  <2> QED BY <1>3, <1>4, <1>6, <2>1, <2>2
<1>7. CASE order[l].sym # s
  <2>1. DOMAIN after = DOMAIN before
    BY <1>7
  <2>2. SumFunction(after) = SumFunction(before)
    <3> HIDE DEF before, after
    <3> QED BY <1>1, <1>5, <2>1, TotalOfEqual
  <2>3. Unlogged(s) \in Int /\ Unlogged(s)' = Unlogged(s)
    BY ONLY <1>3, <1>4, <2>2, Zenon
  <2> QED BY ONLY <1>7, <2>3, SMT
<1> QED BY <1>6, <1>7

(* Its insert takes the quantity out.                                      *)
LEMMA LoggedIsTakenOut ==
  ASSUME LoopTypeOK, NEW l \in Loops, at[l] = "log", at'[l] # "log",
         \A k \in Loops \ {l} : at'[k] = at[k] /\ order'[k] = order[k], NEW s \in Symbols
  PROVE  /\ Unlogged(s)' \in Int
         /\ Unlogged(s) = Unlogged(s)' + IF order[l].sym = s THEN order[l].qty ELSE 0
<1> DEFINE before == [i \in {k \in Loops : at[k] = "log" /\ order[k].sym = s} |-> order[i].qty]
           after == [i \in {k \in Loops : at'[k] = "log" /\ order'[k].sym = s} |-> order'[i].qty]
<1>1. IsFiniteSet(DOMAIN after)
  BY TradingAssumption, FS_Subset
<1>2. \A k \in Loops : order[k].qty \in Int
  BY DEF LoopTypeOK, Intent
<1>3. Unlogged(s) = SumFunction(before) /\ Unlogged(s)' = SumFunction(after)
  BY DEF Unlogged
<1>4. \A i \in DOMAIN after : before[i] = after[i] /\ after[i] \in Int
  BY <1>2
<1>5. SumFunction(after) \in Int
  <2> HIDE DEF after
  <2> QED BY <1>1, <1>4, TotalIsInt
<1>6. CASE order[l].sym = s
  <2>1. /\ DOMAIN before = DOMAIN after \cup {l} /\ l \notin DOMAIN after
        /\ before[l] = order[l].qty /\ \A i \in DOMAIN before : before[i] \in Int
    BY <1>2, <1>6
  <2>2. SumFunction(before) = SumFunction(after) + before[l]
    <3> HIDE DEF before, after
    <3> QED BY <1>1, <1>4, <2>1, TotalAddsOne
  <2> QED BY <1>3, <1>5, <1>6, <2>1, <2>2
<1>7. CASE order[l].sym # s
  <2>1. DOMAIN before = DOMAIN after
    BY <1>7
  <2>2. SumFunction(before) = SumFunction(after)
    <3> HIDE DEF before, after
    <3> QED BY <1>1, <1>4, <2>1, TotalOfEqual
  <2>3. Unlogged(s)' \in Int /\ Unlogged(s) = Unlogged(s)'
    BY ONLY <1>3, <1>5, <2>2, Zenon
  <2> QED BY ONLY <1>7, <2>3, SMT
<1> QED BY <1>6, <1>7

(* As long as no fill was left out of the table there is no nuke, and no   *)
(* loop between its placement and its insert has its context done: the     *)
(* answer of a fill reaches it, and so does the answer of its insert.      *)
Logged == "ledger" \notin trouble
LoggedIsOrderly ==
  Logged => nuke = "idle" /\ \A l \in Loops : at[l] \in {"fill", "log"} => ~CtxDone(l)

LedgerIInv == TradingIInv /\ LoggedIsOrderly /\ LedgerFollowsFills

(* A fill left out is remembered.                                          *)
LEMMA LostFillStays ==
  ASSUME LedgerIInv, TradingNext
  PROVE  LoggedIsOrderly' /\ (Logged' => Logged /\ ~InsertFailed)
  BY DEF TradingNext, History, NewTrouble, FillRacesContext, LoggedIsOrderly, Logged,
         LedgerIInv, TradingIInv, HistoryTypeOK, CtxDone

(* A step of a tick that neither fills nor inserts moves no quantity.      *)
LEMMA OtherTickStepsKeepLedger ==
  ASSUME TradingIInv, NEW l \in Loops, TickStart(l) \/ TickStep(l),
         ~PlaceFill(l), ~LogFill(l), ~LogFillLost(l)
  PROVE  /\ UNCHANGED <<positions, ledger>>
         /\ \A k \in Loops : /\ at'[k] = "log" <=> at[k] = "log"
                             /\ at[k] = "log" => order'[k] = order[k]
<1> USE DEF TradingIInv, LoopTypeOK
<1>1. UNCHANGED <<positions, ledger>>
  BY DEF TickStart, TickStep, TickReturns, TickSignals, SignalsDone, NextInstrument, FlattenSignal,
         PausedBreak, OppositeSignal, EntrySignal, Handling, PlaceBook, Paper!PlaceBook, PlaceFails,
         FetchPositions, ReplacePositions, paperVars
<1>2. \A k \in Loops \ {l} : at'[k] = at[k] /\ order'[k] = order[k]
  BY DEF TickStart, TickStep, TickReturns, TickSignals, SignalsDone, NextInstrument, FlattenSignal,
         PausedBreak, OppositeSignal, EntrySignal, Handling, Exit, Enter, Drop, Decide, PlaceBook,
         PlaceFails, PlaceReturns, FetchPositions, ReplacePositions, Goto
<1>3. at[l] # "log" /\ at'[l] # "log"
  BY DEF TickStart, LoopTick, TickStep, TickReturns, TickSignals, SignalsDone, NextInstrument,
         FlattenSignal, PausedBreak, OppositeSignal, EntrySignal, Handling, Exit, Enter, Drop,
         Decide, PlaceBook, PlaceFails, PlaceReturns, FetchPositions, ReplacePositions, InTick, Goto
<1> QED BY <1>1, <1>2, <1>3

(* As long as nothing was left out, positions and table move together, the *)
(* loops' fills on their way to the table aside.                           *)
LEMMA NextLedgerIInv ==
  ASSUME LedgerIInv, TradingNext
  PROVE  LedgerIInv'
<1> USE DEF LedgerIInv
<1>1. TradingIInv' /\ LoggedIsOrderly' /\ (Logged' => Logged /\ ~InsertFailed)
  BY NextTradingIInv, LostFillStays
<1> SUFFICES ASSUME Logged, Logged', ~InsertFailed, NEW s \in Symbols
             PROVE  positions'[s] = ledger'[s] + Unlogged(s)'
  BY <1>1 DEF LedgerFollowsFills, Logged
<1>2. /\ positions[s] = ledger[s] + Unlogged(s)
      /\ positions[s] \in Int /\ ledger \in [Symbols -> Int] /\ LoopTypeOK
  BY DEF LedgerFollowsFills, Logged, TradingIInv, LoopTypeOK, Venue!PaperIInv, Venue!PaperTypeOK
<1>3. ASSUME NEW l \in Loops, PlaceFill(l) PROVE positions'[s] = ledger'[s] + Unlogged(s)'
  <2>1. at[l] = "fill" /\ ~CtxDone(l)
    BY <1>3 DEF PlaceFill, InTick, LoggedIsOrderly
  <2>2. /\ at'[l] = "log" /\ order' = order /\ ledger' = ledger
        /\ \A k \in Loops \ {l} : at'[k] = at[k]
    BY <1>2, <1>3, <2>1 DEF PlaceFill, Goto, LoopTypeOK
  <2>3. PICK p \in pending : FillOf(p)
    BY <1>3, FilledIsPlacement
  <2>4. p.by = l
    <3>1. PICK k \in Loops : at[k] = "fill" /\ at'[k] = "log" /\ p.by = k
      <4>1. p.by # Nuker
        BY <1>3, <2>3, TradingAssumption
        DEF FillOf, PlaceFill, NukeClose, InTick, FlattenInsideNuke, TradingIInv, LoggedIsOrderly,
            Paper!FlattenBook, Paper!FlattenClose, Paper!FlattenFails, Paper!FlattenReturns
      <4>2. PICK k \in Loops : p.by = k /\ PlaceFill(k)
        BY <2>3, <4>1 DEF FillOf
      <4> QED BY <1>2, <4>2 DEF PlaceFill, InTick, Goto, LoggedIsOrderly, LoopTypeOK
    <3> QED BY <2>2, <3>1
  <2>5. p.sym = order[l].sym /\ p.qty = order[l].qty
    BY <2>4, TradingAssumption DEF TradingIInv, PlacementIsOrder
  <2>6. /\ Unlogged(s) \in Int
        /\ Unlogged(s)' = Unlogged(s) + IF order[l].sym = s THEN order[l].qty ELSE 0
    BY <1>2, <2>1, <2>2, FillIsUnlogged
  <2>7. positions'[s] = positions[s] + IF order[l].sym = s THEN order[l].qty ELSE 0
    BY <1>2, <2>3, <2>5 DEF FillOf
  <2>8. order[l].qty \in Int
    BY <1>2 DEF LoopTypeOK, Intent
  <2> QED BY <1>2, <2>2, <2>6, <2>7, <2>8
<1>4. ASSUME NEW l \in Loops, LogFill(l) PROVE positions'[s] = ledger'[s] + Unlogged(s)'
  <2>1. /\ at[l] = "log" /\ at'[l] # "log" /\ positions' = positions
        /\ ledger'[s] = ledger[s] + IF order[l].sym = s THEN order[l].qty ELSE 0
        /\ \A k \in Loops \ {l} : at'[k] = at[k] /\ order'[k] = order[k]
    BY <1>2, <1>4 DEF LogFill, InTick, PlaceReturns, Goto, LoopTypeOK, Intent, paperVars
  <2>2. /\ Unlogged(s)' \in Int
        /\ Unlogged(s) = Unlogged(s)' + IF order[l].sym = s THEN order[l].qty ELSE 0
    BY <1>2, <2>1, LoggedIsTakenOut
  <2>3. order[l].qty \in Int
    BY <1>2 DEF LoopTypeOK, Intent
  <2> QED BY <1>2, <2>1, <2>2, <2>3
<1>5. ASSUME NEW l \in Loops, LogFillLost(l) PROVE FALSE
  BY <1>2, <1>5 DEF LogFillLost, InTick, PlaceReturns, Goto, InsertFailed, LoggedIsOrderly, LoopTypeOK
<1>6. CASE /\ UNCHANGED <<positions, ledger>>
           /\ \A k \in Loops : /\ at'[k] = "log" <=> at[k] = "log"
                               /\ at[k] = "log" => order'[k] = order[k]
  BY <1>2, <1>6, UnloggedIsKept
<1>7. ASSUME NEW l \in Loops, TickStart(l) \/ TickStep(l)
      PROVE  positions'[s] = ledger'[s] + Unlogged(s)'
  BY <1>3, <1>4, <1>5, <1>6, <1>7, OtherTickStepsKeepLedger
<1>8. CASE ControlStep \/ NukeConfirm
  BY <1>6, <1>8 DEF ControlStep, NukeConfirm, paperVars, loopVars
<1>9. ~NukeStep
  BY DEF NukeStep, NukeCopy, NukeClose, NukeFlattenEnds, Flattened, NukeFlattened, NukeHaltStep,
         Halt, NukeHalt, FlattenInsideNuke, Paper!FlattenBook, Paper!FlattenClose,
         Paper!FlattenFails, Paper!FlattenReturns, LoggedIsOrderly, TradingIInv
<1> QED BY <1>7, <1>8, <1>9 DEF TradingNext

(* The fills table nets to the venue's positions, fills on their way to it *)
(* aside, as long as none raced a cancelled context, no insert failed and  *)
(* no nuke closed positions.                                               *)
THEOREM LedgerIsVenueTruth == TradingSafety => []LedgerFollowsFills
<1>1. TradingInit => LedgerIInv
  <2> SUFFICES ASSUME TradingInit PROVE LoggedIsOrderly /\ LedgerFollowsFills
    BY InitTradingIInv DEF LedgerIInv
  <2>1. LoggedIsOrderly
    BY DEF LoggedIsOrderly, TradingInit, ControlInit
  <2>2. ASSUME NEW s \in Symbols PROVE Unlogged(s) = 0
    <3> DEFINE none == [l \in {k \in Loops : at[k] = "log" /\ order[k].sym = s} |-> order[l].qty]
    <3>1. DOMAIN none = {}
      BY DEF TradingInit
    <3>2. SumFunction(none) = 0
      <4> HIDE DEF none
      <4> QED BY <3>1, TotalOfNone
    <3> QED BY <3>2 DEF Unlogged
  <2> QED BY <2>1, <2>2 DEF LedgerFollowsFills, TradingInit, Paper!PaperInit, Paper!NoneOpen, Flat
<1>2. LedgerIInv /\ [TradingNext]_tradingVars => LedgerIInv'
  <2>1. ASSUME LedgerIInv, UNCHANGED tradingVars PROVE LedgerIInv'
    <3>1. TradingIInv'
      BY <2>1, NextTradingIInv DEF LedgerIInv
    <3> QED BY <2>1, <3>1
            DEF LedgerIInv, LoggedIsOrderly, Logged, CtxDone, LedgerFollowsFills, Unlogged,
                tradingVars, controlVars, paperVars, loopVars, historyVars
  <2> QED BY <2>1, NextLedgerIInv
<1>3. LedgerIInv => LedgerFollowsFills
  BY DEF LedgerIInv
<1> QED BY <1>1, <1>2, <1>3, PTL DEF TradingSafety
=============================================================================
