----------------------------- MODULE TradingLoop -----------------------------
(***************************************************************************)
(* The bot trading on its paper venue: the loop goroutines of RunnerControl*)
(* with their ticks taken apart, the operator's commands and the nuke      *)
(* around them, and the PaperConnector all of them place orders on.        *)
(*                                                                         *)
(* One tick of loop l: onTick for each instrument (book, signals, at most  *)
(* one placement per signal), then reconcilePortfolio.  A step is what a   *)
(* goroutine does between two points where another can change what it      *)
(* reads: the flags it reads without runMu, the portfolio snapshot, the    *)
(* paper venue's lock, its own context.  max_position_hold is 0, as in     *)
(* configs/config.yaml, so enforceMaxHoldExits returns at once; strategies *)
(* may emit any signals; sizing and risk checks may reject any order.      *)
(***************************************************************************)
EXTENDS RunnerControl, Integers, SequencesExt

CONSTANTS
  Instruments,            \* the loop's instruments, in order
  EntrySizes,             \* quantities an accepted entry may have
  MaxSignals,             \* bound: signals one RunBar returns
  MaxFills,               \* bound: placements of the loops
  ExitOnOppositeSignal,   \* risk.exit_on_opposite_signal
  Nuker                   \* the goroutine that runs ConfirmNuke

Symbols == ToSet(Instruments)

ASSUME TradingAssumption ==
  /\ Instruments \in Seq(Symbols) /\ Instruments # <<>>
  /\ IsFiniteSet(Loops)
  /\ EntrySizes \subseteq Nat \ {0}
  /\ MaxSignals \in Nat /\ MaxFills \in Nat
  /\ ExitOnOppositeSignal \in BOOLEAN
  /\ Nuker \notin Loops

VARIABLES
  positions, orders, pending, flatten, toClose, others,   \* the paper venue
  at,           \* where each loop is in its tick
  todo,         \* instruments it still has to visit in this tick
  sigs,         \* signals it still has to act on for this instrument
  order,        \* the order it decided on
  fetched,      \* the positions its reconcile fetched
  snapshot,     \* portfolio.State.Positions
  ledger,       \* net quantity per symbol in the SQLite fills table
  moved,        \* history: symbols filled on since the snapshot was replaced
  late,         \* history: entries filled since the bot was paused
  trouble       \* history: "ledger", "snapshot": what lost track of the venue

loopVars == <<at, todo, sigs, order, fetched, snapshot, ledger>>
paperVars == <<positions, orders, pending, flatten, toClose, others>>
historyVars == <<moved, late, trouble>>
tradingVars == <<controlVars, paperVars, loopVars, historyVars>>

Paper == INSTANCE PaperConnector
           WITH Callers <- Loops, Flattener <- Nuker, Qtys <- EntrySizes

StrategySignal == [kind : {"flatten", "buy", "sell"}, sym : Symbols]
Intent == [sym : Symbols, qty : Int, reduceOnly : BOOLEAN]
NoIntent == [sym |-> Instruments[1], qty |-> 0, reduceOnly |-> FALSE]
Flat == [s \in Symbols |-> 0]

(* A loop has an order in hand just from its decision to its insert, and   *)
(* is out of its tick just when its select is.                             *)
LoopTypeOK ==
  /\ at \in [Loops -> {"idle", "enter", "signals", "place", "fill", "log", "replace"}]
  /\ todo \in [Loops -> Seq(Symbols)]
  /\ sigs \in [Loops -> Seq(StrategySignal)]
  /\ order \in [Loops -> Intent]
  /\ \A l \in Loops : order[l].qty # 0 <=> at[l] \in {"place", "fill", "log"}
  /\ \A l \in Loops : loop[l] = "tick" <=> at[l] # "idle"
  /\ fetched \in [Loops -> [Symbols -> Int]]
  /\ snapshot \in [Symbols -> Int]
  /\ ledger \in [Symbols -> Int]

HistoryTypeOK ==
  moved \in SUBSET Symbols /\ late \in Nat /\ trouble \in SUBSET {"ledger", "snapshot"}

TradingTypeOK == ControlTypeOK /\ Paper!PaperTypeOK /\ LoopTypeOK /\ HistoryTypeOK

TradingInit ==
  /\ ControlInit /\ Paper!PaperInit
  /\ at = [l \in Loops |-> "idle"] /\ todo = [l \in Loops |-> <<>>]
  /\ sigs = [l \in Loops |-> <<>>] /\ order = [l \in Loops |-> NoIntent]
  /\ fetched = [l \in Loops |-> Flat]
  /\ snapshot = Flat /\ ledger = Flat
  /\ moved = {} /\ late = 0 /\ trouble = {}

Goto(l, pc) == at' = [at EXCEPT ![l] = pc]
InTick(l, pc) == Running /\ at[l] = pc

----------------------------------------------------------------------------
(* onTick *)

TickStart(l) ==
  /\ LoopTick(l) /\ Goto(l, "enter")
  /\ todo' = [todo EXCEPT ![l] = Instruments]
  /\ UNCHANGED <<paperVars, sigs, order, fetched, snapshot, ledger>>

(* Plausible bug: the list is not consumed. *)
SameInstrument(l) ==
  /\ Goto(l, "enter")
  /\ UNCHANGED <<todo, sigs, order, fetched, snapshot, ledger>>

NextInstrument(l) ==
  /\ todo' = [todo EXCEPT ![l] = Tail(@)] /\ Goto(l, "enter")
  /\ UNCHANGED <<sigs, order, fetched, snapshot, ledger>>

(* Halted, no connector or book (always so once the context is done), or   *)
(* a strategy failed: no signals from this instrument.                     *)
TickReturns(l) ==
  /\ InTick(l, "enter") /\ todo[l] # <<>>
  /\ NextInstrument(l)
  /\ UNCHANGED <<controlVars, paperVars>>

(* Reads halted, fetches the book, runs the strategy stack. *)
TickSignals(l) ==
  /\ InTick(l, "enter") /\ todo[l] # <<>>
  /\ ~halted /\ ~CtxDone(l)
  /\ \E n \in 0..MaxSignals : \E s \in [1..n -> StrategySignal] : sigs' = [sigs EXCEPT ![l] = s]
  /\ Goto(l, "signals")
  /\ UNCHANGED <<controlVars, paperVars, todo, order, fetched, snapshot, ledger>>

SignalsDone(l) ==
  /\ InTick(l, "signals") /\ sigs[l] = <<>>
  /\ NextInstrument(l)
  /\ UNCHANGED <<controlVars, paperVars>>

Handling(l, kinds) ==
  /\ InTick(l, "signals") /\ sigs[l] # <<>> /\ Head(sigs[l]).kind \in kinds
  /\ UNCHANGED <<controlVars, paperVars, todo, fetched, snapshot, ledger>>

Drop(l) == sigs' = [sigs EXCEPT ![l] = Tail(@)] /\ UNCHANGED <<at, order>>

Decide(l, intent) ==
  /\ sigs' = [sigs EXCEPT ![l] = Tail(@)]
  /\ order' = [order EXCEPT ![l] = intent]
  /\ Goto(l, "place")

(* Plausible bug: a short is closed by selling. *)
ExitSells(l, s) ==
  \/ Decide(l, [sym |-> s, reduceOnly |-> TRUE,
                qty |-> IF snapshot[s] > 0 THEN -snapshot[s] ELSE snapshot[s]])
  \/ Drop(l)

(* closeVenuePosition: an order for the snapshot's quantity, unless the    *)
(* book, the kill switch, the drawdown circuit or PreTrade stops it.       *)
Exit(l, s) ==
  \/ Decide(l, [sym |-> s, qty |-> -snapshot[s], reduceOnly |-> TRUE])
  \/ Drop(l)

(* Plausible bug: the position is not looked up first. *)
FlattenSignalBlind(l) ==
  /\ Handling(l, {"flatten"})
  /\ LET s == Head(sigs[l]).sym IN IF ~halted THEN Exit(l, s) ELSE Drop(l)

(* Flatten signals are looked at before the pause flag. *)
FlattenSignal(l) ==
  /\ Handling(l, {"flatten"})
  /\ LET s == Head(sigs[l]).sym
     IN IF ~halted /\ snapshot[s] # 0 THEN Exit(l, s) ELSE Drop(l)

(* The first other signal ends the list while paused. *)
PausedBreak(l) ==
  /\ Handling(l, {"buy", "sell"}) /\ paused
  /\ sigs' = [sigs EXCEPT ![l] = <<>>]
  /\ UNCHANGED <<at, order>>

Direction(sig) == IF sig.kind = "buy" THEN 1 ELSE -1
Opposes(sig) == snapshot[sig.sym] * Direction(sig) < 0
ExitsFirst(sig) == ExitOnOppositeSignal /\ ~halted /\ Opposes(sig)

OppositeSignal(l) ==
  /\ Handling(l, {"buy", "sell"}) /\ ~paused
  /\ ExitsFirst(Head(sigs[l]))
  /\ Exit(l, Head(sigs[l]).sym)

Enter(l, sig) ==
  \/ \E q \in EntrySizes :
       Decide(l, [sym |-> sig.sym, qty |-> q * Direction(sig), reduceOnly |-> FALSE])
  \/ Drop(l)

(* Plausible bug: the pause flag is not consulted. *)
EntrySignalWhilePaused(l) ==
  /\ Handling(l, {"buy", "sell"})
  /\ ~ExitsFirst(Head(sigs[l]))
  /\ Enter(l, Head(sigs[l]))

EntrySignal(l) ==
  /\ Handling(l, {"buy", "sell"}) /\ ~paused
  /\ ~ExitsFirst(Head(sigs[l]))
  /\ Enter(l, Head(sigs[l]))

----------------------------------------------------------------------------
(* placeOrder on the paper venue *)

(* Plausible bug: the book request does not carry the loop's context. *)
PlaceBookNoContext(l) ==
  /\ InTick(l, "place") /\ Len(orders) < MaxFills
  /\ Paper!PlaceBook(l, order[l].sym, order[l].qty, order[l].reduceOnly)
  /\ Goto(l, "fill")
  /\ UNCHANGED <<controlVars, flatten, toClose, others, todo, sigs, order, fetched,
                 snapshot, ledger>>

PlaceBook(l) ==
  /\ InTick(l, "place") /\ ~CtxDone(l) /\ Len(orders) < MaxFills
  /\ Paper!PlaceBook(l, order[l].sym, order[l].qty, order[l].reduceOnly)
  /\ Goto(l, "fill")
  /\ UNCHANGED <<controlVars, flatten, toClose, others, todo, sigs, order, fetched,
                 snapshot, ledger>>

PlaceReturns(l) ==
  /\ Goto(l, "signals") /\ order' = [order EXCEPT ![l] = NoIntent]

PlaceFails(l) ==
  /\ InTick(l, "place") /\ PlaceReturns(l)
  /\ UNCHANGED <<controlVars, paperVars, todo, sigs, fetched, snapshot, ledger>>

(* The venue fills; a done context turns the answer into an error, and the *)
(* fill is then neither logged nor tracked.                                *)
PlaceFill(l) ==
  /\ InTick(l, "fill") /\ Paper!PlaceFill(l)
  /\ IF CtxDone(l) THEN PlaceReturns(l) ELSE Goto(l, "log") /\ UNCHANGED order
  /\ UNCHANGED <<controlVars, todo, sigs, fetched, snapshot, ledger>>

(* Plausible bug: the side of the fill is not recorded. *)
LogFillUnsigned(l) ==
  /\ InTick(l, "log") /\ ~CtxDone(l) /\ PlaceReturns(l)
  /\ ledger' = [ledger EXCEPT ![order[l].sym] =
                  @ + IF order[l].qty > 0 THEN order[l].qty ELSE -order[l].qty]
  /\ UNCHANGED <<controlVars, paperVars, todo, sigs, fetched, snapshot>>

LogFill(l) ==
  /\ InTick(l, "log") /\ ~CtxDone(l) /\ PlaceReturns(l)
  /\ ledger' = [ledger EXCEPT ![order[l].sym] = @ + order[l].qty]
  /\ UNCHANGED <<controlVars, paperVars, todo, sigs, fetched, snapshot>>

(* The insert fails, by the context or by SQLite; the error is ignored. *)
LogFillLost(l) ==
  /\ InTick(l, "log") /\ PlaceReturns(l)
  /\ UNCHANGED <<controlVars, paperVars, todo, sigs, fetched, snapshot, ledger>>

----------------------------------------------------------------------------
(* reconcilePortfolio *)

(* A fetch under a done context fails, and pos = nil stands for its answer.*)
FetchPositions(l) ==
  /\ InTick(l, "enter") /\ todo[l] = <<>> /\ Goto(l, "replace")
  /\ fetched' = [fetched EXCEPT ![l] = IF CtxDone(l) THEN Flat ELSE positions]
  /\ UNCHANGED <<controlVars, paperVars, todo, sigs, order, snapshot, ledger>>

(* Plausible bug: rows of the fetch are applied, old rows are not removed. *)
ReplaceKeepsClosed(l) ==
  /\ at[l] = "replace" /\ LoopTickEnd(l) /\ Goto(l, "idle")
  /\ snapshot' = [s \in Symbols |-> IF fetched[l][s] # 0 THEN fetched[l][s] ELSE snapshot[s]]
  /\ fetched' = [fetched EXCEPT ![l] = Flat]
  /\ UNCHANGED <<paperVars, todo, sigs, order, ledger>>

(* ReplaceVenuePositions, and the tick is over.  The locals of the tick    *)
(* are gone with it.                                                       *)
ReplacePositions(l) ==
  /\ at[l] = "replace" /\ LoopTickEnd(l) /\ Goto(l, "idle")
  /\ snapshot' = fetched[l]
  /\ fetched' = [fetched EXCEPT ![l] = Flat]
  /\ UNCHANGED <<paperVars, todo, sigs, order, ledger>>

TickStep(l) ==
  \/ TickReturns(l) \/ TickSignals(l) \/ SignalsDone(l)
  \/ FlattenSignal(l) \/ PausedBreak(l) \/ OppositeSignal(l) \/ EntrySignal(l)
  \/ PlaceBook(l) \/ PlaceFails(l) \/ PlaceFill(l) \/ LogFill(l) \/ LogFillLost(l)
  \/ FetchPositions(l) \/ ReplacePositions(l)

----------------------------------------------------------------------------
(* ConfirmNuke, whose context is main's. *)

NukeConfirm ==
  /\ Confirm /\ UNCHANGED <<paperVars, loopVars>>

NukeCopy ==
  /\ Running /\ nuke = "flatten" /\ flatten = "idle"
  /\ IF rootDone THEN Paper!FlattenRefused ELSE Paper!FlattenCopy
  /\ UNCHANGED <<controlVars, loopVars>>

NukeClose ==
  /\ Running
  /\ \/ ~rootDone /\ \E s \in Symbols : Paper!FlattenBook(s)
     \/ \E s \in Symbols : Paper!FlattenClose(s, rootDone)
     \/ Paper!FlattenFails \/ Paper!FlattenReturns
  /\ UNCHANGED <<controlVars, loopVars>>

NukeFlattenEnds ==
  /\ flatten \in {"done", "failed"} /\ Flattened
  /\ UNCHANGED <<paperVars, loopVars>>

(* CancelAllVenues cancels what still works on the paper venue, then the   *)
(* halt.  The locals of FlattenAll are gone.                               *)
NukeHaltStep ==
  /\ Halt /\ Paper!CancelWorking
  /\ flatten' = "idle"
  /\ UNCHANGED <<positions, pending, toClose, others, loopVars>>

NukeStep == NukeCopy \/ NukeClose \/ NukeFlattenEnds \/ NukeHaltStep

(* Everything of RunnerControl that leaves the ticks and the venue alone. *)
ControlStep ==
  /\ \/ Command \/ CheckConfirm \/ TelegramStops \/ Boot \/ Signal \/ Shutdown \/ ProcessEnds
     \/ (\E l \in Loops : LoopExit(l)) \/ ClockTick \/ Exited
  /\ UNCHANGED <<paperVars, loopVars>>

----------------------------------------------------------------------------
(* The history variables, and the whole system.                            *)

Filled == Len(orders') > Len(orders)
Replaced == \E l \in Loops : at[l] = "replace" /\ at'[l] = "idle"

InsertFailed == \E l \in Loops :
  at[l] = "log" /\ at'[l] = "signals" /\ ledger' = ledger /\ ~CtxDone(l)
FillRacesContext == \E l \in Loops : at'[l] \in {"fill", "log"} /\ CtxDone(l)'
ContextDone == \E l \in Loops : Alive(l)' /\ CtxDone(l)'

(* A nuke closes positions and logs no fills. *)
NewTrouble ==
  (IF nuke' # "idle" \/ InsertFailed \/ FillRacesContext THEN {"ledger"} ELSE {})
  \cup (IF nuke' # "idle" \/ ContextDone THEN {"snapshot"} ELSE {})

History ==
  /\ moved' = IF Replaced THEN {}
              ELSE IF Filled THEN moved \cup {Last(orders').sym} ELSE moved
  /\ late' = IF ~paused \/ ~paused' THEN 0
             ELSE IF Filled /\ ~Last(orders').reduceOnly THEN late + 1 ELSE late
  /\ trouble' = trouble \cup NewTrouble

TradingNext ==
  /\ \/ ControlStep
     \/ \E l \in Loops : TickStart(l) \/ TickStep(l)
     \/ NukeConfirm \/ NukeStep
  /\ History

(* The fairness of RunnerControl, a tick and a nuke taken apart: every     *)
(* call inside them has a timeout or a fair mutex.                         *)
TradingFairness ==
  /\ SF_tradingVars(Boot /\ TradingNext) /\ SF_tradingVars(Shutdown /\ TradingNext)
  /\ WF_tradingVars(ProcessEnds /\ TradingNext)
  /\ WF_tradingVars(NukeConfirm /\ TradingNext) /\ WF_tradingVars(NukeStep /\ TradingNext)
  /\ \A l \in Loops : /\ WF_tradingVars(TickStep(l) /\ TradingNext)
                      /\ SF_tradingVars(LoopExit(l) /\ TradingNext)

TradingSafety == TradingInit /\ [][TradingNext]_tradingVars
TradingSpec == TradingSafety /\ TradingFairness

----------------------------------------------------------------------------
(* The control plane behaves as RunnerControl says, ticks taken apart.     *)
ImplementsControl == ControlSpec

EntryInFlight(l) == at[l] \in {"place", "fill"} /\ ~order[l].reduceOnly

(* Net quantity of s that loops have filled and not yet logged. *)
Unlogged(s) ==
  SumFunction([l \in {k \in Loops : at[k] = "log" /\ order[k].sym = s} |-> order[l].qty])

(* The fills table nets to the venue's positions, loops between fill and   *)
(* insert aside, unless a fill raced a cancelled context, an insert failed *)
(* or a nuke closed positions (it logs no fills).                          *)
LedgerFollowsFills ==
  "ledger" \notin trouble =>
    \A s \in Symbols : positions[s] = ledger[s] + Unlogged(s)

(* Outside the symbols filled on since the last reconcile, the portfolio   *)
(* snapshot is the venue's truth while one loop runs undisturbed.          *)
SnapshotExactUnlessMoved ==
  "snapshot" \notin trouble =>
    \A s \in Symbols \ moved : snapshot[s] = positions[s]

(* An exit leaves a symbol flat if nothing else was filled on it since the *)
(* snapshot that sized it.                                                 *)
ExitClosesUnmoved ==
  [][Filled /\ Last(orders').reduceOnly /\ "snapshot" \notin trouble' =>
       LET s == Last(orders').sym IN s \in moved \/ positions'[s] = 0]_tradingVars

(* A pause lets through the entry each loop was already placing and no     *)
(* other, however many signals are left in its tick.                       *)
PauseLetsInFlightOnly ==
  paused => late + Cardinality({l \in Loops : EntryInFlight(l)}) <= Cardinality(Loops)

(* Documented as "/pause - no new entries (still manages positions)"       *)
(* (telegram.go): a paused loop drops no flatten signal unseen.            *)
PausedStillFlattens ==
  [][\A l \in Loops : paused /\ at[l] = "signals" /\ sigs'[l] = <<>> =>
       \A i \in 2..Len(sigs[l]) : sigs[l][i].kind # "flatten"]_tradingVars

(* After the halt no loop sends an order to the venue any more: what still *)
(* fills was sent before, or is the closing order of a further nuke.       *)
QuietAfterHalt ==
  [][halted => \A p \in pending' : p \in pending \/ p.by = Nuker]_tradingVars

(* Documented as "flatten all and halt" (telegram.go): the venue is flat   *)
(* when a nuke whose flatten succeeded halts the bot.                      *)
NukeLeavesFlat ==
  [][nuke = "cancelAll" /\ nuke' = "idle" /\ flatten = "done" => positions' = Flat]_tradingVars

(* A halt takes effect: in the end every loop is out of its tick and gone *)
(* and no order is on its way, unless the process ends first.              *)
HaltSettles ==
  halted ~> (~Running \/ \A l \in Loops : loop[l] = "gone" /\ ~Paper!Busy(l))
=============================================================================
