--------------------------- MODULE PortfolioProofs ---------------------------
(***************************************************************************)
(* Proofs about the portfolio state, for any keys, venues, instruments,    *)
(* cash, results, limits and length of the day, the clock's bound included *)
(* as a parameter.                                                         *)
(***************************************************************************)
EXTENDS Portfolio, SumProofs, SequenceTheorems

(* Only a reconcile has venues to ask. *)
PollsInReconcile == pc # "reconcile" => polls = {}

(* A flat key has no entry time. *)
FlatIsUntimed == \A k \in Keys \ open : opened[k] = NoTime

(* From its venue's fetch on, a timed position has a row: that is why the  *)
(* prune spares its timer.                                                 *)
FetchedHasRow ==
  pc \in {"reconcile", "prune", "holds"} =>
    \A k \in (Traded \cap open) \ missed :
      opened[k] # NoTime /\ VenueOf[k] \notin polls => k \in rows

(* While holds are enforced, a key that is due was given its exit or is    *)
(* still to come.                                                          *)
DueIsServed ==
  pc = "holds" /\ ~Hard =>
    \A k \in Traded : Due(k) => k \in tried \/ \E i \in DOMAIN todo : todo[i] = k

(* The baseline of a tick that has visited an instrument is of the day of  *)
(* that visit.                                                             *)
BaselineOfVisit ==
  pc \in {"signals", "reconcile"} \/ (pc = "visit" /\ todo = <<>>)
    => baseDay = Day(now) \/ ahead

(* The baseline is never older than the equity it is compared with, nor    *)
(* of a day to come.                                                       *)
BaselineKeepsUp == baseDay <= Day(clock) /\ (Day(equityAt) <= baseDay \/ ahead)

PortfolioIInv ==
  /\ PortfolioTypeOK
  /\ PollsInReconcile
  /\ FlatIsUntimed
  /\ HeldIsTimed
  /\ FetchedHasRow
  /\ DueIsServed
  /\ BaselineOfVisit
  /\ BaselineKeepsUp

----------------------------------------------------------------------------
(* Division by a day keeps the order of times. *)
LEMMA DayIsMonotone ==
  ASSUME NEW x \in Nat, NEW y \in Nat, x <= y
  PROVE  Day(x) \in Nat /\ Day(y) \in Nat /\ Day(x) <= Day(y)
<1>1. DayLength \in Nat \ {0}
  BY PortfolioAssumption
<1>2. PICK q \in Nat : q = Day(x)
  BY <1>1, SMT DEF Day
<1>3. PICK p \in Nat : p = Day(y)
  BY <1>1, SMT DEF Day
<1>4. DayLength * q <= x
  BY <1>1, <1>2, SMT DEF Day
<1>5. y < DayLength * (p + 1)
  BY <1>1, <1>3, SMT DEF Day
<1>6. ~(q > p)
  <2>1. ASSUME q > p PROVE FALSE
    <3>1. q >= p + 1
      BY <2>1
    <3>2. DayLength * q >= DayLength * (p + 1)
      BY <1>1, <3>1, SMT
    <3> QED BY <1>1, <1>4, <1>5, <3>2, SMT
  <2> QED BY <2>1
<1> QED BY <1>2, <1>3, <1>6, SMT

(* The instruments the loop goes through are traded keys. *)
LEMMA InstrumentsAreTraded ==
  /\ Instruments \in Seq(Traded) /\ Instruments # <<>>
  /\ Traded \subseteq Keys /\ Polled \subseteq Venues
<1>1. Instruments \in Seq(Keys) /\ Instruments # <<>> /\ VenueOf \in [Keys -> Venues]
  BY PortfolioAssumption
<1>2. Traded \subseteq Keys
  BY <1>1 DEF Traded
<1>3. Polled \subseteq Venues
  BY <1>1, <1>2 DEF Polled
<1>4. Instruments \in [1..Len(Instruments) -> Traded] /\ Len(Instruments) \in Nat
  BY <1>1 DEF Traded
<1>5. Instruments \in Seq(Traded)
  BY <1>4, SeqDef
<1> QED BY <1>1, <1>2, <1>3, <1>5

(* Going on to the next instrument. *)
LEMMA TailIsTraded ==
  ASSUME NEW s \in Seq(Traded), s # <<>>
  PROVE  Head(s) \in Traded /\ Tail(s) \in Seq(Traded)
  OBVIOUS

(* No timer runs. *)
LEMMA NeverIsEarly ==
  ASSUME clock \in Nat
  PROVE  Never \in [Keys -> NoTime..clock]
  BY DEF Never, NoTime

(* What was to come and is not next comes later.                           *)
LEMMA RestIsToCome ==
  ASSUME NEW s \in Seq(Traded), s # <<>>, NEW i \in DOMAIN s, s[i] # Head(s)
  PROVE  \E j \in DOMAIN Tail(s) : Tail(s)[j] = s[i]
<1>1. i \in 2..Len(s)
  OBVIOUS
<1>2. i - 1 \in DOMAIN Tail(s) /\ Tail(s)[i - 1] = s[i]
  BY <1>1
<1> QED BY <1>2

(* What a venue adds to the total is a natural number. *)
LEMMA AddUpIsNat ==
  ASSUME total \in Nat, NEW cash \in Nat, NEW r \in Int
  PROVE  AddUp(cash, r) \in Nat
  BY DEF AddUp, AtLeastZero

(* An order changes positions only. *)
LEMMA AfterOrderIsKeys ==
  ASSUME open \in SUBSET Keys, NEW k \in Keys, NEW S \in AfterOrder(k)
  PROVE  S \in SUBSET Keys
<1>1. Elsewhere[k] \in SUBSET Keys
  BY PortfolioAssumption
<1> QED BY <1>1 DEF AfterOrder

(* At the start nothing is open and the baseline is of the first day.      *)
LEMMA InitPortfolioIInv == PortfolioInit => PortfolioIInv
<1> SUFFICES ASSUME PortfolioInit PROVE PortfolioIInv
  OBVIOUS
<1> USE DEF PortfolioInit
<1>1. 0 \in Nat /\ Day(0) \in Nat /\ Day(0) = 0
  BY PortfolioAssumption, SMT DEF Day
<1>2. PortfolioTypeOK
  <2>1. <<>> \in Seq(Traded) /\ Even \in [Venues -> Int] /\ StartEquity \in Nat
    BY PortfolioAssumption DEF Even
  <2>2. Never \in [Keys -> NoTime..clock]
    BY NeverIsEarly
  <2>3. /\ trusted \in SUBSET {"total", "equity", "dayStart"}
        /\ pc \in {"idle", "visit", "signals", "reconcile", "prune", "holds"}
    BY Zenon
  <2>4. best \in [Venues -> Int] /\ worst \in [Venues -> Int]
    BY <2>1
  <2>5. entered \in [Keys -> NoTime..clock] /\ opened \in [Keys -> NoTime..clock]
    BY <2>2
  <2>6. equity \in Nat /\ dayStart \in Nat /\ equityAt \in 0..clock /\ now \in 0..clock
    BY <2>1
  <2>7. todo \in Seq(Traded) /\ (pc = "signals" => todo # <<>>)
    BY <2>1
  <2> QED BY <1>1, <2>3, <2>4, <2>5, <2>6, <2>7 DEF PortfolioTypeOK
<1>3. PollsInReconcile /\ FetchedHasRow /\ DueIsServed /\ BaselineOfVisit
  BY DEF PollsInReconcile, FetchedHasRow, DueIsServed, BaselineOfVisit
<1>4. FlatIsUntimed /\ HeldIsTimed
  BY DEF FlatIsUntimed, HeldIsTimed, Never
<1>5. BaselineKeepsUp
  BY <1>1 DEF BaselineKeepsUp
<1> QED BY <1>2, <1>3, <1>4, <1>5 DEF PortfolioIInv

----------------------------------------------------------------------------
(* Types.  A step of the loop keeps every variable in its type, and venues *)
(* to ask are left only within a reconcile.                                *)
LEMMA TypeStep ==
  ASSUME PortfolioIInv, [PortfolioNext]_portfolioVars
  PROVE  PortfolioTypeOK' /\ PollsInReconcile'
<1> USE DEF PortfolioIInv, PortfolioTypeOK, PollsInReconcile
<1> USE InstrumentsAreTraded
<1>0. Day(clock) \in Nat
  BY DayIsMonotone
<1>1. CASE ClockTick
  BY <1>1 DEF ClockTick, NoTime, brokerVars, stateVars, equityVars, tickVars
<1>2. ASSUME NEW k \in Keys, BrokerMoves(k) PROVE PortfolioTypeOK' /\ PollsInReconcile'
  BY <1>2 DEF BrokerMoves, Holding, NoTime, stateVars, equityVars, tickVars
<1>3. CASE Restart
  <2>1. Never \in [Keys -> NoTime..clock]
    BY NeverIsEarly
  <2>2. <<>> \in Seq(Traded) /\ Even \in [Venues -> Int] /\ StartEquity \in Nat
    BY PortfolioAssumption DEF Even
  <2>3. /\ trusted' \in SUBSET {"total", "equity", "dayStart"}
        /\ pc' \in {"idle", "visit", "signals", "reconcile", "prune", "holds"}
    BY <1>3, Zenon DEF Restart
  <2>4. best' \in [Venues -> Int] /\ worst' \in [Venues -> Int]
    BY <1>3, <2>2 DEF Restart
  <2>5. /\ entered' \in [Keys -> NoTime..clock'] /\ opened' \in [Keys -> NoTime..clock']
        /\ clock' = clock
    BY <1>3, <2>1 DEF Restart
  <2>6. /\ equity' \in Nat /\ dayStart' \in Nat /\ baseDay' \in Nat
        /\ equityAt' \in 0..clock' /\ now' \in 0..clock'
    BY <1>0, <1>3, <2>2 DEF Restart
  <2>7. todo' \in Seq(Traded) /\ (pc' = "signals" => todo' # <<>>)
    BY <1>3, <2>2 DEF Restart
  <2>8. /\ open' \in SUBSET Keys /\ rows' \in SUBSET Keys /\ polls' = {} /\ total' \in Nat
        /\ missed' \in SUBSET open' /\ tried' \in SUBSET Traded
    BY <1>3 DEF Restart
  <2>9. ahead' \in BOOLEAN
    BY <1>3, Zenon DEF Restart
  <2> QED BY <2>3, <2>4, <2>5, <2>6, <2>7, <2>8, <2>9
<1>4. CASE TickStart
  BY <1>4 DEF TickStart, brokerVars, stateVars, equityVars
<1>5. CASE BeginVisit
  <2>1. /\ dayStart' \in Nat /\ baseDay' \in Nat /\ ahead' \in BOOLEAN
        /\ trusted' \in SUBSET {"total", "equity", "dayStart"}
    BY <1>0, <1>5 DEF BeginVisit, RollDailyIfNeeded, Baseline
  <2> QED BY <1>5, <2>1 DEF BeginVisit, brokerVars, stateVars
<1>6. CASE Entry
  <2>1. Head(todo) \in Keys
    BY <1>6, TailIsTraded DEF Entry
  <2>2. open' \in SUBSET Keys
    BY <1>6, <2>1, AfterOrderIsKeys DEF Entry
  <2>3. /\ missed' \in SUBSET open'
        /\ opened' \in [Keys -> NoTime..clock] /\ entered' \in [Keys -> NoTime..clock]
    BY <1>6 DEF Entry, Track, NoTime
  <2> QED BY <1>6, <2>2, <2>3 DEF Entry, equityVars, tickVars
<1>7. CASE UntrackedOrder
  <2>1. Head(todo) \in Keys
    BY <1>7, TailIsTraded DEF UntrackedOrder
  <2>2. open' \in SUBSET Keys
    BY <1>7, <2>1, AfterOrderIsKeys DEF UntrackedOrder, Holding
  <2>3. missed' \in SUBSET open' /\ opened' \in [Keys -> NoTime..clock]
    BY <1>7 DEF UntrackedOrder, Holding, NoTime
  <2> QED BY <1>7, <2>2, <2>3 DEF UntrackedOrder, stateVars, equityVars, tickVars
<1>8. CASE EndVisit
  <2>1. Tail(todo) \in Seq(Traded)
    BY <1>8, TailIsTraded DEF EndVisit
  <2> QED BY <1>8, <2>1 DEF EndVisit, brokerVars, stateVars, equityVars
<1>9. CASE StartReconcile
  BY <1>9 DEF StartReconcile, brokerVars, stateVars
<1>10. ASSUME NEW v \in Polled, ReconcileVenue(v) PROVE PortfolioTypeOK' /\ PollsInReconcile'
  <2>1. Cash[v] \in Nat /\ Results \subseteq Int /\ 0 \in Int
    BY PortfolioAssumption
  <2> DEFINE Fetched == /\ rows' \in SUBSET Keys /\ total' \in Nat
                        /\ missed' \in SUBSET open
                        /\ best' \in [Venues -> Int] /\ worst' \in [Venues -> Int]
                        /\ trusted' \in SUBSET {"total", "equity", "dayStart"}
  <2>2. ASSUME NEW cash \in Nat, NEW r \in Int, Listed(v, r, cash) PROVE Fetched
    BY <2>2, AddUpIsNat DEF Listed, At
  <2>3. ASSUME NEW cash \in Nat, NotListed(v, cash) PROVE Fetched
    <3>1. total' \in Nat
      BY <2>3, AddUpIsNat DEF NotListed
    <3>2. rows' \in SUBSET Keys /\ missed' \in SUBSET open
      BY <2>3 DEF NotListed
    <3>3. trusted' \in SUBSET {"total", "equity", "dayStart"}
      BY <2>3 DEF NotListed
    <3> QED BY <2>3, <3>1, <3>2, <3>3 DEF NotListed
  <2>4. PICK cash \in {0, Cash[v]} : (\E r \in Results : Listed(v, r, cash)) \/ NotListed(v, cash)
    BY <1>10 DEF ReconcileVenue
  <2>5. cash \in Nat
    BY <2>1
  <2> HIDE DEF Fetched
  <2>6. Fetched
    BY <2>1, <2>2, <2>3, <2>4, <2>5
  <2> USE DEF Fetched
  <2> QED BY <1>10, <2>6 DEF ReconcileVenue
<1>11. CASE SetEquity
  BY <1>11 DEF SetEquity, brokerVars, stateVars
<1>12. CASE Prune
  BY <1>12 DEF Prune, NoTime, brokerVars, equityVars
<1>13. CASE SkipHold
  <2>1. Tail(todo) \in Seq(Traded)
    BY <1>13, TailIsTraded DEF SkipHold
  <2> QED BY <1>13, <2>1 DEF SkipHold, brokerVars, stateVars, equityVars
<1>14. CASE ExitHold
  <2>1. Head(todo) \in Traded /\ Head(todo) \in Keys /\ Tail(todo) \in Seq(Traded)
    BY <1>14, TailIsTraded DEF ExitHold
  <2>2. open' \in SUBSET Keys
    BY <1>14, <2>1, AfterOrderIsKeys DEF ExitHold, Holding
  <2> QED BY <1>14, <2>1, <2>2 DEF ExitHold, Holding, NoTime, stateVars, equityVars
<1>15. CASE EndTick
  BY <1>15 DEF EndTick, brokerVars, stateVars, equityVars
<1>16. CASE UNCHANGED portfolioVars
  BY <1>16 DEF portfolioVars, brokerVars, stateVars, equityVars, tickVars
<1> QED
  BY <1>1, <1>2, <1>3, <1>4, <1>5, <1>6, <1>7, <1>8, <1>9, <1>10, <1>11, <1>12, <1>13, <1>14,
     <1>15, <1>16 DEF PortfolioNext, World, Loop

----------------------------------------------------------------------------
(* Timers.  Whatever positions remain, an untimed or closed key stays so.  *)
LEMMA HoldingKeeps ==
  ASSUME PortfolioIInv, NEW S \in SUBSET Keys, Holding(S), entered' = entered
  PROVE  /\ FlatIsUntimed' /\ HeldIsTimed'
         /\ pc' = pc /\ rows' = rows /\ polls' = polls => FetchedHasRow'
<1> USE DEF PortfolioIInv, PortfolioTypeOK, Holding
<1>1. FlatIsUntimed'
  BY DEF FlatIsUntimed
<1>2. \A k \in (Traded \cap open') \ missed' :
        opened'[k] # NoTime => k \in (Traded \cap open) \ missed /\ opened'[k] = opened[k]
  BY InstrumentsAreTraded DEF FlatIsUntimed
<1>3. HeldIsTimed'
  BY <1>2 DEF HeldIsTimed
<1>4. ASSUME pc' = pc, rows' = rows, polls' = polls PROVE FetchedHasRow'
  BY <1>2, <1>4 DEF FetchedHasRow
<1> QED BY <1>1, <1>3, <1>4

(* The invariants on timers, step by step: an entry times its key, a fetch *)
(* gives what it lists a row and notes what it fails to list, and the      *)
(* prune drops no timer of a key with a row.                               *)
LEMMA HoldStep ==
  ASSUME PortfolioIInv, [PortfolioNext]_portfolioVars
  PROVE  FlatIsUntimed' /\ HeldIsTimed' /\ FetchedHasRow'
<1> USE DEF PortfolioIInv
<1> DEFINE Same == UNCHANGED <<open, opened, missed, entered, rows, polls>>
<1>0. ASSUME Same, pc' = pc \/ pc' \notin {"reconcile", "prune", "holds"}
      PROVE  FlatIsUntimed' /\ HeldIsTimed' /\ FetchedHasRow'
  BY <1>0 DEF FlatIsUntimed, HeldIsTimed, FetchedHasRow
<1>1. CASE ClockTick
  BY <1>0, <1>1 DEF ClockTick, brokerVars, stateVars, equityVars, tickVars
<1>2. ASSUME NEW k \in Keys, BrokerMoves(k) PROVE FlatIsUntimed' /\ HeldIsTimed' /\ FetchedHasRow'
  <2>1. PICK S \in SUBSET Keys : Holding(S)
    BY <1>2 DEF BrokerMoves, PortfolioTypeOK
  <2> QED BY <1>2, <2>1, HoldingKeeps DEF BrokerMoves, stateVars, tickVars
<1>3. CASE Restart
  BY <1>3 DEF Restart, Never, FlatIsUntimed, HeldIsTimed, FetchedHasRow
<1>4. CASE TickStart
  BY <1>0, <1>4 DEF TickStart, brokerVars, stateVars
<1>5. CASE BeginVisit
  BY <1>0, <1>5 DEF BeginVisit, brokerVars, stateVars
<1>6. CASE Entry
  <2>1. PICK S \in AfterOrder(Head(todo)) :
          /\ open' = S
          /\ opened' = [j \in Keys |-> IF j \notin S THEN NoTime
                                       ELSE IF j = Head(todo) THEN now ELSE opened[j]]
          /\ missed' = (missed \cap S) \ {Head(todo)}
          /\ Track(Head(todo))
    BY <1>6 DEF Entry
  <2>2. Head(todo) \in Keys /\ Traded \subseteq Keys
    BY <1>6, TailIsTraded, InstrumentsAreTraded DEF Entry, PortfolioTypeOK
  <2>3. FlatIsUntimed'
    BY <2>1 DEF FlatIsUntimed
  <2>4. ASSUME NEW j \in (Traded \cap open') \ missed', opened'[j] # NoTime
        PROVE  entered'[j] = opened'[j]
    <3>1. CASE j = Head(todo)
      BY <2>1, <2>2, <2>4, <3>1 DEF Track, PortfolioTypeOK
    <3>2. CASE j # Head(todo)
      <4>1. opened'[j] = opened[j] /\ entered'[j] = entered[j]
        BY <2>1, <2>2, <2>4, <3>2 DEF Track, PortfolioTypeOK
      <4>2. j \in (Traded \cap open) \ missed
        BY <2>1, <2>2, <2>4, <3>2, <4>1 DEF FlatIsUntimed
      <4> QED BY <2>4, <4>1, <4>2 DEF HeldIsTimed
    <3> QED BY <3>1, <3>2
  <2>5. HeldIsTimed'
    BY <2>4 DEF HeldIsTimed
  <2>6. FetchedHasRow'
    BY <1>6 DEF Entry, tickVars, FetchedHasRow
  <2> QED BY <2>3, <2>5, <2>6
<1>7. CASE UntrackedOrder
  <2>1. PICK S \in AfterOrder(Head(todo)) : Holding(S)
    BY <1>7 DEF UntrackedOrder
  <2>2. S \in SUBSET Keys
    BY <1>7, TailIsTraded, InstrumentsAreTraded, AfterOrderIsKeys DEF UntrackedOrder, PortfolioTypeOK
  <2> QED BY <1>7, <2>1, <2>2, HoldingKeeps DEF UntrackedOrder, stateVars, tickVars
<1>8. CASE EndVisit
  BY <1>0, <1>8 DEF EndVisit, brokerVars, stateVars
<1>9. CASE StartReconcile
  <2>1. \A k \in Traded : VenueOf[k] \in polls'
    BY <1>9 DEF StartReconcile, Polled
  <2> QED BY <1>9, <2>1 DEF StartReconcile, brokerVars, stateVars, FlatIsUntimed, HeldIsTimed,
                            FetchedHasRow
<1>10. ASSUME NEW v \in Polled, ReconcileVenue(v)
       PROVE  FlatIsUntimed' /\ HeldIsTimed' /\ FetchedHasRow'
  <2>1. /\ pc = "reconcile" /\ pc' = pc /\ polls' = polls \ {v}
        /\ UNCHANGED <<open, opened, entered>>
    BY <1>10 DEF ReconcileVenue
  <2>2. missed \subseteq missed'
    BY <1>10 DEF ReconcileVenue, Listed, NotListed
  <2>3. FlatIsUntimed' /\ HeldIsTimed'
    BY <2>1, <2>2 DEF FlatIsUntimed, HeldIsTimed
  <2>4. \/ missed' = missed /\ rows' = (rows \ At(v)) \cup (open \cap At(v))
        \/ missed' = missed \cup (open \cap At(v)) /\ rows' = rows \ At(v)
    BY <1>10 DEF ReconcileVenue, Listed, NotListed
  <2>5. ASSUME NEW k \in (Traded \cap open) \ missed', opened[k] # NoTime,
               VenueOf[k] \notin polls \ {v}
        PROVE  k \in rows'
    <3>1. k \in Keys
      BY InstrumentsAreTraded
    <3>2. CASE VenueOf[k] = v
      BY <2>4, <2>5, <3>1, <3>2 DEF At
    <3>3. CASE VenueOf[k] # v
      <4>1. k \in rows
        BY <2>1, <2>2, <2>5, <3>3 DEF FetchedHasRow
      <4> QED BY <2>4, <3>3, <4>1 DEF At
    <3> QED BY <3>2, <3>3
  <2>6. FetchedHasRow'
    BY <2>1, <2>5 DEF FetchedHasRow
  <2> QED BY <2>3, <2>6
<1>11. CASE SetEquity
  BY <1>11 DEF SetEquity, brokerVars, stateVars, FlatIsUntimed, HeldIsTimed, FetchedHasRow
<1>12. CASE Prune
  <2>1. \A k \in (Traded \cap open) \ missed : opened[k] # NoTime => k \in rows
    BY <1>12 DEF Prune, FetchedHasRow, PollsInReconcile
  <2>2. HeldIsTimed'
    BY <1>12, <2>1, InstrumentsAreTraded DEF Prune, brokerVars, HeldIsTimed, PortfolioTypeOK
  <2> QED BY <1>12, <2>2 DEF Prune, brokerVars, FlatIsUntimed, FetchedHasRow
<1>13. CASE SkipHold
  BY <1>0, <1>13 DEF SkipHold, brokerVars, stateVars
<1>14. CASE ExitHold
  <2>1. PICK S \in {open} \cup AfterOrder(Head(todo)) : Holding(S)
    BY <1>14 DEF ExitHold
  <2>2. S \in SUBSET Keys
    BY <1>14, TailIsTraded, InstrumentsAreTraded, AfterOrderIsKeys DEF ExitHold, PortfolioTypeOK
  <2> QED BY <1>14, <2>1, <2>2, HoldingKeeps DEF ExitHold, stateVars
<1>15. CASE EndTick
  BY <1>0, <1>15 DEF EndTick, brokerVars, stateVars
<1>16. CASE UNCHANGED portfolioVars
  BY <1>0, <1>16 DEF portfolioVars, brokerVars, stateVars, tickVars
<1> QED
  BY <1>1, <1>2, <1>3, <1>4, <1>5, <1>6, <1>7, <1>8, <1>9, <1>10, <1>11, <1>12, <1>13, <1>14,
     <1>15, <1>16 DEF PortfolioNext, World, Loop

----------------------------------------------------------------------------
(* Exits.  Only the visit of a key takes it off what is still to come, and *)
(* it leaves a key that is due with its exit tried.                        *)
LEMMA ServeStep ==
  ASSUME PortfolioIInv, [PortfolioNext]_portfolioVars
  PROVE  DueIsServed'
<1> USE DEF PortfolioIInv
<1>0. ASSUME UNCHANGED <<pc, todo, tried, now, rows, entered, equity, dayStart>>
      PROVE  DueIsServed'
  BY <1>0 DEF DueIsServed, Due, Hard
<1>a. ASSUME pc' # "holds" PROVE DueIsServed'
  BY <1>a DEF DueIsServed
<1>1. CASE ClockTick
  BY <1>0, <1>1 DEF ClockTick, stateVars, equityVars, tickVars
<1>2. ASSUME NEW k \in Keys, BrokerMoves(k) PROVE DueIsServed'
  BY <1>0, <1>2 DEF BrokerMoves, stateVars, equityVars, tickVars
<1>3. CASE Restart \/ TickStart \/ BeginVisit \/ EndVisit \/ StartReconcile \/ SetEquity \/ EndTick
  BY <1>a, <1>3 DEF Restart, TickStart, BeginVisit, EndVisit, StartReconcile, SetEquity, EndTick
<1>4. CASE Entry \/ UntrackedOrder
  BY <1>a, <1>4 DEF Entry, UntrackedOrder, tickVars
<1>5. ASSUME NEW v \in Polled, ReconcileVenue(v) PROVE DueIsServed'
  BY <1>a, <1>5 DEF ReconcileVenue
<1>6. CASE Prune
  <2>1. \A k \in Traded : \E i \in DOMAIN todo' : todo'[i] = k
    BY <1>6 DEF Prune, Traded
  <2> QED BY <2>1 DEF DueIsServed
<1>7. CASE SkipHold
  <2>1. /\ todo # <<>> /\ todo \in Seq(Traded) /\ todo' = Tail(todo) /\ pc = "holds"
        /\ ~Due(Head(todo)) \/ Hard
        /\ UNCHANGED <<tried, now, rows, entered, equity, dayStart>>
    BY <1>7 DEF SkipHold, stateVars, equityVars, PortfolioTypeOK
  <2>2. ASSUME ~Hard, NEW k \in Traded, Due(k), k \notin tried
        PROVE  \E j \in DOMAIN todo' : todo'[j] = k
    <3>1. PICK i \in DOMAIN todo : todo[i] = k
      BY <2>1, <2>2 DEF DueIsServed
    <3> QED BY <2>1, <2>2, <3>1, RestIsToCome
  <2> QED BY <2>1, <2>2 DEF DueIsServed, Due, Hard
<1>8. CASE ExitHold
  <2>1. /\ todo # <<>> /\ todo \in Seq(Traded) /\ todo' = Tail(todo) /\ pc = "holds"
        /\ tried' = tried \cup {Head(todo)}
        /\ UNCHANGED <<now, rows, entered, equity, dayStart>>
    BY <1>8 DEF ExitHold, stateVars, equityVars, PortfolioTypeOK
  <2>2. ASSUME ~Hard, NEW k \in Traded, Due(k), k \notin tried'
        PROVE  \E j \in DOMAIN todo' : todo'[j] = k
    <3>1. PICK i \in DOMAIN todo : todo[i] = k
      BY <2>1, <2>2 DEF DueIsServed
    <3> QED BY <2>1, <2>2, <3>1, RestIsToCome
  <2> QED BY <2>1, <2>2 DEF DueIsServed, Due, Hard
<1>9. CASE UNCHANGED portfolioVars
  BY <1>0, <1>9 DEF portfolioVars, stateVars, equityVars, tickVars
<1> QED
  BY <1>1, <1>2, <1>3, <1>4, <1>5, <1>6, <1>7, <1>8, <1>9 DEF PortfolioNext, World, Loop

----------------------------------------------------------------------------
(* The day.  A visit rolls the baseline to its own day unless the equity   *)
(* carries that day already, and only a reconcile that crosses midnight    *)
(* makes it carry a day no visit has seen.                                 *)
LEMMA DayStep ==
  ASSUME PortfolioIInv, [PortfolioNext]_portfolioVars
  PROVE  BaselineOfVisit' /\ BaselineKeepsUp'
<1> USE DEF PortfolioIInv
<1>0. clock \in Nat /\ now \in Nat /\ baseDay \in Nat /\ equityAt \in Nat
      /\ now <= clock /\ equityAt <= clock
  BY DEF PortfolioTypeOK
<1>a. Day(clock) \in Nat /\ Day(equityAt) \in Nat /\ Day(now) \in Nat
  BY <1>0, DayIsMonotone
<1> DEFINE Same == UNCHANGED <<clock, baseDay, equityAt, ahead>>
<1>b. ASSUME Same PROVE BaselineKeepsUp'
  BY <1>b DEF BaselineKeepsUp, Day
<1>c. ASSUME Same, now' = now, pc' = pc, todo' = todo PROVE BaselineOfVisit'
  BY <1>c DEF BaselineOfVisit, Day
<1>d. ASSUME pc' \in {"idle", "prune", "holds"} PROVE BaselineOfVisit'
  BY <1>d DEF BaselineOfVisit
<1>1. CASE ClockTick
  <2>1. Day(clock) <= Day(clock')
    BY <1>0, <1>1, DayIsMonotone DEF ClockTick
  <2>2. Day(clock') \in Nat
    BY <1>0, <1>1, DayIsMonotone DEF ClockTick
  <2>3. baseDay <= Day(clock')
    BY <1>0, <1>a, <2>1, <2>2 DEF BaselineKeepsUp
  <2>4. /\ UNCHANGED <<baseDay, equityAt, ahead, now, pc, todo>>
        /\ Day(clock)' = Day(clock') /\ Day(equityAt)' = Day(equityAt) /\ Day(now)' = Day(now)
    BY <1>1 DEF ClockTick, equityVars, tickVars, Day
  <2> QED BY <2>3, <2>4 DEF BaselineKeepsUp, BaselineOfVisit
<1>2. ASSUME NEW k \in Keys, BrokerMoves(k) PROVE BaselineOfVisit' /\ BaselineKeepsUp'
  BY <1>2, <1>b, <1>c DEF BrokerMoves, equityVars, tickVars
<1>3. CASE Restart
  <2>1. /\ baseDay' = Day(clock) /\ equityAt' = clock /\ clock' = clock
        /\ Day(clock)' = Day(clock) /\ Day(equityAt)' = Day(clock)
    BY <1>3 DEF Restart, Day
  <2> QED BY <1>3, <1>a, <1>d, <2>1 DEF Restart, BaselineKeepsUp
<1>4. CASE TickStart
  BY <1>4, <1>b, InstrumentsAreTraded DEF TickStart, equityVars, BaselineOfVisit
<1>5. CASE BeginVisit
  <2>1. /\ pc' = "signals" /\ now' = clock /\ clock' = clock /\ equityAt' = equityAt
        /\ Day(now)' = Day(clock) /\ Day(clock)' = Day(clock) /\ Day(equityAt)' = Day(equityAt)
    BY <1>5 DEF BeginVisit, Day
  <2>2. CASE Day(equityAt) # Day(clock)
    <3>1. baseDay' = Day(clock)
      BY <1>5, <2>2 DEF BeginVisit, RollDailyIfNeeded, Baseline
    <3>2. Day(equityAt) <= Day(clock)
      BY <1>0, DayIsMonotone
    <3> QED BY <1>a, <2>1, <3>1, <3>2 DEF BaselineOfVisit, BaselineKeepsUp
  <2>3. CASE Day(equityAt) = Day(clock)
    <3>1. UNCHANGED <<baseDay, ahead>>
      BY <1>5, <2>3 DEF BeginVisit, RollDailyIfNeeded
    <3>2. baseDay = Day(clock) \/ ahead
      BY <1>0, <1>a, <2>3 DEF BaselineKeepsUp
    <3> QED BY <2>1, <3>1, <3>2 DEF BaselineOfVisit, BaselineKeepsUp
  <2> QED BY <2>2, <2>3
<1>6. CASE Entry
  BY <1>6, <1>b, <1>c DEF Entry, equityVars, tickVars
<1>7. CASE UntrackedOrder
  BY <1>7, <1>b, <1>c DEF UntrackedOrder, equityVars, tickVars
<1>8. CASE EndVisit
  <2>1. baseDay = Day(now) \/ ahead
    BY <1>8 DEF EndVisit, BaselineOfVisit
  <2>2. Same /\ now' = now /\ Day(now)' = Day(now)
    BY <1>8 DEF EndVisit, equityVars, Day
  <2> QED BY <1>b, <2>1, <2>2 DEF BaselineOfVisit
<1>9. CASE StartReconcile
  <2>1. baseDay = Day(now) \/ ahead
    BY <1>9 DEF StartReconcile, BaselineOfVisit
  <2>2. Same /\ now' = now /\ Day(now)' = Day(now)
    BY <1>9 DEF StartReconcile, Day
  <2> QED BY <1>b, <2>1, <2>2 DEF BaselineOfVisit
<1>10. ASSUME NEW v \in Polled, ReconcileVenue(v) PROVE BaselineOfVisit' /\ BaselineKeepsUp'
  BY <1>10, <1>b, <1>c DEF ReconcileVenue
<1>11. CASE SetEquity
  <2>1. /\ equityAt' = clock /\ clock' = clock /\ baseDay' = baseDay
        /\ ahead' = (ahead \/ Day(clock) > Day(now))
        /\ Day(clock)' = Day(clock) /\ Day(equityAt)' = Day(clock)
    BY <1>11 DEF SetEquity, Day
  <2>2. baseDay = Day(now) \/ ahead
    BY <1>11 DEF SetEquity, BaselineOfVisit
  <2>3. Day(clock) <= baseDay \/ ahead'
    <3>1. CASE Day(clock) > Day(now)
      BY <2>1, <3>1, Zenon
    <3>2. CASE ~(Day(clock) > Day(now)) /\ baseDay = Day(now)
      BY <1>a, <3>2
    <3>3. CASE ahead
      BY <2>1, <3>3, Zenon
    <3> QED BY <2>2, <3>1, <3>2, <3>3
  <2>4. BaselineKeepsUp'
    BY <2>1, <2>3 DEF BaselineKeepsUp
  <2> QED BY <1>11, <1>d, <2>4 DEF SetEquity
<1>12. CASE Prune
  BY <1>12, <1>b, <1>d DEF Prune, equityVars
<1>13. CASE SkipHold
  BY <1>13, <1>b, <1>d DEF SkipHold, equityVars
<1>14. CASE ExitHold
  BY <1>14, <1>b, <1>d DEF ExitHold, equityVars
<1>15. CASE EndTick
  BY <1>15, <1>b, <1>d DEF EndTick, equityVars
<1>16. CASE UNCHANGED portfolioVars
  BY <1>16, <1>b, <1>c DEF portfolioVars, equityVars, tickVars
<1> QED
  BY <1>1, <1>2, <1>3, <1>4, <1>5, <1>6, <1>7, <1>8, <1>9, <1>10, <1>11, <1>12, <1>13, <1>14,
     <1>15, <1>16 DEF PortfolioNext, World, Loop

----------------------------------------------------------------------------
(* The inductive invariant holds throughout.                               *)
THEOREM PortfolioInvariant == PortfolioSpec => []PortfolioIInv
<1>1. PortfolioIInv /\ [PortfolioNext]_portfolioVars => PortfolioIInv'
  BY TypeStep, HoldStep, ServeStep, DayStep DEF PortfolioIInv
<1> QED BY <1>1, InitPortfolioIInv, PTL DEF PortfolioSpec

(* The portfolio state and the phases of the tick stay in their types.     *)
THEOREM PortfolioTypeCorrect == PortfolioSpec => []PortfolioTypeOK
<1>1. PortfolioIInv => PortfolioTypeOK
  BY DEF PortfolioIInv
<1> QED BY <1>1, PortfolioInvariant, PTL

(* posEnteredAt: while every fetch lists a position the bot entered, its   *)
(* timer is that of its last entry, however the tick's phases, the         *)
(* brokers, fallback fills and restarts mix.                               *)
THEOREM HeldPositionsAreTimed == PortfolioSpec => []HeldIsTimed
<1>1. PortfolioIInv => HeldIsTimed
  BY DEF PortfolioIInv
<1> QED BY <1>1, PortfolioInvariant, PTL

(* enforceMaxHoldExits: no instrument that is overdue is passed over, for  *)
(* any instruments in any order, the hard circuit aside.                   *)
THEOREM OverdueAreExited == PortfolioSpec => []OverdueIsExited
<1>1. PortfolioIInv => OverdueIsExited
  <2> SUFFICES ASSUME PortfolioIInv, pc = "holds", todo = <<>>, ~Hard,
                      NEW k \in (Traded \cap open) \ missed,
                      opened[k] # NoTime, now - opened[k] >= MaxHold
               PROVE  k \in tried
    BY DEF OverdueIsExited
  <2> USE DEF PortfolioIInv
  <2>1. k \in rows
    BY InstrumentsAreTraded DEF FetchedHasRow, PollsInReconcile
  <2>2. entered[k] = opened[k]
    BY DEF HeldIsTimed
  <2>3. Due(k)
    BY <2>1, <2>2 DEF Due
  <2> QED BY <2>3 DEF DueIsServed
<1> QED BY <1>1, PortfolioInvariant, PTL

(* RollDailyIfNeeded: the only way to trade on an older day's baseline is  *)
(* a reconcile that crossed midnight.                                      *)
THEOREM BaselineIsOfToday == PortfolioSpec => []RolledUnlessAhead
<1>1. PortfolioIInv => RolledUnlessAhead
  BY DEF PortfolioIInv, BaselineOfVisit, RolledUnlessAhead
<1> QED BY <1>1, PortfolioInvariant, PTL

----------------------------------------------------------------------------
(* The money.  What the venues were worth at results r.                    *)
Worth(r) == [v \in Polled |-> AtLeastZero(Cash[v] + r[v])]
Most == IF Account(best) > StartEquity THEN Account(best) ELSE StartEquity

(* The venues the reconcile has asked. *)
Asked == Polled \ polls

(* A total, equity or baseline that no failed fetch is in lies between     *)
(* what the venues were worth at worst and at best; until a first total    *)
(* came through, equity and baseline are the initial equity.               *)
TotalIsWorth ==
  pc = "reconcile" /\ "total" \in trusted =>
    /\ SumFunctionOnSet(Worth(worst), Asked) <= total
    /\ total <= SumFunctionOnSet(Worth(best), Asked)
EquityIsWorth ==
  "equity" \in trusted =>
    \/ equity = StartEquity /\ dayStart = StartEquity
    \/ Account(worst) <= equity /\ equity <= Account(best)
DayStartIsWorth == "dayStart" \in trusted => dayStart <= Most

MoneyIInv == PortfolioIInv /\ TotalIsWorth /\ EquityIsWorth /\ DayStartIsWorth

(* There are finitely many venues to ask.                                  *)
LEMMA PolledIsFinite == IsFiniteSet(Polled)
<1> DEFINE n == Len(Instruments)
           f == [i \in 1..n |-> VenueOf[Instruments[i]]]
<1>1. Instruments \in Seq(Keys) /\ n \in Nat /\ DOMAIN Instruments = 1..n
  BY PortfolioAssumption, LenProperties
<1>2. f \in Surjection(1..n, Polled)
  BY <1>1 DEF Surjection, Polled, Traded
<1>3. IsFiniteSet(1..n)
  BY <1>1, FS_Interval
<1> QED BY <1>2, <1>3, FS_Surjection

(* What the venues were worth is a natural number, each and together.      *)
LEMMA WorthIsNat ==
  ASSUME NEW r \in [Venues -> Int]
  PROVE  /\ \A v \in Polled : Worth(r)[v] = AtLeastZero(Cash[v] + r[v]) /\ Worth(r)[v] \in Nat
         /\ \A S \in SUBSET Polled : SumFunctionOnSet(Worth(r), S) \in Nat
         /\ Account(r) = SumFunctionOnSet(Worth(r), Polled) /\ Account(r) \in Nat
<1>1. \A v \in Polled : Worth(r)[v] = AtLeastZero(Cash[v] + r[v]) /\ Worth(r)[v] \in Nat
  BY PortfolioAssumption, InstrumentsAreTraded DEF Worth, AtLeastZero
<1>2. \A S \in SUBSET Polled : SumFunctionOnSet(Worth(r), S) \in Nat
  BY <1>1, PolledIsFinite, FS_Subset, SumIsNat
<1>3. Account(r) = SumFunctionOnSet(Worth(r), Polled)
  BY DEF Account, Worth, SumFunction
<1> QED BY <1>1, <1>2, <1>3

(* Better results at every venue are not worth less.                       *)
LEMMA AccountIsMonotone ==
  ASSUME NEW r \in [Venues -> Int], NEW q \in [Venues -> Int], \A v \in Venues : r[v] <= q[v]
  PROVE  Account(r) <= Account(q)
<1>1. \A v \in Polled : Worth(r)[v] \in Int /\ Worth(q)[v] \in Int /\ Worth(r)[v] <= Worth(q)[v]
  <2> TAKE v \in Polled
  <2>1. v \in Venues /\ Cash[v] \in Nat /\ r[v] \in Int /\ q[v] \in Int /\ r[v] <= q[v]
    BY PortfolioAssumption, InstrumentsAreTraded
  <2>2. AtLeastZero(Cash[v] + r[v]) <= AtLeastZero(Cash[v] + q[v])
    BY <2>1 DEF AtLeastZero
  <2> QED BY <2>2, WorthIsNat
<1> QED BY <1>1, WorthIsNat, PolledIsFinite, SumIsMonotone

(* A venue more, at the result it showed, keeps a total between the worst  *)
(* and the best.                                                           *)
LEMMA OneVenueMore ==
  ASSUME NEW r \in [Venues -> Int], NEW q \in [Venues -> Int], NEW v \in Polled,
         \A u \in Polled \ {v} : q[u] = r[u], NEW S \in SUBSET Polled, v \notin S
  PROVE  SumFunctionOnSet(Worth(q), S \cup {v}) =
           SumFunctionOnSet(Worth(r), S) + AtLeastZero(Cash[v] + q[v])
<1>1. IsFiniteSet(S)
  BY PolledIsFinite, FS_Subset
<1>2. \A x \in S \cup {v} : Worth(q)[x] \in Int
  BY WorthIsNat
<1>3. SumFunctionOnSet(Worth(q), S \cup {v}) = SumFunctionOnSet(Worth(q), S) + Worth(q)[v]
  BY <1>1, <1>2, SumAddsOne
<1>4. \A x \in S : Worth(q)[x] = Worth(r)[x]
  BY WorthIsNat
<1>5. SumFunctionOnSet(Worth(q), S) = SumFunctionOnSet(Worth(r), S)
  BY <1>1, <1>4, SumOfEqualTerms
<1> QED BY <1>3, <1>5, WorthIsNat

(* At the start everything is worth what it was given.                     *)
LEMMA InitMoney == PortfolioInit => MoneyIInv
<1> SUFFICES ASSUME PortfolioInit PROVE TotalIsWorth /\ EquityIsWorth /\ DayStartIsWorth
  BY InitPortfolioIInv DEF MoneyIInv
<1>1. best \in [Venues -> Int] /\ StartEquity \in Nat
  BY PortfolioAssumption DEF PortfolioInit, Even
<1>2. Account(best) \in Nat
  BY <1>1, WorthIsNat
<1> QED BY <1>1, <1>2 DEF PortfolioInit, TotalIsWorth, EquityIsWorth, DayStartIsWorth, Most

(* A reconcile asks its venues one by one: their extremes only widen, and  *)
(* the total stays between.                                                *)
LEMMA ReconcileKeepsMoney ==
  ASSUME MoneyIInv, NEW v \in Polled, ReconcileVenue(v)
  PROVE  TotalIsWorth' /\ EquityIsWorth' /\ DayStartIsWorth'
<1> USE DEF MoneyIInv, PortfolioIInv
<1>1. /\ best \in [Venues -> Int] /\ worst \in [Venues -> Int] /\ total \in Nat
      /\ equity \in Nat /\ dayStart \in Nat /\ StartEquity \in Nat /\ v \in Venues
      /\ Results \subseteq Int /\ Cash[v] \in Nat
  BY PortfolioAssumption, InstrumentsAreTraded DEF PortfolioTypeOK
<1>2. /\ pc = "reconcile" /\ v \in polls /\ polls' = polls \ {v} /\ polls \subseteq Polled
      /\ pc' = pc /\ UNCHANGED <<equity, dayStart>>
  BY DEF ReconcileVenue, PortfolioTypeOK
<1>3. v \notin Asked /\ Asked \subseteq Polled /\ Asked' = Asked \cup {v}
  BY <1>2 DEF Asked
<1>4. ASSUME NEW cash \in {0, Cash[v]}, NEW r \in Results, Listed(v, r, cash)
      PROVE  TotalIsWorth' /\ EquityIsWorth' /\ DayStartIsWorth'
  <2>1. /\ best' \in [Venues -> Int] /\ worst' \in [Venues -> Int]
        /\ \A u \in Venues \ {v} : best'[u] = best[u] /\ worst'[u] = worst[u]
        /\ worst'[v] <= r /\ r <= best'[v] /\ worst'[v] <= worst[v] /\ best[v] <= best'[v]
    BY <1>1, <1>4 DEF Listed
  <2>2. Account(worst') <= Account(worst) /\ Account(best) <= Account(best')
    <3>1. \A u \in Venues : worst'[u] <= worst[u] /\ best[u] <= best'[u]
      BY <1>1, <2>1
    <3> QED BY ONLY <1>1, <2>1, <3>1, AccountIsMonotone
  <2>3. /\ Account(worst) \in Nat /\ Account(best) \in Nat
        /\ Account(worst') \in Nat /\ Account(best') \in Nat
    BY <1>1, <2>1, WorthIsNat
  <2>4. /\ trusted' \subseteq trusted
        /\ Account(worst)' = Account(worst') /\ Account(best)' = Account(best')
    BY <1>4 DEF Listed, Account
  <2>5. EquityIsWorth' /\ DayStartIsWorth'
    <3> HIDE DEF Account
    <3> QED BY <1>1, <1>2, <2>2, <2>3, <2>4 DEF EquityIsWorth, DayStartIsWorth, Most
  <2>6. ASSUME "total" \in trusted'
        PROVE  /\ SumFunctionOnSet(Worth(worst'), Asked \cup {v}) <= total'
               /\ total' <= SumFunctionOnSet(Worth(best'), Asked \cup {v})
    <3>1. cash = Cash[v] /\ "total" \in trusted /\ total' = total + AtLeastZero(Cash[v] + r)
      BY <1>4, <2>6 DEF Listed, AddUp
    <3>2. /\ SumFunctionOnSet(Worth(worst'), Asked \cup {v}) =
               SumFunctionOnSet(Worth(worst), Asked) + AtLeastZero(Cash[v] + worst'[v])
          /\ SumFunctionOnSet(Worth(best'), Asked \cup {v}) =
               SumFunctionOnSet(Worth(best), Asked) + AtLeastZero(Cash[v] + best'[v])
      <4>1. \A u \in Polled \ {v} : worst'[u] = worst[u] /\ best'[u] = best[u]
        BY <2>1, InstrumentsAreTraded
      <4> QED BY ONLY <1>1, <1>3, <2>1, <4>1, OneVenueMore
    <3>3. /\ SumFunctionOnSet(Worth(worst), Asked) \in Nat
          /\ SumFunctionOnSet(Worth(best), Asked) \in Nat
      BY <1>1, <1>3, WorthIsNat
    <3>4. /\ SumFunctionOnSet(Worth(worst), Asked) <= total
          /\ total <= SumFunctionOnSet(Worth(best), Asked)
      BY <1>2, <3>1 DEF TotalIsWorth
    <3>5. /\ AtLeastZero(Cash[v] + worst'[v]) <= AtLeastZero(Cash[v] + r)
          /\ AtLeastZero(Cash[v] + r) <= AtLeastZero(Cash[v] + best'[v])
          /\ AtLeastZero(Cash[v] + worst'[v]) \in Nat /\ AtLeastZero(Cash[v] + r) \in Nat
          /\ AtLeastZero(Cash[v] + best'[v]) \in Nat
      BY <1>1, <2>1 DEF AtLeastZero
    <3> QED BY ONLY <1>1, <3>1, <3>2, <3>3, <3>4, <3>5
  <2>7. TotalIsWorth'
    <3>1. /\ SumFunctionOnSet(Worth(worst), Asked)' = SumFunctionOnSet(Worth(worst'), Asked \cup {v})
          /\ SumFunctionOnSet(Worth(best), Asked)' = SumFunctionOnSet(Worth(best'), Asked \cup {v})
      BY <1>3 DEF Worth
    <3> QED BY <2>6, <3>1 DEF TotalIsWorth
  <2> QED BY <2>5, <2>7
<1>5. ASSUME NEW cash \in {0, Cash[v]}, NotListed(v, cash)
      PROVE  TotalIsWorth' /\ EquityIsWorth' /\ DayStartIsWorth'
  <2>1. UNCHANGED <<best, worst>> /\ trusted' = trusted \ {"total"}
    BY <1>5 DEF NotListed
  <2> QED BY <1>2, <2>1 DEF TotalIsWorth, EquityIsWorth, DayStartIsWorth, Most, Account
<1> QED BY <1>4, <1>5 DEF ReconcileVenue

(* No other step widens the extremes, and what it sets stays between them. *)
LEMMA MoneyStep ==
  ASSUME MoneyIInv, [PortfolioNext]_portfolioVars
  PROVE  TotalIsWorth' /\ EquityIsWorth' /\ DayStartIsWorth'
<1> USE DEF MoneyIInv, PortfolioIInv
<1>0. ASSUME UNCHANGED <<best, worst, total, polls, trusted, equity, dayStart>>,
             pc' = pc \/ pc' # "reconcile"
      PROVE  TotalIsWorth' /\ EquityIsWorth' /\ DayStartIsWorth'
  BY <1>0 DEF TotalIsWorth, EquityIsWorth, DayStartIsWorth, Most, Account, Worth, Asked
<1>a. /\ best \in [Venues -> Int] /\ worst \in [Venues -> Int] /\ total \in Nat
      /\ equity \in Nat /\ dayStart \in Nat /\ StartEquity \in Nat
      /\ Account(best) \in Nat /\ Account(worst) \in Nat
  BY PortfolioAssumption, WorthIsNat DEF PortfolioTypeOK
<1>1. CASE ClockTick \/ \E k \in Keys : BrokerMoves(k)
  BY <1>0, <1>1 DEF ClockTick, BrokerMoves, brokerVars, equityVars, tickVars
<1>2. CASE Restart
  <2>1. Account(best)' \in Nat
    <3>1. best' \in [Venues -> Int]
      BY <1>2 DEF Restart, Even
    <3>2. Account(best') \in Nat
      BY <3>1, WorthIsNat
    <3> QED BY <3>2 DEF Account
  <2> QED BY <1>2, <1>a, <2>1 DEF Restart, TotalIsWorth, EquityIsWorth, DayStartIsWorth, Most
<1>3. CASE TickStart \/ Entry \/ UntrackedOrder \/ EndVisit \/ Prune \/ SkipHold \/ ExitHold
           \/ EndTick
  BY <1>0, <1>3 DEF TickStart, Entry, UntrackedOrder, EndVisit, Prune, SkipHold, ExitHold, EndTick,
                    brokerVars, equityVars, tickVars
<1>4. CASE BeginVisit
  <2>1. UNCHANGED <<best, worst, equity>> /\ pc' = "signals"
    BY <1>4 DEF BeginVisit, brokerVars
  <2>2. Account(best)' = Account(best) /\ Account(worst)' = Account(worst)
    BY <2>1 DEF Account
  <2>3. CASE UNCHANGED <<dayStart, trusted>>
    BY <2>1, <2>2, <2>3 DEF TotalIsWorth, EquityIsWorth, DayStartIsWorth, Most
  <2>4. CASE Baseline
    BY <1>a, <2>1, <2>2, <2>4 DEF Baseline, TotalIsWorth, EquityIsWorth, DayStartIsWorth, Most
  <2> QED BY <1>4, <2>3, <2>4 DEF BeginVisit, RollDailyIfNeeded
<1>5. CASE StartReconcile
  <2>1. /\ UNCHANGED <<best, worst, equity, dayStart>> /\ total' = 0 /\ polls' = Polled
        /\ trusted' = trusted \cup {"total"}
    BY <1>5 DEF StartReconcile, brokerVars
  <2>2. Account(best)' = Account(best) /\ Account(worst)' = Account(worst) /\ Asked' = {}
    BY <2>1 DEF Account, Asked
  <2>3. SumFunctionOnSet(Worth(worst), {}) = 0 /\ SumFunctionOnSet(Worth(best), {}) = 0
    BY SumUnfolds, FS_EmptySet
  <2>4. TotalIsWorth'
    BY <2>1, <2>2, <2>3 DEF TotalIsWorth, Worth
  <2> QED BY <2>1, <2>2, <2>4 DEF EquityIsWorth, DayStartIsWorth, Most
<1>6. ASSUME NEW v \in Polled, ReconcileVenue(v)
      PROVE  TotalIsWorth' /\ EquityIsWorth' /\ DayStartIsWorth'
  BY <1>6, ReconcileKeepsMoney
<1>7. CASE SetEquity
  <2>1. /\ UNCHANGED <<best, worst, dayStart>> /\ pc = "reconcile" /\ pc' = "prune"
        /\ equity' = IF total > 0 THEN total ELSE equity
        /\ trusted' = IF total = 0 THEN trusted \ {"total"}
                      ELSE IF "total" \in trusted THEN (trusted \ {"total"}) \cup {"equity"}
                      ELSE trusted \ {"equity"}
    BY <1>7 DEF SetEquity, brokerVars
  <2>2. Account(best)' = Account(best) /\ Account(worst)' = Account(worst)
    BY <2>1 DEF Account
  <2>3. "total" \in trusted => Account(worst) <= total /\ total <= Account(best)
    <3>1. Asked = Polled
      BY <1>7 DEF SetEquity, Asked
    <3>2. /\ Account(worst) = SumFunctionOnSet(Worth(worst), Polled)
          /\ Account(best) = SumFunctionOnSet(Worth(best), Polled)
      BY <1>a, WorthIsNat
    <3> QED BY <2>1, <3>1, <3>2 DEF TotalIsWorth
  <2>4. EquityIsWorth'
    BY <1>a, <2>1, <2>2, <2>3 DEF EquityIsWorth
  <2> QED BY <2>1, <2>2, <2>4 DEF TotalIsWorth, DayStartIsWorth, Most
<1>8. CASE UNCHANGED portfolioVars
  BY <1>0, <1>8 DEF portfolioVars, brokerVars, equityVars, tickVars
<1> QED
  BY <1>1, <1>2, <1>3, <1>4, <1>5, <1>6, <1>7, <1>8 DEF PortfolioNext, World, Loop

(* A loss of HardPct percent of less, down to more, is one of more, down   *)
(* to less.                                                                *)
LEMMA LossScales ==
  ASSUME NEW d \in Nat, NEW e \in Nat, NEW m \in Nat, NEW w \in Nat, NEW h \in Nat,
         d > 0, d <= m, w <= e, (d - e) * 100 >= h * d
  PROVE  (m - w) * 100 >= h * m
<1>1. (100 - h) * d >= 100 * w
  OBVIOUS
<1>2. 100 - h >= 0
  BY <1>1
<1>3. (100 - h) * m >= (100 - h) * d
  BY <1>2
<1> QED BY <1>1, <1>3

(* With no failed fetch behind either of the amounts it compares,          *)
(* CheckDailyDrawdown stops trading only for a loss the accounts really    *)
(* had, for any venues, cash, results and limit.                           *)
THEOREM CircuitIsNeverFalse == PortfolioSpec => []CircuitNeedsLoss
<1>1. MoneyIInv /\ [PortfolioNext]_portfolioVars => MoneyIInv'
  BY MoneyStep, TypeStep, HoldStep, ServeStep, DayStep DEF MoneyIInv, PortfolioIInv
<1>2. MoneyIInv => CircuitNeedsLoss
  <2> SUFFICES ASSUME MoneyIInv, {"equity", "dayStart"} \subseteq trusted, Hard
               PROVE  (Most - Account(worst)) * 100 >= HardPct * Most
    BY DEF CircuitNeedsLoss, Most
  <2>1. /\ equity \in Nat /\ dayStart \in Nat /\ StartEquity \in Nat
        /\ Account(best) \in Nat /\ Account(worst) \in Nat /\ HardPct \in Nat \ {0}
    BY PortfolioAssumption, WorthIsNat DEF MoneyIInv, PortfolioIInv, PortfolioTypeOK
  <2>2. dayStart > 0 /\ (dayStart - equity) * 100 >= HardPct * dayStart
    BY DEF Hard
  <2>3. dayStart <= Most /\ Most \in Nat
    BY <2>1 DEF MoneyIInv, DayStartIsWorth, Most
  <2>4. equity # dayStart
    BY <2>1, <2>2
  <2>5. Account(worst) <= equity
    BY <2>4 DEF MoneyIInv, EquityIsWorth
  <2> HIDE DEF Most, Account
  <2> QED BY <2>1, <2>2, <2>3, <2>5, LossScales
<1> QED BY <1>1, <1>2, InitMoney, PTL DEF PortfolioSpec
=============================================================================
