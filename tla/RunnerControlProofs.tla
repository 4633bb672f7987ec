------------------------- MODULE RunnerControlProofs -------------------------
(***************************************************************************)
(* Proofs of the safety properties of RunnerControl, for every number of   *)
(* loop goroutines, confirmation window and clock bound.                   *)
(***************************************************************************)
EXTENDS RunnerControl, TLAPS

(* A loop handle is only held while the bot is not halted, a cancelled     *)
(* loop is alive, ConfirmNuke is running exactly while the command handler *)
(* is inside it, and a request that is still armed is on record with the   *)
(* deadline it set.                                                        *)
HaltedHoldsNoLoop == halted => loopCancel = NoLoop
CanceledAreAlive == \A l \in canceled : Alive(l)
NukeIsHandled == nuke # "idle" => telegram = "nuking"
ArmedIsOnRecord == nukeArmed => \E t \in request : nukeUntil = t + NukeWindow

ControlIInv ==
  /\ ControlTypeOK /\ OneArmedLoop /\ NukeNotCutShort
  /\ HaltedHoldsNoLoop /\ CanceledAreAlive /\ NukeIsHandled /\ ArmedIsOnRecord

----------------------------------------------------------------------------
(* Every variable has its type in the initial state, and the other parts   *)
(* of the invariant hold vacuously.                                        *)
LEMMA InitControlIInv == ControlInit => ControlIInv
<1> SUFFICES ASSUME ControlInit PROVE ControlIInv
  OBVIOUS
<1> USE DEF ControlInit
<1>1. ControlTypeOK
  BY ControlAssumption DEF ControlTypeOK
<1>2. OneArmedLoop /\ CanceledAreAlive
  BY DEF OneArmedLoop, CanceledAreAlive, Alive
<1>3. NukeNotCutShort /\ HaltedHoldsNoLoop /\ NukeIsHandled
  BY DEF NukeNotCutShort, HaltedHoldsNoLoop, NukeIsHandled
<1>4. ArmedIsOnRecord
  BY Zenon DEF ArmedIsOnRecord
<1> QED BY <1>1, <1>2, <1>3, <1>4 DEF ControlIInv

(* Starting the loop keeps the runner's own part of the invariant: the     *)
(* fresh loop is the one whose handle is held.                             *)
LEMMA StartKeeps ==
  ASSUME ControlIInv, StartTrading
  PROVE  /\ loop' \in [Loops -> {"gone", "select", "tick"}]
         /\ loopCancel' \in Loops \cup {NoLoop}
         /\ OneArmedLoop' /\ CanceledAreAlive' /\ HaltedHoldsNoLoop'
<1> USE ControlAssumption DEF ControlIInv, ControlTypeOK, OneArmedLoop, CanceledAreAlive,
          HaltedHoldsNoLoop, Alive, StartTrading
<1>1. CASE loopCancel # NoLoop /\ UNCHANGED <<loop, loopCancel>>
  BY <1>1
<1>2. CASE loopCancel = NoLoop /\ SpawnLoop
  BY <1>2 DEF SpawnLoop
<1> QED BY <1>1, <1>2

(* Cancelling keeps it too: a loop that was armed was the held one, and    *)
(* is cancelled now.                                                       *)
LEMMA CancelKeeps ==
  ASSUME ControlIInv, CancelHeldLoop, UNCHANGED loop
  PROVE  /\ loopCancel' \in Loops \cup {NoLoop} /\ canceled' \in SUBSET Loops
         /\ OneArmedLoop' /\ CanceledAreAlive' /\ loopCancel' = NoLoop
  BY ControlAssumption
  DEF ControlIInv, ControlTypeOK, OneArmedLoop, CanceledAreAlive, Alive, CancelHeldLoop

(* No operation, goroutine step or signal breaks the invariant.            *)
LEMMA NextControlIInv == ControlIInv /\ [ControlNext]_controlVars => ControlIInv'
<1> SUFFICES ASSUME ControlIInv, [ControlNext]_controlVars PROVE ControlIInv'
  OBVIOUS
<1> USE ControlAssumption DEF ControlIInv
<1>1. CASE Command
  <2> USE <1>1 DEF Command
  <2>1. CASE StartTrading
    <3>1. ControlTypeOK'
      BY <2>1, StartKeeps DEF ControlTypeOK, StartTrading
    <3>2. NukeNotCutShort' /\ NukeIsHandled'
      BY <2>1 DEF NukeNotCutShort, NukeIsHandled, Running, StartTrading
    <3>3. ArmedIsOnRecord'
      BY <2>1 DEF ArmedIsOnRecord, StartTrading
    <3> QED BY <2>1, <3>1, <3>2, <3>3, StartKeeps
  <2>2. CASE StopTrading
    <3>1. ControlTypeOK'
      BY <2>2, CancelKeeps DEF ControlTypeOK, StopTrading
    <3>2. HaltedHoldsNoLoop' /\ NukeNotCutShort' /\ NukeIsHandled'
      BY <2>2, CancelKeeps
      DEF NukeNotCutShort, NukeIsHandled, HaltedHoldsNoLoop, Running, StopTrading
    <3>3. ArmedIsOnRecord'
      BY <2>2 DEF ArmedIsOnRecord, StopTrading
    <3> QED BY <2>2, <3>1, <3>2, <3>3, CancelKeeps DEF StopTrading
  <2>3. ASSUME NEW p \in BOOLEAN, SetPaused(p) PROVE ControlIInv'
    BY <2>3
    DEF SetPaused, ControlTypeOK, OneArmedLoop, CanceledAreAlive, Alive, NukeNotCutShort,
        Running, HaltedHoldsNoLoop, NukeIsHandled, ArmedIsOnRecord
  <2>4. CASE RequestNuke
    <3>1. ControlTypeOK'
      BY <2>4 DEF ControlTypeOK, RequestNuke
    <3>2. ArmedIsOnRecord'
      BY <2>4 DEF ArmedIsOnRecord, RequestNuke
    <3>3. OneArmedLoop' /\ CanceledAreAlive'
      BY <2>4 DEF OneArmedLoop, CanceledAreAlive, Alive, RequestNuke
    <3>4. NukeNotCutShort' /\ HaltedHoldsNoLoop' /\ NukeIsHandled'
      BY <2>4 DEF NukeNotCutShort, Running, HaltedHoldsNoLoop, NukeIsHandled, RequestNuke
    <3> QED BY <3>1, <3>2, <3>3, <3>4
  <2> QED BY <2>1, <2>2, <2>3, <2>4
<1>2. CASE CheckConfirm \/ TelegramStops \/ Signal \/ ClockTick
  <2> USE <1>2 DEF CheckConfirm, TelegramStops, Signal, ClockTick, runnerVars
  <2>1. ControlTypeOK'
    <3>1. CASE CheckConfirm \/ TelegramStops
      BY ONLY <3>1, ControlIInv DEF ControlIInv, ControlTypeOK
    <3>2. CASE Signal
      BY ONLY <3>2, ControlIInv DEF ControlIInv, ControlTypeOK
    <3>3. CASE ClockTick
      BY ONLY <3>3, ControlIInv DEF ControlIInv, ControlTypeOK
    <3> QED BY <3>1, <3>2, <3>3
  <2>2. OneArmedLoop' /\ CanceledAreAlive'
    BY DEF OneArmedLoop, CanceledAreAlive, Alive
  <2>3. NukeNotCutShort' /\ HaltedHoldsNoLoop' /\ NukeIsHandled'
    BY DEF NukeNotCutShort, Running, HaltedHoldsNoLoop, NukeIsHandled, RunMuFree
  <2>4. ArmedIsOnRecord'
    BY DEF ArmedIsOnRecord
  <2> QED BY <2>1, <2>2, <2>3, <2>4
<1>3. CASE Confirm
  <2> USE <1>3 DEF Confirm, ConfirmNuke, RejectNuke, RunMuFree
  <2>1. ControlTypeOK'
    BY DEF ControlTypeOK
  <2>2. OneArmedLoop' /\ CanceledAreAlive'
    BY DEF OneArmedLoop, CanceledAreAlive, Alive
  <2>3. HaltedHoldsNoLoop' /\ NukeIsHandled'
    BY DEF HaltedHoldsNoLoop, NukeIsHandled
  <2>4. ArmedIsOnRecord'
    BY DEF ArmedIsOnRecord
  <2>5. NukeNotCutShort'
    <3>1. CASE ConfirmNuke
      <4>1. (~lateNuke' => main # "ending") /\ main # "exited" /\ main' = main
        BY <3>1 DEF Running
      <4> QED BY <4>1 DEF NukeNotCutShort
    <3>2. CASE RejectNuke
      BY <3>2 DEF NukeNotCutShort
    <3> QED BY <3>1, <3>2
  <2> QED BY <2>1, <2>2, <2>3, <2>4, <2>5
<1>4. CASE Flattened
  BY <1>4
  DEF Flattened, NukeFlattened, ControlTypeOK, OneArmedLoop, CanceledAreAlive, Alive,
      NukeNotCutShort, Running, HaltedHoldsNoLoop, NukeIsHandled, ArmedIsOnRecord
<1>5. CASE Halt
  <2> USE <1>5 DEF Halt, NukeHalt
  <2>1. ControlTypeOK'
    BY CancelKeeps DEF ControlTypeOK
  <2>2. OneArmedLoop' /\ CanceledAreAlive' /\ HaltedHoldsNoLoop'
    BY CancelKeeps DEF HaltedHoldsNoLoop
  <2>3. NukeNotCutShort' /\ NukeIsHandled'
    BY DEF NukeNotCutShort, NukeIsHandled
  <2>4. ArmedIsOnRecord'
    BY DEF ArmedIsOnRecord
  <2> QED BY <2>1, <2>2, <2>3, <2>4
<1>6. CASE Boot
  <2> USE <1>6 DEF Boot
  <2>1. CASE StartTrading /\ main' = "serving"
    <3>1. ControlTypeOK'
      BY <2>1, StartKeeps DEF ControlTypeOK, StartTrading
    <3>2. NukeNotCutShort' /\ NukeIsHandled'
      BY <2>1 DEF NukeNotCutShort, NukeIsHandled, Running, StartTrading
    <3>3. ArmedIsOnRecord'
      BY <2>1 DEF ArmedIsOnRecord, StartTrading
    <3> QED BY <2>1, <3>1, <3>2, <3>3, StartKeeps
  <2>2. CASE RunMuFree /\ halted /\ main' = "ending" /\ UNCHANGED runnerVars
    BY <2>2
    DEF runnerVars, RunMuFree, ControlTypeOK, OneArmedLoop, CanceledAreAlive, Alive,
        NukeNotCutShort, HaltedHoldsNoLoop, NukeIsHandled, ArmedIsOnRecord
  <2> QED BY <2>1, <2>2
<1>7. CASE Shutdown
  <2> USE <1>7 DEF Shutdown, StopTrading, RunMuFree
  <2>1. ControlTypeOK'
    BY CancelKeeps DEF ControlTypeOK
  <2>2. OneArmedLoop' /\ CanceledAreAlive' /\ HaltedHoldsNoLoop'
    BY CancelKeeps DEF HaltedHoldsNoLoop
  <2>3. NukeNotCutShort' /\ NukeIsHandled'
    BY DEF NukeNotCutShort, NukeIsHandled
  <2>4. ArmedIsOnRecord'
    BY DEF ArmedIsOnRecord
  <2> QED BY <2>1, <2>2, <2>3, <2>4
<1>8. CASE ProcessEnds
  BY <1>8
  DEF ProcessEnds, runnerVars, ControlTypeOK, OneArmedLoop, CanceledAreAlive, Alive,
      NukeNotCutShort, HaltedHoldsNoLoop, NukeIsHandled, ArmedIsOnRecord
<1>9. ASSUME NEW l \in Loops, LoopTick(l) \/ LoopTickEnd(l) PROVE ControlIInv'
  <2> USE <1>9 DEF LoopTick, LoopTickEnd
  <2>1. ControlTypeOK'
    <3>1. CASE LoopTick(l)
      BY ONLY ControlTypeOK, <3>1 DEF LoopTick, ControlTypeOK
    <3>2. CASE LoopTickEnd(l)
      BY ONLY ControlTypeOK, <3>2 DEF LoopTickEnd, ControlTypeOK
    <3> QED BY <3>1, <3>2
  <2>2. OneArmedLoop' /\ CanceledAreAlive'
    BY DEF ControlTypeOK, OneArmedLoop, CanceledAreAlive, Alive
  <2>3. NukeNotCutShort' /\ HaltedHoldsNoLoop' /\ NukeIsHandled' /\ ArmedIsOnRecord'
    BY DEF NukeNotCutShort, Running, HaltedHoldsNoLoop, NukeIsHandled, ArmedIsOnRecord
  <2> QED BY <2>1, <2>2, <2>3
<1>10. ASSUME NEW l \in Loops, LoopExit(l) PROVE ControlIInv'
  <2> USE <1>10 DEF LoopExit
  <2>1. ControlTypeOK'
    BY DEF ControlTypeOK
  <2>2. OneArmedLoop' /\ CanceledAreAlive'
    BY DEF ControlTypeOK, OneArmedLoop, CanceledAreAlive, Alive
  <2>3. NukeNotCutShort' /\ HaltedHoldsNoLoop' /\ NukeIsHandled' /\ ArmedIsOnRecord'
    BY DEF NukeNotCutShort, Running, HaltedHoldsNoLoop, NukeIsHandled, ArmedIsOnRecord
  <2> QED BY <2>1, <2>2, <2>3
<1>11. CASE UNCHANGED controlVars
  BY <1>11
  DEF controlVars, ControlTypeOK, OneArmedLoop, CanceledAreAlive, Alive, NukeNotCutShort,
      Running, HaltedHoldsNoLoop, NukeIsHandled, ArmedIsOnRecord
<1> QED
  BY <1>1, <1>2, <1>3, <1>4, <1>5, <1>6, <1>7, <1>8, <1>9, <1>10, <1>11
  DEF ControlNext, Exited
----------------------------------------------------------------------------
(* The inductive invariant holds throughout every behaviour.               *)
LEMMA ControlInvariant == ControlSafety => []ControlIInv
<1>1. ControlInit => ControlIInv
  BY InitControlIInv
<1>2. ControlIInv /\ [ControlNext]_controlVars => ControlIInv'
  BY NextControlIInv
<1> QED BY <1>1, <1>2, PTL DEF ControlSafety

(* Every variable keeps its type.                                          *)
THEOREM TypeCorrect == ControlSafety => []ControlTypeOK
<1>1. ControlIInv => ControlTypeOK
  BY DEF ControlIInv
<1> QED BY <1>1, ControlInvariant, PTL

(* However starts, stops, nukes and ticks interleave, the runner can still *)
(* cancel the only loop that nobody has cancelled.                         *)
THEOREM OneLoopIsArmed == ControlSafety => []OneArmedLoop
<1>1. ControlIInv => OneArmedLoop
  BY DEF ControlIInv
<1> QED BY <1>1, ControlInvariant, PTL

(* A halted bot has no armed loop: the halt dropped its handle, and a loop *)
(* without a handle is a cancelled one.                                    *)
THEOREM HaltDisarms == ControlSafety => []HaltedIsDisarmed
<1>1. ControlIInv => HaltedIsDisarmed
  BY ControlAssumption
  DEF ControlIInv, HaltedIsDisarmed, HaltedHoldsNoLoop, OneArmedLoop
<1> QED BY <1>1, ControlInvariant, PTL

(* main neither leaves StopTrading nor exits inside a nuke that began      *)
(* before StopTrading returned.                                            *)
THEOREM NukeCompletes == ControlSafety => []NukeNotCutShort
<1>1. ControlIInv => NukeNotCutShort
  BY DEF ControlIInv
<1> QED BY <1>1, ControlInvariant, PTL

(* No step clears a halt or brings up a loop after it.                     *)
THEOREM HaltStays == ControlSafety => HaltIsFinal
<1>1. ControlIInv /\ [ControlNext]_controlVars =>
        [halted => /\ halted'
                   /\ \A l \in Loops : loop[l] = "gone" => loop'[l] = "gone"]_controlVars
  <2> SUFFICES ASSUME ControlIInv, ControlNext, halted
               PROVE  halted' /\ \A l \in Loops : loop[l] = "gone" => loop'[l] = "gone"
    BY DEF controlVars
  <2> USE DEF StopTrading, SetPaused, RequestNuke, ConfirmNuke, RejectNuke, NukeFlattened,
              NukeHalt, StartTrading, runnerVars
  <2>1. CASE Command
    BY <2>1 DEF Command
  <2>2. CASE Boot \/ Shutdown \/ ProcessEnds
    BY <2>2 DEF Boot, Shutdown, ProcessEnds
  <2>3. CASE CheckConfirm \/ TelegramStops \/ Signal \/ ClockTick \/ Exited
    BY <2>3 DEF CheckConfirm, TelegramStops, Signal, ClockTick, Exited, controlVars
  <2>4. CASE Confirm \/ Flattened \/ Halt
    BY <2>4 DEF Confirm, Flattened, Halt
  <2>5. ASSUME NEW l \in Loops, LoopTick(l) \/ LoopTickEnd(l) \/ LoopExit(l)
        PROVE  halted' /\ \A k \in Loops : loop[k] = "gone" => loop'[k] = "gone"
    BY <2>5 DEF LoopTick, LoopTickEnd, LoopExit, ControlIInv, ControlTypeOK
  <2> QED BY <2>1, <2>2, <2>3, <2>4, <2>5 DEF ControlNext
<1> QED BY <1>1, ControlInvariant, PTL DEF ControlSafety, HaltIsFinal

(* A nuke begins only within the window of a request not used up before.   *)
THEOREM NukeIsRequested == ControlSafety => NukeNeedsFreshRequest
<1>1. ControlIInv /\ [ControlNext]_controlVars =>
        [nuke = "idle" /\ nuke' # "idle" =>
           \E t \in request : clock <= t + NukeWindow]_controlVars
  <2> SUFFICES ASSUME ControlIInv, ControlNext, nuke = "idle", nuke' # "idle"
               PROVE  \E t \in request : clock <= t + NukeWindow
    BY DEF controlVars
  <2>1. CASE Confirm
    BY <2>1 DEF Confirm, ConfirmNuke, RejectNuke, Confirmable, ControlIInv, ArmedIsOnRecord
  <2>2. CASE ~Confirm
    BY <2>2
    DEF ControlNext, Command, StartTrading, StopTrading, SetPaused, RequestNuke, CheckConfirm,
        TelegramStops, Signal, ClockTick, Exited, controlVars, runnerVars, Flattened,
        NukeFlattened, Halt, NukeHalt, Boot, Shutdown, ProcessEnds, LoopTick, LoopTickEnd, LoopExit
  <2> QED BY <2>1, <2>2
<1> QED BY <1>1, ControlInvariant, PTL DEF ControlSafety, NukeNeedsFreshRequest
=============================================================================
