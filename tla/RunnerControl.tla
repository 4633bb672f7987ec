---------------------------- MODULE RunnerControl ----------------------------
(***************************************************************************)
(* The control plane of the bot: the flags and the loop handle that        *)
(* app.Runner guards with runMu, the operator's commands (Telegram), the   *)
(* main goroutine and the life of the loop goroutines.                     *)
(*                                                                         *)
(* One tick of a loop is a single interval here, from LoopTick to          *)
(* LoopTickEnd; TradingLoop refines it.  ConfirmNuke holds runMu from      *)
(* ConfirmNuke to NukeHalt, so every other command waits for nuke = "idle" *)
(* while the loops, which read the flags without the lock, do not.         *)
(***************************************************************************)
EXTENDS Naturals

CONSTANTS
  Loops,        \* identities of loop goroutines: a bound on how many live at once
  NoLoop,       \* loopCancel = nil
  NukeWindow,   \* how long a /nuke request stays confirmable (60s in the code)
  MaxTime       \* bound: the clock stops here

ASSUME ControlAssumption ==
  /\ NoLoop \notin Loops
  /\ NukeWindow \in Nat
  /\ MaxTime \in Nat

VARIABLES
  rootDone,     \* the signal context of main is done
  main,         \* the main goroutine: "boot", "serving", "ending", "exited"
  telegram,     \* the update handler: "idle", "confirming", "nuking", "stopped"
  paused, halted,
  nukeArmed, nukeUntil,
  loopCancel,   \* the loop whose cancel function the runner holds, or NoLoop
  nuke,         \* ConfirmNuke past its check: "idle", "flatten", "cancelAll"
  loop,         \* each loop goroutine: "gone", "select" or "tick"
  canceled,     \* live loops whose own context was cancelled
  clock,
  request,      \* history: {time of the latest /nuke}, {} once it was carried out
  lateNuke      \* history: the latest nuke began when main was already ending

controlVars == <<rootDone, main, telegram, paused, halted, nukeArmed, nukeUntil,
                 loopCancel, nuke, loop, canceled, clock, request, lateNuke>>

Alive(l) == loop[l] # "gone"
CtxDone(l) == l \in canceled \/ rootDone
Running == main # "exited"
RunMuFree == nuke = "idle"

ControlTypeOK ==
  /\ rootDone \in BOOLEAN
  /\ main \in {"boot", "serving", "ending", "exited"}
  /\ telegram \in {"idle", "confirming", "nuking", "stopped"}
  /\ paused \in BOOLEAN /\ halted \in BOOLEAN
  /\ nukeArmed \in BOOLEAN /\ nukeUntil \in Nat
  /\ loopCancel \in Loops \cup {NoLoop}
  /\ nuke \in {"idle", "flatten", "cancelAll"}
  /\ loop \in [Loops -> {"gone", "select", "tick"}]
  /\ canceled \in SUBSET Loops
  /\ clock \in Nat
  /\ request \in SUBSET Nat /\ lateNuke \in BOOLEAN

ControlInit ==
  /\ rootDone = FALSE /\ main = "boot" /\ telegram = "idle"
  /\ paused = FALSE /\ halted = FALSE
  /\ nukeArmed = FALSE /\ nukeUntil = 0
  /\ loopCancel = NoLoop /\ nuke = "idle"
  /\ loop = [l \in Loops |-> "gone"] /\ canceled = {}
  /\ clock = 0 /\ request = {} /\ lateNuke = FALSE

----------------------------------------------------------------------------
(* The runner's operations.  Each leaves main, telegram, rootDone and the  *)
(* clock to the goroutine that calls it.                                   *)

(* StartTrading past its two early returns: a fresh context, go r.loop. *)
SpawnLoop ==
  \E l \in Loops :
    /\ loop[l] = "gone"
    /\ loop' = [loop EXCEPT ![l] = "select"]
    /\ loopCancel' = l

StartTrading ==
  /\ RunMuFree /\ ~halted
  /\ \/ loopCancel # NoLoop /\ UNCHANGED <<loop, loopCancel>>
     \/ loopCancel = NoLoop /\ SpawnLoop
  /\ UNCHANGED <<paused, halted, nukeArmed, nukeUntil, nuke, canceled, request, lateNuke>>

(* Plausible bug: the handle is dropped without calling it. *)
DropHeldLoop == loopCancel' = NoLoop /\ UNCHANGED canceled

(* Plausible bug: the handle is called without the nil check. *)
CancelNilLoop == canceled' = canceled \cup {loopCancel} /\ loopCancel' = NoLoop

(* Cancels the held loop's context, if any; the goroutine itself goes on   *)
(* until it next reaches its select.                                       *)
CancelHeldLoop ==
  /\ canceled' = canceled \cup {l \in Loops : l = loopCancel /\ Alive(l)}
  /\ loopCancel' = NoLoop

(* Plausible bug: runMu is not taken, so a nuke in progress is not waited for. *)
StopTradingUnlocked ==
  /\ CancelHeldLoop
  /\ UNCHANGED <<paused, halted, nukeArmed, nukeUntil, nuke, loop, request, lateNuke>>

StopTrading ==
  /\ RunMuFree
  /\ CancelHeldLoop
  /\ UNCHANGED <<paused, halted, nukeArmed, nukeUntil, nuke, loop, request, lateNuke>>

SetPaused(p) ==
  /\ RunMuFree
  /\ paused' = p
  /\ UNCHANGED <<halted, nukeArmed, nukeUntil, loopCancel, nuke, loop, canceled, request, lateNuke>>

RequestNuke ==
  /\ RunMuFree
  /\ nukeArmed' = TRUE /\ nukeUntil' = clock + NukeWindow
  /\ request' = {clock}
  /\ UNCHANGED <<paused, halted, loopCancel, nuke, loop, canceled, lateNuke>>

IsNukePending == nukeArmed /\ clock < nukeUntil

(* The check ConfirmNuke repeats under the lock. *)
Confirmable == nukeArmed /\ clock <= nukeUntil

RejectNuke ==
  /\ RunMuFree /\ ~Confirmable
  /\ nukeArmed' = FALSE
  /\ UNCHANGED <<paused, halted, nukeUntil, loopCancel, nuke, loop, canceled, request, lateNuke>>

ConfirmNuke ==
  /\ RunMuFree /\ Confirmable
  /\ nukeArmed' = FALSE
  /\ nuke' = "flatten" /\ request' = {} /\ lateNuke' = (main = "ending")
  /\ UNCHANGED <<paused, halted, nukeUntil, loopCancel, loop, canceled>>

(* Plausible bug: an error of FlattenAll ends the nuke. *)
NukeGivesUp ==
  /\ nuke = "flatten" /\ nuke' = "idle"
  /\ UNCHANGED <<paused, halted, nukeArmed, nukeUntil, loopCancel, loop, canceled, request,
                 lateNuke>>

(* paper.FlattenAll has returned; its error is ignored. *)
NukeFlattened ==
  /\ nuke = "flatten" /\ nuke' = "cancelAll"
  /\ UNCHANGED <<paused, halted, nukeArmed, nukeUntil, loopCancel, loop, canceled, request,
                 lateNuke>>

(* Plausible bug: halts without stopping the loop. *)
NukeHaltLoopLeft ==
  /\ nuke = "cancelAll" /\ nuke' = "idle"
  /\ halted' = TRUE /\ paused' = TRUE
  /\ UNCHANGED <<loopCancel, canceled>>
  /\ UNCHANGED <<nukeArmed, nukeUntil, loop, request, lateNuke>>

(* Plausible bug: runMu is not released. *)
NukeHaltKeepsLock ==
  /\ nuke = "cancelAll" /\ UNCHANGED nuke
  /\ halted' = TRUE /\ paused' = TRUE
  /\ CancelHeldLoop
  /\ UNCHANGED <<nukeArmed, nukeUntil, loop, request, lateNuke>>

(* router.CancelAllVenues has returned: halt, pause, cancel, unlock. *)
NukeHalt ==
  /\ nuke = "cancelAll" /\ nuke' = "idle"
  /\ halted' = TRUE /\ paused' = TRUE
  /\ CancelHeldLoop
  /\ UNCHANGED <<nukeArmed, nukeUntil, loop, request, lateNuke>>

----------------------------------------------------------------------------
(* The goroutines that call them. *)

runnerVars == <<paused, halted, nukeArmed, nukeUntil, loopCancel, nuke, loop,
                canceled, request, lateNuke>>

(* One Telegram command, handled to its end before the next.  StartTrading *)
(* refused after a nuke changes nothing but the reply.                     *)
Command ==
  /\ Running /\ telegram = "idle"
  /\ StartTrading \/ StopTrading \/ SetPaused(TRUE) \/ SetPaused(FALSE) \/ RequestNuke
  /\ UNCHANGED <<rootDone, main, telegram, clock>>

(* /confirm nuke looks at IsNukePending, releases runMu, calls ConfirmNuke. *)
CheckConfirm ==
  /\ Running /\ telegram = "idle" /\ RunMuFree /\ IsNukePending
  /\ telegram' = "confirming"
  /\ UNCHANGED <<runnerVars, rootDone, main, clock>>

Confirm ==
  /\ Running /\ telegram = "confirming"
  /\ \/ ConfirmNuke /\ telegram' = "nuking"
     \/ RejectNuke /\ telegram' = "idle"
  /\ UNCHANGED <<rootDone, main, clock>>

Flattened ==
  /\ Running /\ NukeFlattened
  /\ UNCHANGED <<rootDone, main, telegram, clock>>

Halt ==
  /\ Running /\ NukeHalt /\ telegram' = "idle"
  /\ UNCHANGED <<rootDone, main, clock>>

TelegramStops ==
  /\ Running /\ rootDone /\ telegram = "idle" /\ telegram' = "stopped"
  /\ UNCHANGED <<runnerVars, rootDone, main, clock>>

(* main arms the loop itself, after the command handler is up: a nuke      *)
(* confirmed before that makes the start fail, and main logs and exits.    *)
Boot ==
  /\ main = "boot"
  /\ \/ StartTrading /\ main' = "serving"
     \/ RunMuFree /\ halted /\ main' = "ending" /\ UNCHANGED runnerVars
  /\ UNCHANGED <<rootDone, telegram, clock>>

Signal ==
  /\ Running /\ ~rootDone /\ rootDone' = TRUE
  /\ UNCHANGED <<runnerVars, main, telegram, clock>>

(* main stops the loop and does not wait for it. StopTrading has released  *)
(* runMu when it returns.                                                  *)
Shutdown ==
  /\ main = "serving" /\ rootDone
  /\ StopTrading /\ main' = "ending"
  /\ UNCHANGED <<rootDone, telegram, clock>>

(* The last log line, the deferred calls (the metrics server, the store),  *)
(* and the process is gone, whoever holds runMu by now.                    *)
ProcessEnds ==
  /\ main = "ending" /\ main' = "exited"
  /\ UNCHANGED <<runnerVars, rootDone, telegram, clock>>

(* The loop's select.  With the ticker and the context both ready Go       *)
(* chooses either, so a cancelled loop may still start a tick.             *)
LoopTick(l) ==
  /\ Running /\ loop[l] = "select"
  /\ loop' = [loop EXCEPT ![l] = "tick"]
  /\ UNCHANGED <<rootDone, main, telegram, paused, halted, nukeArmed, nukeUntil,
                 loopCancel, nuke, canceled, clock, request, lateNuke>>

LoopTickEnd(l) ==
  /\ Running /\ loop[l] = "tick"
  /\ loop' = [loop EXCEPT ![l] = "select"]
  /\ UNCHANGED <<rootDone, main, telegram, paused, halted, nukeArmed, nukeUntil,
                 loopCancel, nuke, canceled, clock, request, lateNuke>>

(* Plausible bug: the loop never looks at its context. *)
LoopNeverExits(l) == FALSE /\ UNCHANGED controlVars

LoopExit(l) ==
  /\ Running /\ loop[l] = "select" /\ CtxDone(l)
  /\ loop' = [loop EXCEPT ![l] = "gone"] /\ canceled' = canceled \ {l}
  /\ UNCHANGED <<rootDone, main, telegram, paused, halted, nukeArmed, nukeUntil,
                 loopCancel, nuke, clock, request, lateNuke>>

ClockTick ==
  /\ Running /\ clock < MaxTime /\ clock' = clock + 1
  /\ UNCHANGED <<runnerVars, rootDone, main, telegram>>

(* The process is gone. *)
Exited == main = "exited" /\ UNCHANGED controlVars

ControlNext ==
  \/ Command \/ CheckConfirm \/ Confirm \/ Flattened \/ Halt \/ TelegramStops
  \/ Boot \/ Signal \/ Shutdown \/ ProcessEnds
  \/ \E l \in Loops : LoopTick(l) \/ LoopTickEnd(l) \/ LoopExit(l)
  \/ ClockTick \/ Exited

(* The command handler runs when it can and every network call has a       *)
(* timeout, so ticks and the nuke's calls return.  main waits for a Go     *)
(* mutex, which starves nobody, and LoopExit is a ready case of a select   *)
(* that Go resolves at random: both need strong fairness. After that main  *)
(* waits for nothing but a scrape of the metrics in progress.              *)
ControlFairness ==
  /\ SF_controlVars(Boot) /\ SF_controlVars(Shutdown) /\ WF_controlVars(ProcessEnds)
  /\ WF_controlVars(Confirm) /\ WF_controlVars(Flattened) /\ WF_controlVars(Halt)
  /\ \A l \in Loops : WF_controlVars(LoopTickEnd(l)) /\ SF_controlVars(LoopExit(l))

ControlSafety == ControlInit /\ [][ControlNext]_controlVars
ControlSpec == ControlSafety /\ ControlFairness
----------------------------------------------------------------------------
(* Safety *)

(* Every loop that nobody cancelled is the one the runner can still        *)
(* cancel: StopTrading and the nuke never leave an armed loop behind, and  *)
(* /start never arms a second one.                                         *)
OneArmedLoop == \A l \in Loops : Alive(l) /\ l \notin canceled => loopCancel = l

(* Once halted by a nuke, no loop is armed, whatever was started, stopped  *)
(* or restarted before and whichever loops are still inside a tick.        *)
HaltedIsDisarmed == halted => \A l \in Loops : Alive(l) => l \in canceled

(* A nuke that began before the shutdown stopped trading is not cut short: *)
(* main stays in StopTrading, which waits for runMu, until the halt.       *)
NukeNotCutShort == nuke # "idle" /\ ~lateNuke => main \notin {"ending", "exited"}

(* A halt is final: no later command clears it or arms a loop.             *)
HaltIsFinal ==
  [][halted => /\ halted'
               /\ \A l \in Loops : loop[l] = "gone" => loop'[l] = "gone"]_controlVars

(* A nuke begins only within NukeWindow of a /nuke that no earlier nuke    *)
(* used up.                                                                *)
NukeNeedsFreshRequest ==
  [][nuke = "idle" /\ nuke' # "idle" =>
       \E t \in request : clock <= t + NukeWindow]_controlVars

----------------------------------------------------------------------------
(* Liveness *)

(* A cancelled loop leaves its goroutine, or the process ends. *)
CanceledLoopExits ==
  \A l \in Loops : l \in canceled ~> (loop[l] = "gone" \/ ~Running)

(* A confirmed nuke halts the bot, unless it began in a process that was   *)
(* already ending.                                                         *)
NukeHalts == nuke = "flatten" /\ ~lateNuke ~> halted

(* A termination signal ends the process, nuke in progress or not. *)
SignalEndsProcess == rootDone ~> ~Running
=============================================================================
