\* Two loop goroutines, so a loop can be stopped and another armed while the
\* first is still inside a tick, and a clock that can outrun the confirmation
\* window.
SPECIFICATION ControlSpec
CONSTANTS
  Loops = {l1, l2}
  NoLoop = none
  NukeWindow = 1
  MaxTime = 3
INVARIANTS ControlTypeOK OneArmedLoop HaltedIsDisarmed NukeNotCutShort
PROPERTIES CanceledLoopExits NukeHalts SignalEndsProcess
