SPECIFICATION FairSpec
CONSTANTS
  a = a
  b = b
  Task = {a, b}
  Noisy = {a}
  Attachable = {a}
  NoTask = NoTask
  MaxVer = 1
  Big <- MCBig
  MaxWakes = 1
INVARIANTS IdleIsClean
PROPERTIES OnlyWhatWasAsked ScreenArrives StopEnds
\* The daemon stops.
CHECK_DEADLOCK FALSE
