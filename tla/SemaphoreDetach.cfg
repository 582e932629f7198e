SPECIFICATION Spec
CONSTANTS
  idle = idle
  hi = hi
  lo = lo
  sem = sem
  Thread = {idle, hi, lo}
  NoThread = none
  WaitList = {sem}
  PRIORITY_MAX = 3
  INIT_TICK = 1
  Idle = idle
  InitReady <- ReadyAtStart
  Relaxed = {}
  VALUE_WIDTH = 1
  MaxValue = 2
INVARIANT RouseFindsThread
