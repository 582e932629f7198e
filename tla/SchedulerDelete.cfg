SPECIFICATION Spec
CONSTANTS
  Thread = {idle, main, t1}
  NoThread = none
  WaitList = {}
  PRIORITY_MAX = 3
  INIT_TICK = 1
  Idle = idle
  Main = main
  MainPriority = 1
  Static = {idle, main}
  Cleanup = {}
  Movable = {t1}
  MaxNest = 1
  Relaxed = {"timer"}
INVARIANTS ClosedStaysOut
