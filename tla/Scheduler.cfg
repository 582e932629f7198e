SPECIFICATION Spec
CONSTANTS
  Thread = {idle, main, t1}
  NoThread = none
  WaitList = {}
  PRIORITY_MAX = 3
  INIT_TICK = 1
  Idle = idle
  Main = main
  MainPriority = 1
  Static = {idle, main}
  Cleanup = {main}
  Movable = {t1}
  MaxNest = 1
  Relaxed = {}
INVARIANTS TypeOK ReadyQueueOK TimeoutOnlySuspended ClosedStaysOut CallInv
PROPERTIES SwitchToHighest RoundRobin Reclaimed
