SPECIFICATION Spec
CONSTANTS
  idle = idle
  hi = hi
  mid = mid
  lo = lo
  Thread = {idle, hi, mid, lo}
  NoThread = none
  WaitList = {m1, m2}
  PRIORITY_MAX = 4
  INIT_TICK = 1
  Idle = idle
  InitReady <- ReadyAtStart
  Relaxed = {}
  MaxHold = 2
INVARIANTS TypeOK Places MutualExclusion WaitOK Inherited InheritanceEnds
