SPECIFICATION ConsoleSpec
CONSTANTS
  idle = idle
  shell = shell
  Plain = {x, y}
  NoChar = nochar
  UART_RX_BUFFER_SIZE = 3
  MaxBurst = 2
  sem = sem
  Thread = {idle, shell}
  NoThread = none
  WaitList = {sem}
  PRIORITY_MAX = 2
  INIT_TICK = 1
  Idle = idle
  InitReady <- ReadyAtStart
  Relaxed = {}
  VALUE_WIDTH = 16
  MaxValue = 3
INVARIANTS NothingLeftUnread
PROPERTIES RingIsChannel ConsoleRead
