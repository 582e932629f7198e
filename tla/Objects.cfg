SPECIFICATION Spec
CONSTANTS
  idle = idle
  hi = hi
  lo = lo
  e1 = e1
  e2 = e2
  Kinds = {"event", "mailbox", "queue", "pool"}
  receivers = receivers
  senders = senders
  NoData = nodata
  EventFlag = {e1, e2}
  Request <- Requests
  MB_SIZE = 2
  Mail = {m1, m2}
  MQ_MSGS = 2
  Letter = {m1, m2}
  MP_BLOCKS = 2
  MaxPended = 3
  Flags = {"FIFO", "PRIO"}
  Thread = {idle, hi, lo}
  NoThread = none
  WaitList = {receivers, senders}
  PRIORITY_MAX = 3
  INIT_TICK = 1
  Idle = idle
  InitReady <- ReadyAtStart
  Relaxed = {}
INVARIANTS TypeOK Places NoLostWakeup EventMatched BuffersAccounted BlocksAccounted
PROPERTIES EventsKept MailboxIsChannel QueueIsChannel
