SPECIFICATION FairSpec
CONSTANTS
  Tasks = {t1, t2, t3}
  Queues = {q1}
  UQueues = {q1}
  IQueues = {}
  IrqQueues = {}
  Null = null
  Idle = idle
PROPERTIES WakesAll StrayNeedsCause
CHECK_DEADLOCK FALSE
