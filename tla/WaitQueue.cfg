SPECIFICATION Spec
CONSTANTS
  Tasks = {t1, t2, t3}
  Queues = {q1, i1}
  UQueues = {q1}
  IQueues = {i1}
  IrqQueues = {q1, i1}
  Null = null
  Idle = idle
INVARIANTS NoLostSleeper  IInv
CHECK_DEADLOCK FALSE
SYMMETRY TaskSymmetry
CONSTRAINT BeforeStray
