SPECIFICATION Spec
CONSTANTS
  NR_TASKS = 4
  MaxPid = 4
  Kills <- MCKills
  Masks <- MCMasks
  Actions <- MCActions
  Wants <- MCWants
  MayCall <- MCMayCall
INVARIANTS FatherCanWait WaiterIsTold NotReentered
CHECK_DEADLOCK FALSE
PROPERTY WaitEnds
