SPECIFICATION Spec
CONSTANTS
  Tasks = {t1, t2, t3}
  Buffers = {b1, b2, b3}
  Queues = {b1, b2, b3, wfr}
  wait_for_request = wfr
  NR_REQUEST = 2
  Null = Null
SYMMETRY Symmetry
CONSTRAINT Regular
INVARIANTS IInv WaitsForSomething
 
