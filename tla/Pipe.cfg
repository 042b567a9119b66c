SPECIFICATION PipeSpec
CONSTANTS
  Readers = {r1, r2}
  Writers = {w1}
  Tasks = {r1, r2, w1}
  Queues = {pipe}
  Pipe = pipe
  Null = null
  PAGE_SIZE = 4
  MaxCount = 3
  MaxBytes = 5
  Faults = TRUE
INVARIANTS DataIntact 
PROPERTY EarlyReturn
CHECK_DEADLOCK FALSE
