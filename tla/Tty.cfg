SPECIFICATION TtySpec
CONSTANTS
  TTY_BUF_SIZE = 4
  Low = 2
  Startup = 1
  Room = 1
  MaxRead = 2
  MaxWrite = 2
  MaxTyped = 4
  pgrp = TRUE
CONSTRAINT Sound
 
PROPERTIES WriteEnds LineIsRead
CHECK_DEADLOCK FALSE
