SPECIFICATION Spec
CONSTANTS
  t1 = t1
  t2 = t2
  Tasks = {t1, t2}
  Null = Null
  Inodes = {1, 2, 3}
  Zones = {1, 2}
  Slots = 2
  Requests <- MCRequests
CONSTRAINT Sound
INVARIANTS LinksExact NothingLeaks CountExact CleanIsWritten NoPanic
VIEW View
