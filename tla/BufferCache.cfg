SPECIFICATION Spec
CONSTANTS
  Tasks = {t1, t2}
  Buffers = {b1, b2}
  Blocks = {k1, k2, k3}
  t1 = t1
  t2 = t2
  k1 = k1
  k2 = k2
  k3 = k3
  hd = hd
  fd = fd
  Null = Null
  DevOf <- Device
  Floppies = {fd}
  MayCall <- Callers
  MaxBlocks = 2
SYMMETRY Symmetry
CONSTRAINT Sound
INVARIANTS OneBufferPerBlock CountExact Coherent 

