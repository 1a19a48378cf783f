CONSTANTS
  Block = {b1, b2}
  Data = {0, 1}
  Proc = {p1, p2, p3}
  NoBlock = NoBlock
  MAXOPBLOCKS = 3
  LOGSIZE = 6
  size = 6
  OpBlocks = 2
SPECIFICATION Spec
SYMMETRY ProcSymmetry
INVARIANTS LogInv Durable NoLostWakeup
PROPERTY AtomicSpec
