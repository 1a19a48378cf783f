CONSTANTS
  Block = {b1, b2, b3}
  Data = {0}
  Proc = {p1, p2, p3}
  NoBlock = NoBlock
  MAXOPBLOCKS = 2
  LOGSIZE = 4
  size = 4
  OpBlocks = 1
SPECIFICATION FairSpec
INVARIANT NoPanic
PROPERTY WokenUp
