CONSTANTS
  p1 = p1
  p2 = p2
  InodeProc = {p1, p2}
  InitProc = p1
  Inum = {1, 2, 3}
  File = {1}
  Programs <- ProgramsDef
  None = None
  Writer = {1, 2}
  Sizes = {3}
  Ino = {1, 2}
  Open = {1, 2}
  Uses <- UsesDef
  NBLOCKS = 6
  BSIZE = 2
  NDIRECT = 1
  NINDIRECT = 1
  MAXOPBLOCKS = 6
  NBUF = 3
  Home = {1, 2, 3}
  Written = {3}
  LogBlock = 0
  BioProc = {k1, k2}
  Nested <- NestedDef
  MAXPIN = 1
  DiskErrors = FALSE
  Nil = Nil
  Junk = Junk
SPECIFICATION FilesSpec
INVARIANT NoWaitCircle
CHECK_DEADLOCK FALSE
