CONSTANTS
  Slot = {1, 2, 3}
  NPAGES = 18
  PGSIZE = 2
  NPTE = 2
  NPDE = 2
  KTABLES = 1
  Program <- ProgramDef
  Increment <- IncrementDef
  CPU = {c1, c2}
  Proc = {t1, t2}
  Lock = {1, 2}
  ptable = 2
  NoCPU = NoCPU
  ENTRY = 2
  PAGE = 5
  DEVMAX = 3
  MAXARG = 3
  RETAINED = 4
  MAXSEQ = 5
  MINCORE = 4
  HEAPMAX = 8
  Units = {2, 3}
  AWORD = 12
  INT = 2
  BUF = 6
  TMP = 4
  DEC = 3
  HEX = 4
  FWORD = 16
  Items <- ItemsDef
  MAXFMT = 4
  MAXARGS = 3
  MAXTOKENS = 5
  Letters = {"a", "b"}
  MAXRE = 4
  MAXTEXT = 3
SPECIFICATION KernelSpec
SYMMETRY CPUSymmetry
INVARIANTS
  MemorySound MutualExclusion InterruptsSound GetklogSound
  HeapSound ArgsInside FormatSound ParsesGrammar MatchIsLanguage
PROPERTY ExecAllOrNothing
