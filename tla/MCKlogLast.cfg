SPECIFICATION Spec
CONSTANTS
  NCPU = 2
  KLOG_BUF_SIZE = 2
  WORD = 100
  Msgs = {m1}
  Readers = {r1}
  MaxEntries = {1, 2, 3}
  MaxLog = 5
  Free = Free
INVARIANTS SnapshotReturnsLast
