SPECIFICATION FairSpec
CONSTANTS
  NCPU = 2
  KLOG_BUF_SIZE = 1
  WORD = 100
  Msgs = {m1}
  Readers = {r1}
  MaxEntries = {1}
  MaxLog = 3
  Free = Free
PROPERTY CallsReturn
