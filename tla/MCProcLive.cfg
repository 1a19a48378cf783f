SPECIFICATION FairSpec
CONSTANTS
  NPROC = 2
  CPUs = {c1, c2}
  MAXPID = 2
  Victims = {1, 2}
  Free = Free
PROPERTY WaitReturns
