SPECIFICATION Spec
CONSTANTS
  NPROC = 3
  CPUs = {c1, c2}
  MAXPID = 3
  Victims = {2}
  Free = Free
SYMMETRY CPUSymmetry
INVARIANTS SchedSound HasParent WakeupsArrive SleepLockMutex
