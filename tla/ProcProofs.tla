----------------------------- MODULE ProcProofs -----------------------------
(***************************************************************************)
(* The process table is sound, nobody is orphaned and no wakeup is lost,   *)
(* for every size of the table and every number of CPUs.                   *)
(***************************************************************************)
EXTENDS Proc, TLAPS

(* The provers a leaf without a pragma is given to. *)
USE SMTT(20), ZenonT(20), Z3T(60)

(* Where p may be interrupted and yield: it holds no spinlock. *)
Outside == {"user", "fork_alloc", "fork_copied", "exit", "retry", "held"}
(* Where a running process holds ptable.lock. *)
Inside == {"newborn", "yielded", "wait", "wait_woken", "sleep", "woken"}
(* Where it holds the spinlock of the sleep-lock. *)
InSleepLock == {"test", "wakeup"}

(* Where p is, the yields from there aside. *)
Where(p) == IF pc[p] = "yielded" THEN back[p] ELSE pc[p]
(* In fork, between allocproc and the end. *)
Forking == {"fork_alloc", "fork_copied"}

(* The types of where a process is. *)
PcOK ==
  /\ pc \in [Slot -> Outside \cup Inside \cup InSleepLock \cup {"zombie", "panic"}]
  /\ back \in [Slot -> Outside]

(* What c does shows whether it holds ptable.lock: in the loop of the      *)
(* scheduler, in a process that is giving up RUNNING, or inside.            *)
HoldsTable(c) ==
  IF ctx[c] = Scheduler THEN next[c] # 0
  ELSE state[ctx[c]] # "RUNNING" \/ pc[ctx[c]] \in Inside

(* And whether it holds the spinlock of the sleep-lock. *)
HoldsSleep(c) ==
  ctx[c] # Scheduler /\ state[ctx[c]] = "RUNNING" /\ pc[ctx[c]] \in InSleepLock

(* A process is on one CPU at most, and on one if it is RUNNING; it has a  *)
(* stack, and the scheduler it will switch to is in its loop.               *)
CpuInv ==
  /\ \A c, d \in CPUs : ctx[c] = ctx[d] /\ ctx[c] # Scheduler => c = d
  /\ \A p \in Slot : state[p] = "RUNNING" => \E c \in CPUs : ctx[c] = p
  /\ \A c \in CPUs : ctx[c] # Scheduler => next[c] # 0 /\ state[ctx[c]] \notin {"UNUSED", "EMBRYO"}

(* The locks are held exactly by those, across swtch. *)
LockInv == \A c \in CPUs : (lock = c <=> HoldsTable(c)) /\ (lk = c <=> HoldsSleep(c))

(* Where a process can be in each state: only behind a swtch, unless it is *)
(* RUNNING.                                                                 *)
StateInv ==
  \A p \in Slot :
    /\ state[p] = "UNUSED" => pc[p] \in {"newborn", "zombie"}
    /\ state[p] = "EMBRYO" => pc[p] = "newborn"
    /\ state[p] = "RUNNABLE" => pc[p] \in {"newborn", "yielded", "wait_woken", "woken"}
    /\ state[p] = "SLEEPING" => pc[p] \in {"wait_woken", "woken"}
    /\ state[p] = "RUNNING" => pc[p] # "zombie"
    /\ state[p] = "ZOMBIE" => pc[p] = "zombie"

(* The child of fork belongs to one caller, stays EMBRYO although no lock  *)
(* is held, and has no parent until fork has written it.                   *)
ForkInv ==
  /\ \A q \in Slot : Where(q) \in Forking =>
       /\ np[q] \in Slot /\ state[np[q]] = "EMBRYO"
       /\ parent[np[q]] = IF Where(q) = "fork_alloc" THEN None ELSE q
  /\ \A q, r \in Slot : Where(q) \in Forking /\ Where(r) \in Forking /\ np[q] = np[r] => q = r
  /\ \A i \in Slot : state[i] = "UNUSED" => parent[i] = None

(* Parents are alive, because init is: it never gets into exit. *)
FamilyInv ==
  /\ HasParent
  /\ parent[initproc] = None /\ \A i \in Slot : parent[i] # i
  /\ state[initproc] \in {"SLEEPING", "RUNNABLE", "RUNNING"}
  /\ Where(initproc) # "exit"

(* Fresh pids are larger than all there are. *)
PidInv == UniquePids /\ \A i \in Slot : pid[i] < nextpid

(* p sleeps for the sleep-lock, or is about to: it has ptable.lock, and    *)
(* releasesleep may clear locked before p sleeps, not wake it.             *)
Awaits(p) == pc[p] = "sleep" \/ (state[p] = "SLEEPING" /\ chan[p] = SleepLock)

(* The holder of the sleep-lock, and the wakeup that is still to come. *)
SleepInv ==
  /\ \A p, q \in Slot : Where(p) = "held" /\ Where(q) = "held" => p = q
  /\ \A p \in Slot : Where(p) = "held" => locked
  /\ (~locked /\ \E p \in Slot : Awaits(p)) => \E q \in Slot : pc[q] = "wakeup"

(* The inductive invariant. *)
ProcInv ==
  /\ TypeOK /\ PcOK /\ CpuInv /\ LockInv /\ StateInv /\ ForkInv
  /\ FamilyInv /\ PidInv /\ WaiterNoticed /\ SleepInv

(* The addresses and indices are told apart. *)
LEMMA Consts ==
  /\ initproc \in Slot /\ None \notin Slot /\ Scheduler \notin Slot /\ SleepLock \notin Slot
  /\ SleepLock # None /\ None = Scheduler /\ Free \notin CPUs
  BY ProcAssumption DEF Slot, None, Scheduler, SleepLock, initproc

(* A slot of the table, and where the loop of the scheduler goes next. *)
LEMMA NextSlot ==
  /\ 0 \in 0 .. (NPROC + 1) /\ 1 \in 0 .. (NPROC + 1)
  /\ \A i \in Slot : i + 1 \in 0 .. (NPROC + 1) /\ i + 1 # 0
  BY ProcAssumption DEF Slot

(* A step of the scheduler: types. *)
LEMMA TypesSched ==
  ASSUME ProcInv, NEW c \in CPUs, SchedulerStep(c)
  PROVE  TypeOK' /\ PcOK'
<1>0. TypeOK /\ PcOK
  BY Zenon DEF ProcInv
<1>1. ASSUME SchedAcquire(c) PROVE TypeOK' /\ PcOK'
  BY Zenon, <1>0, <1>1, Consts, NextSlot DEF TypeOK, PcOK, Outside, Inside, InSleepLock, SchedAcquire,
     table, sleeplock
<1>2. ASSUME SchedRun(c) PROVE TypeOK' /\ PcOK'
  BY <1>0, <1>2, Consts, NextSlot DEF TypeOK, PcOK, Outside, Inside, InSleepLock, SchedRun,
     Runnable, table, sleeplock
<1>3. ASSUME SchedRelease(c) PROVE TypeOK' /\ PcOK'
  BY Zenon, <1>0, <1>3, Consts, NextSlot DEF TypeOK, PcOK, Outside, Inside, InSleepLock, SchedRelease,
     table, sleeplock
<1>4. ASSUME Sched(c) PROVE TypeOK' /\ PcOK'
  BY Zenon, <1>0, <1>4, Consts, NextSlot DEF TypeOK, PcOK, Outside, Inside, InSleepLock, Sched, table,
     sleeplock
<1> QED
  BY Zenon, <1>1, <1>2, <1>3, <1>4 DEF SchedulerStep

(* A step of a process: types. *)
LEMMA TypesProc ==
  ASSUME ProcInv, NEW c \in CPUs, NEW p \in Slot, ProcessStep(c, p)
  PROVE  TypeOK' /\ PcOK'
<1>0. TypeOK /\ PcOK
  BY Zenon DEF ProcInv
<1>1. ASSUME ForkRet(c, p) PROVE TypeOK' /\ PcOK'
  BY Zenon, <1>0, <1>1, Consts DEF TypeOK, PcOK, Outside, Inside, InSleepLock, ForkRet, At, Goto, table,
     sleeplock
<1>2. ASSUME Yielded(c, p) PROVE TypeOK' /\ PcOK'
  BY <1>0, <1>2, Consts DEF TypeOK, PcOK, Outside, Inside, InSleepLock, Yielded, At, Goto, table,
     sleeplock
<1>3. ASSUME NEW l \in Outside, Yield(c, p, l) PROVE TypeOK' /\ PcOK'
  BY Zenon, <1>0, <1>3, Consts DEF TypeOK, PcOK, Outside, Inside, InSleepLock, Yield, At, Goto, table,
     sleeplock
<1>4. ASSUME ForkAlloc(c, p) PROVE TypeOK' /\ PcOK'
  BY <1>0, <1>4, Consts DEF TypeOK, PcOK, Outside, Inside, InSleepLock, ForkAlloc, At, Goto,
     Syscall, table, sleeplock
<1>5. ASSUME ForkFail(c, p) PROVE TypeOK' /\ PcOK'
  BY Zenon, <1>0, <1>5, Consts DEF TypeOK, PcOK, Outside, Inside, InSleepLock, ForkFail, At,
     Goto, table, sleeplock
<1>6. ASSUME ForkCopy(c, p) PROVE TypeOK' /\ PcOK'
  BY Zenon, <1>0, <1>6, Consts DEF TypeOK, PcOK, Outside, Inside, InSleepLock, ForkCopy, At,
     Goto, table, sleeplock
<1>7. ASSUME ForkDone(c, p) PROVE TypeOK' /\ PcOK'
  BY Zenon, <1>0, <1>7, Consts DEF TypeOK, PcOK, Outside, Inside, InSleepLock, ForkDone, At,
     Goto, table, sleeplock
<1>8. ASSUME ExitCall(c, p) PROVE TypeOK' /\ PcOK'
  BY Zenon, <1>0, <1>8, Consts DEF TypeOK, PcOK, Outside, Inside, InSleepLock, ExitCall, At, Goto,
     table, sleeplock
<1>9. ASSUME Exit(c, p) PROVE TypeOK' /\ PcOK'
  BY <1>0, <1>9, Consts DEF TypeOK, PcOK, Outside, Inside, InSleepLock, Exit, At, Goto, Wakeup1,
     table, sleeplock
<1>10. ASSUME WaitCall(c, p) PROVE TypeOK' /\ PcOK'
  BY Zenon, <1>0, <1>10, Consts DEF TypeOK, PcOK, Outside, Inside, InSleepLock, WaitCall, At, Goto,
     Syscall, table, sleeplock
<1>11. ASSUME WaitReap(c, p) PROVE TypeOK' /\ PcOK'
  BY <1>0, <1>11, Consts DEF TypeOK, PcOK, Outside, Inside, InSleepLock, WaitReap, At, Goto,
     Zombies, Children, table, sleeplock
<1>12. ASSUME WaitNone(c, p) PROVE TypeOK' /\ PcOK'
  BY Zenon, <1>0, <1>12, Consts DEF TypeOK, PcOK, Outside, Inside, InSleepLock, WaitNone, At, Goto,
     table, sleeplock
<1>13. ASSUME WaitSleep(c, p) PROVE TypeOK' /\ PcOK'
  BY Zenon, <1>0, <1>13, Consts DEF TypeOK, PcOK, Outside, Inside, InSleepLock, WaitSleep, At, Goto,
     table, sleeplock
<1>14. ASSUME WaitWoken(c, p) PROVE TypeOK' /\ PcOK'
  BY Zenon, <1>0, <1>14, Consts DEF TypeOK, PcOK, Outside, Inside, InSleepLock, WaitWoken, At, Goto,
     table, sleeplock
<1>15. ASSUME NEW v \in Victims, Kill(c, p, v) PROVE TypeOK' /\ PcOK'
  BY <1>0, <1>15, Consts DEF TypeOK, PcOK, Outside, Inside, InSleepLock, Kill, At, Goto, Syscall,
     table, sleeplock
<1>16. ASSUME AcquireSleep(c, p) PROVE TypeOK' /\ PcOK'
  BY Zenon, <1>0, <1>16, Consts DEF TypeOK, PcOK, Outside, Inside, InSleepLock, AcquireSleep, At, Goto,
     Syscall, table, sleeplock
<1>17. ASSUME SleepLockTaken(c, p) PROVE TypeOK' /\ PcOK'
  BY Zenon, <1>0, <1>17, Consts DEF TypeOK, PcOK, Outside, Inside, InSleepLock, SleepLockTaken, At,
     Goto, table, sleeplock
<1>18. ASSUME SleepCall(c, p) PROVE TypeOK' /\ PcOK'
  BY Zenon, <1>0, <1>18, Consts DEF TypeOK, PcOK, Outside, Inside, InSleepLock, SleepCall, At, Goto,
     table, sleeplock
<1>19. ASSUME Sleep(c, p) PROVE TypeOK' /\ PcOK'
  BY Zenon, <1>0, <1>19, Consts DEF TypeOK, PcOK, Outside, Inside, InSleepLock, Sleep, At, Goto, table,
     sleeplock
<1>20. ASSUME SleepWoken(c, p) PROVE TypeOK' /\ PcOK'
  BY Zenon, <1>0, <1>20, Consts DEF TypeOK, PcOK, Outside, Inside, InSleepLock, SleepWoken, At, Goto,
     table, sleeplock
<1>21. ASSUME ReleaseSleep(c, p) PROVE TypeOK' /\ PcOK'
  BY Zenon, <1>0, <1>21, Consts DEF TypeOK, PcOK, Outside, Inside, InSleepLock, ReleaseSleep, At,
     Goto, table, sleeplock
<1>22. ASSUME Wakeup(c, p) PROVE TypeOK' /\ PcOK'
  BY Zenon, <1>0, <1>22, Consts DEF TypeOK, PcOK, Outside, Inside, InSleepLock, Wakeup, At, Goto,
     Wakeup1, table, sleeplock
<1> QED
  BY Zenon, <1>1, <1>2, <1>3, <1>4, <1>5, <1>6, <1>7, <1>8, <1>9, <1>10, <1>11, <1>12, <1>13,
     <1>14, <1>15, <1>16, <1>17, <1>18, <1>19, <1>20, <1>21, <1>22 DEF ProcessStep, Outside

(* A step of the scheduler: who is on which CPU. *)
LEMMA CpuSched ==
  ASSUME ProcInv, NEW c \in CPUs, SchedulerStep(c)
  PROVE  CpuInv'
<1>0. TypeOK /\ CpuInv /\ LockInv /\ ForkInv /\ StateInv
  BY Zenon DEF ProcInv
<1>1. ASSUME SchedAcquire(c) PROVE CpuInv'
  BY <1>0, <1>1, Consts, NextSlot DEF TypeOK, CpuInv, LockInv, HoldsTable, SchedAcquire, table,
     sleeplock
<1>2. ASSUME SchedRun(c) PROVE CpuInv'
  BY <1>0, <1>2, Consts, NextSlot DEF TypeOK, CpuInv, LockInv, HoldsTable, StateInv, SchedRun,
     Runnable, table, sleeplock
<1>3. ASSUME SchedRelease(c) PROVE CpuInv'
  BY <1>0, <1>3, Consts, NextSlot DEF TypeOK, CpuInv, LockInv, HoldsTable, SchedRelease, table,
     sleeplock
<1>4. ASSUME Sched(c) PROVE CpuInv'
  BY <1>0, <1>4, Consts, NextSlot DEF TypeOK, CpuInv, LockInv, HoldsTable, Sched, table, sleeplock
<1> QED
  BY Zenon, <1>1, <1>2, <1>3, <1>4 DEF SchedulerStep

(* A step of a process: who is on which CPU. *)
LEMMA CpuProc ==
  ASSUME ProcInv, NEW c \in CPUs, NEW p \in Slot, ProcessStep(c, p)
  PROVE  CpuInv'
<1>0. TypeOK /\ CpuInv /\ LockInv /\ ForkInv /\ StateInv
  BY Zenon DEF ProcInv
<1>1. ASSUME ForkRet(c, p) PROVE CpuInv'
  BY <1>0, <1>1, Consts DEF TypeOK, CpuInv, LockInv, HoldsTable, ForkRet, At, Goto, table, sleeplock
<1>2. ASSUME Yielded(c, p) PROVE CpuInv'
  BY <1>0, <1>2, Consts DEF TypeOK, CpuInv, LockInv, HoldsTable, Yielded, At, Goto, table, sleeplock
<1>3. ASSUME NEW l \in Outside, Yield(c, p, l) PROVE CpuInv'
  BY <1>0, <1>3, Consts DEF TypeOK, CpuInv, LockInv, HoldsTable, Yield, At, Goto, table, sleeplock
<1>4. ASSUME ForkAlloc(c, p) PROVE CpuInv'
  BY <1>0, <1>4, Consts DEF TypeOK, CpuInv, LockInv, HoldsTable, ForkAlloc, At, Goto, Syscall,
     table, sleeplock
<1>5. ASSUME ForkFail(c, p) PROVE CpuInv'
  BY <1>0, <1>5, Consts DEF TypeOK, CpuInv, LockInv, HoldsTable, ForkInv, Forking, Where,
     ForkFail, At, Goto, table, sleeplock
<1>6. ASSUME ForkCopy(c, p) PROVE CpuInv'
  BY <1>0, <1>6, Consts DEF TypeOK, CpuInv, LockInv, HoldsTable, ForkCopy, At, Goto, table,
     sleeplock
<1>7. ASSUME ForkDone(c, p) PROVE CpuInv'
  BY <1>0, <1>7, Consts DEF TypeOK, CpuInv, LockInv, HoldsTable, ForkInv, Forking, Where,
     ForkDone, At, Goto, table, sleeplock
<1>8. ASSUME ExitCall(c, p) PROVE CpuInv'
  BY <1>0, <1>8, Consts DEF TypeOK, CpuInv, LockInv, HoldsTable, ExitCall, At, Goto, table,
     sleeplock
<1>9. ASSUME Exit(c, p) PROVE CpuInv'
  BY <1>0, <1>9, Consts DEF TypeOK, CpuInv, LockInv, HoldsTable, Exit, At, Goto, Wakeup1, table,
     sleeplock
<1>10. ASSUME WaitCall(c, p) PROVE CpuInv'
  BY <1>0, <1>10, Consts DEF TypeOK, CpuInv, LockInv, HoldsTable, WaitCall, At, Goto, Syscall,
     table, sleeplock
<1>11. ASSUME WaitReap(c, p) PROVE CpuInv'
  BY <1>0, <1>11, Consts DEF TypeOK, CpuInv, LockInv, HoldsTable, Inside, WaitReap, At, Goto,
     Zombies, Children, table, sleeplock
<1>12. ASSUME WaitNone(c, p) PROVE CpuInv'
  BY <1>0, <1>12, Consts DEF TypeOK, CpuInv, LockInv, HoldsTable, WaitNone, At, Goto, table,
     sleeplock
<1>13. ASSUME WaitSleep(c, p) PROVE CpuInv'
  BY <1>0, <1>13, Consts DEF TypeOK, CpuInv, LockInv, HoldsTable, WaitSleep, At, Goto, table,
     sleeplock
<1>14. ASSUME WaitWoken(c, p) PROVE CpuInv'
  BY <1>0, <1>14, Consts DEF TypeOK, CpuInv, LockInv, HoldsTable, WaitWoken, At, Goto, table,
     sleeplock
<1>15. ASSUME NEW v \in Victims, Kill(c, p, v) PROVE CpuInv'
  BY <1>0, <1>15, Consts DEF TypeOK, CpuInv, LockInv, HoldsTable, Kill, At, Goto, Syscall, table,
     sleeplock
<1>16. ASSUME AcquireSleep(c, p) PROVE CpuInv'
  BY <1>0, <1>16, Consts DEF TypeOK, CpuInv, LockInv, HoldsTable, AcquireSleep, At, Goto,
     Syscall, table, sleeplock
<1>17. ASSUME SleepLockTaken(c, p) PROVE CpuInv'
  BY <1>0, <1>17, Consts DEF TypeOK, CpuInv, LockInv, HoldsTable, SleepLockTaken, At, Goto,
     table, sleeplock
<1>18. ASSUME SleepCall(c, p) PROVE CpuInv'
  BY <1>0, <1>18, Consts DEF TypeOK, CpuInv, LockInv, HoldsTable, SleepCall, At, Goto, table,
     sleeplock
<1>19. ASSUME Sleep(c, p) PROVE CpuInv'
  BY <1>0, <1>19, Consts DEF TypeOK, CpuInv, LockInv, HoldsTable, Sleep, At, Goto, table, sleeplock
<1>20. ASSUME SleepWoken(c, p) PROVE CpuInv'
  BY <1>0, <1>20, Consts DEF TypeOK, CpuInv, LockInv, HoldsTable, SleepWoken, At, Goto, table,
     sleeplock
<1>21. ASSUME ReleaseSleep(c, p) PROVE CpuInv'
  BY <1>0, <1>21, Consts DEF TypeOK, CpuInv, LockInv, HoldsTable, ReleaseSleep, At, Goto, table,
     sleeplock
<1>22. ASSUME Wakeup(c, p) PROVE CpuInv'
  BY <1>0, <1>22, Consts DEF TypeOK, CpuInv, LockInv, HoldsTable, Wakeup, At, Goto, Wakeup1,
     table, sleeplock
<1> QED
  BY Zenon, <1>1, <1>2, <1>3, <1>4, <1>5, <1>6, <1>7, <1>8, <1>9, <1>10, <1>11, <1>12, <1>13,
     <1>14, <1>15, <1>16, <1>17, <1>18, <1>19, <1>20, <1>21, <1>22 DEF ProcessStep, Outside

(* A step of the scheduler: who holds ptable.lock and the spinlock of the sleep-lock. *)
LEMMA LockSched ==
  ASSUME ProcInv, NEW c \in CPUs, SchedulerStep(c)
  PROVE  LockInv'
<1>0. TypeOK /\ PcOK /\ CpuInv /\ LockInv /\ ForkInv /\ StateInv
  BY Zenon DEF ProcInv
<1>1. ASSUME SchedAcquire(c) PROVE LockInv'
  BY <1>0, <1>1, Consts, NextSlot DEF TypeOK, PcOK, CpuInv, LockInv, HoldsTable, HoldsSleep,
     StateInv, Inside, InSleepLock, SchedAcquire, table, sleeplock
<1>2. ASSUME SchedRun(c) PROVE LockInv'
  BY <1>0, <1>2, Consts, NextSlot DEF TypeOK, PcOK, CpuInv, LockInv, HoldsTable, HoldsSleep,
     StateInv, Inside, InSleepLock, SchedRun, Runnable, table, sleeplock
<1>3. ASSUME SchedRelease(c) PROVE LockInv'
  BY <1>0, <1>3, Consts, NextSlot DEF TypeOK, PcOK, CpuInv, LockInv, HoldsTable, HoldsSleep,
     StateInv, Inside, InSleepLock, SchedRelease, table, sleeplock
<1>4. ASSUME Sched(c) PROVE LockInv'
  BY <1>0, <1>4, Consts, NextSlot DEF TypeOK, PcOK, CpuInv, LockInv, HoldsTable, HoldsSleep,
     StateInv, Inside, InSleepLock, Sched, table, sleeplock
<1> QED
  BY Zenon, <1>1, <1>2, <1>3, <1>4 DEF SchedulerStep

(* A step of a process: who holds ptable.lock and the spinlock of the sleep-lock. *)
LEMMA LockProc ==
  ASSUME ProcInv, NEW c \in CPUs, NEW p \in Slot, ProcessStep(c, p)
  PROVE  LockInv'
<1>0. TypeOK /\ PcOK /\ CpuInv /\ LockInv /\ ForkInv /\ StateInv
  BY Zenon DEF ProcInv
<1>1. ASSUME ForkRet(c, p) PROVE LockInv'
  BY <1>0, <1>1, Consts DEF TypeOK, PcOK, CpuInv, LockInv, HoldsTable, HoldsSleep, StateInv,
     Inside, InSleepLock, ForkRet, At, Goto, table, sleeplock
<1>2. ASSUME Yielded(c, p) PROVE LockInv'
  BY <1>0, <1>2, Consts DEF TypeOK, PcOK, CpuInv, LockInv, HoldsTable, HoldsSleep, StateInv,
     Inside, InSleepLock, Outside, Yielded, At, Goto, table, sleeplock
<1>3. ASSUME NEW l \in Outside, Yield(c, p, l) PROVE LockInv'
  BY <1>0, <1>3, Consts DEF TypeOK, PcOK, CpuInv, LockInv, HoldsTable, HoldsSleep, StateInv,
     Inside, InSleepLock, Yield, At, Goto, table, sleeplock
<1>4. ASSUME ForkAlloc(c, p) PROVE LockInv'
  BY <1>0, <1>4, Consts DEF TypeOK, PcOK, CpuInv, LockInv, HoldsTable, HoldsSleep, StateInv,
     Inside, InSleepLock, ForkAlloc, At, Goto, Syscall, table, sleeplock
<1>5. ASSUME ForkFail(c, p) PROVE LockInv'
  BY <1>0, <1>5, Consts DEF TypeOK, PcOK, CpuInv, LockInv, HoldsTable, HoldsSleep, StateInv,
     Inside, InSleepLock, ForkInv, Forking, Where, ForkFail, At, Goto, table, sleeplock
<1>6. ASSUME ForkCopy(c, p) PROVE LockInv'
  BY <1>0, <1>6, Consts DEF TypeOK, PcOK, CpuInv, LockInv, HoldsTable, HoldsSleep, StateInv,
     Inside, InSleepLock, ForkCopy, At, Goto, table, sleeplock
<1>7. ASSUME ForkDone(c, p) PROVE LockInv'
  BY <1>0, <1>7, Consts DEF TypeOK, PcOK, CpuInv, LockInv, HoldsTable, HoldsSleep, StateInv,
     Inside, InSleepLock, ForkInv, Forking, Where, ForkDone, At, Goto, table, sleeplock
<1>8. ASSUME ExitCall(c, p) PROVE LockInv'
  BY <1>0, <1>8, Consts DEF TypeOK, PcOK, CpuInv, LockInv, HoldsTable, HoldsSleep, StateInv,
     Inside, InSleepLock, ExitCall, At, Goto, table, sleeplock
<1>9. ASSUME Exit(c, p) PROVE LockInv'
  BY <1>0, <1>9, Consts DEF TypeOK, PcOK, CpuInv, LockInv, HoldsTable, HoldsSleep, StateInv,
     Inside, InSleepLock, Exit, At, Goto, Wakeup1, table, sleeplock
<1>10. ASSUME WaitCall(c, p) PROVE LockInv'
  BY <1>0, <1>10, Consts DEF TypeOK, PcOK, CpuInv, LockInv, HoldsTable, HoldsSleep, StateInv,
     Inside, InSleepLock, WaitCall, At, Goto, Syscall, table, sleeplock
<1>11. ASSUME WaitReap(c, p) PROVE LockInv'
  BY <1>0, <1>11, Consts DEF TypeOK, PcOK, CpuInv, LockInv, HoldsTable, HoldsSleep, StateInv,
     Inside, InSleepLock, WaitReap, At, Goto, Zombies, Children, table, sleeplock
<1>12. ASSUME WaitNone(c, p) PROVE LockInv'
  BY <1>0, <1>12, Consts DEF TypeOK, PcOK, CpuInv, LockInv, HoldsTable, HoldsSleep, StateInv,
     Inside, InSleepLock, WaitNone, At, Goto, table, sleeplock
<1>13. ASSUME WaitSleep(c, p) PROVE LockInv'
  BY <1>0, <1>13, Consts DEF TypeOK, PcOK, CpuInv, LockInv, HoldsTable, HoldsSleep, StateInv,
     Inside, InSleepLock, WaitSleep, At, Goto, table, sleeplock
<1>14. ASSUME WaitWoken(c, p) PROVE LockInv'
  BY <1>0, <1>14, Consts DEF TypeOK, PcOK, CpuInv, LockInv, HoldsTable, HoldsSleep, StateInv,
     Inside, InSleepLock, WaitWoken, At, Goto, table, sleeplock
<1>15. ASSUME NEW v \in Victims, Kill(c, p, v) PROVE LockInv'
  BY <1>0, <1>15, Consts DEF TypeOK, PcOK, CpuInv, LockInv, HoldsTable, HoldsSleep, StateInv,
     Inside, InSleepLock, Kill, At, Goto, Syscall, table, sleeplock
<1>16. ASSUME AcquireSleep(c, p) PROVE LockInv'
  BY <1>0, <1>16, Consts DEF TypeOK, PcOK, CpuInv, LockInv, HoldsTable, HoldsSleep, StateInv,
     Inside, InSleepLock, AcquireSleep, At, Goto, Syscall, table, sleeplock
<1>17. ASSUME SleepLockTaken(c, p) PROVE LockInv'
  BY <1>0, <1>17, Consts DEF TypeOK, PcOK, CpuInv, LockInv, HoldsTable, HoldsSleep, StateInv,
     Inside, InSleepLock, SleepLockTaken, At, Goto, table, sleeplock
<1>18. ASSUME SleepCall(c, p) PROVE LockInv'
  BY <1>0, <1>18, Consts DEF TypeOK, PcOK, CpuInv, LockInv, HoldsTable, HoldsSleep, StateInv,
     Inside, InSleepLock, SleepCall, At, Goto, table, sleeplock
<1>19. ASSUME Sleep(c, p) PROVE LockInv'
  BY <1>0, <1>19, Consts DEF TypeOK, PcOK, CpuInv, LockInv, HoldsTable, HoldsSleep, StateInv,
     Inside, InSleepLock, Sleep, At, Goto, table, sleeplock
<1>20. ASSUME SleepWoken(c, p) PROVE LockInv'
  BY <1>0, <1>20, Consts DEF TypeOK, PcOK, CpuInv, LockInv, HoldsTable, HoldsSleep, StateInv,
     Inside, InSleepLock, SleepWoken, At, Goto, table, sleeplock
<1>21. ASSUME ReleaseSleep(c, p) PROVE LockInv'
  BY <1>0, <1>21, Consts DEF TypeOK, PcOK, CpuInv, LockInv, HoldsTable, HoldsSleep, StateInv,
     Inside, InSleepLock, ReleaseSleep, At, Goto, table, sleeplock
<1>22. ASSUME Wakeup(c, p) PROVE LockInv'
  BY <1>0, <1>22, Consts DEF TypeOK, PcOK, CpuInv, LockInv, HoldsTable, HoldsSleep, StateInv,
     Inside, InSleepLock, Wakeup, At, Goto, Wakeup1, table, sleeplock
<1> QED
  BY Zenon, <1>1, <1>2, <1>3, <1>4, <1>5, <1>6, <1>7, <1>8, <1>9, <1>10, <1>11, <1>12, <1>13,
     <1>14, <1>15, <1>16, <1>17, <1>18, <1>19, <1>20, <1>21, <1>22 DEF ProcessStep, Outside

(* A step of the scheduler: what the state says of where a process is. *)
LEMMA StateSched ==
  ASSUME ProcInv, NEW c \in CPUs, SchedulerStep(c)
  PROVE  StateInv'
<1>0. TypeOK /\ PcOK /\ StateInv /\ ForkInv
  BY Zenon DEF ProcInv
<1>1. ASSUME SchedAcquire(c) PROVE StateInv'
  BY <1>0, <1>1, Consts DEF TypeOK, PcOK, StateInv, SchedAcquire, table, sleeplock
<1>2. ASSUME SchedRun(c) PROVE StateInv'
  BY <1>0, <1>2, Consts DEF TypeOK, PcOK, StateInv, SchedRun, Runnable, table, sleeplock
<1>3. ASSUME SchedRelease(c) PROVE StateInv'
  BY <1>0, <1>3, Consts DEF TypeOK, PcOK, StateInv, SchedRelease, table, sleeplock
<1>4. ASSUME Sched(c) PROVE StateInv'
  BY <1>0, <1>4, Consts DEF TypeOK, PcOK, StateInv, Sched, table, sleeplock
<1> QED
  BY Zenon, <1>1, <1>2, <1>3, <1>4 DEF SchedulerStep

(* A step of a process: what the state says of where a process is. *)
LEMMA StateProc ==
  ASSUME ProcInv, NEW c \in CPUs, NEW p \in Slot, ProcessStep(c, p)
  PROVE  StateInv'
<1>0. TypeOK /\ PcOK /\ StateInv /\ ForkInv
  BY Zenon DEF ProcInv
<1>1. ASSUME ForkRet(c, p) PROVE StateInv'
  BY <1>0, <1>1, Consts DEF TypeOK, PcOK, StateInv, ForkRet, At, Goto, table, sleeplock
<1>2. ASSUME Yielded(c, p) PROVE StateInv'
  BY <1>0, <1>2, Consts DEF TypeOK, PcOK, StateInv, Outside, Yielded, At, Goto, table, sleeplock
<1>3. ASSUME NEW l \in Outside, Yield(c, p, l) PROVE StateInv'
  BY <1>0, <1>3, Consts DEF TypeOK, PcOK, StateInv, Yield, At, Goto, table, sleeplock
<1>4. ASSUME ForkAlloc(c, p) PROVE StateInv'
  BY <1>0, <1>4, Consts DEF TypeOK, PcOK, StateInv, ForkAlloc, At, Goto, Syscall, table, sleeplock
<1>5. ASSUME ForkFail(c, p) PROVE StateInv'
  BY <1>0, <1>5, Consts DEF TypeOK, PcOK, StateInv, ForkInv, Forking, Where, ForkFail, At, Goto,
     table, sleeplock
<1>6. ASSUME ForkCopy(c, p) PROVE StateInv'
  BY <1>0, <1>6, Consts DEF TypeOK, PcOK, StateInv, ForkCopy, At, Goto, table, sleeplock
<1>7. ASSUME ForkDone(c, p) PROVE StateInv'
  BY <1>0, <1>7, Consts DEF TypeOK, PcOK, StateInv, ForkInv, Forking, Where, ForkDone, At, Goto,
     table, sleeplock
<1>8. ASSUME ExitCall(c, p) PROVE StateInv'
  BY <1>0, <1>8, Consts DEF TypeOK, PcOK, StateInv, ExitCall, At, Goto, table, sleeplock
<1>9. ASSUME Exit(c, p) PROVE StateInv'
  BY <1>0, <1>9, Consts DEF TypeOK, PcOK, StateInv, Exit, At, Goto, Wakeup1, table, sleeplock
<1>10. ASSUME WaitCall(c, p) PROVE StateInv'
  BY <1>0, <1>10, Consts DEF TypeOK, PcOK, StateInv, WaitCall, At, Goto, Syscall, table, sleeplock
<1>11. ASSUME WaitReap(c, p) PROVE StateInv'
  BY <1>0, <1>11, Consts DEF TypeOK, PcOK, StateInv, WaitReap, At, Goto, Zombies, Children,
     table, sleeplock
<1>12. ASSUME WaitNone(c, p) PROVE StateInv'
  BY <1>0, <1>12, Consts DEF TypeOK, PcOK, StateInv, WaitNone, At, Goto, table, sleeplock
<1>13. ASSUME WaitSleep(c, p) PROVE StateInv'
  BY <1>0, <1>13, Consts DEF TypeOK, PcOK, StateInv, WaitSleep, At, Goto, table, sleeplock
<1>14. ASSUME WaitWoken(c, p) PROVE StateInv'
  BY <1>0, <1>14, Consts DEF TypeOK, PcOK, StateInv, WaitWoken, At, Goto, table, sleeplock
<1>15. ASSUME NEW v \in Victims, Kill(c, p, v) PROVE StateInv'
  BY <1>0, <1>15, Consts DEF TypeOK, PcOK, StateInv, Kill, At, Goto, Syscall, table, sleeplock
<1>16. ASSUME AcquireSleep(c, p) PROVE StateInv'
  BY <1>0, <1>16, Consts DEF TypeOK, PcOK, StateInv, AcquireSleep, At, Goto, Syscall, table,
     sleeplock
<1>17. ASSUME SleepLockTaken(c, p) PROVE StateInv'
  BY <1>0, <1>17, Consts DEF TypeOK, PcOK, StateInv, SleepLockTaken, At, Goto, table, sleeplock
<1>18. ASSUME SleepCall(c, p) PROVE StateInv'
  BY <1>0, <1>18, Consts DEF TypeOK, PcOK, StateInv, SleepCall, At, Goto, table, sleeplock
<1>19. ASSUME Sleep(c, p) PROVE StateInv'
  BY <1>0, <1>19, Consts DEF TypeOK, PcOK, StateInv, Sleep, At, Goto, table, sleeplock
<1>20. ASSUME SleepWoken(c, p) PROVE StateInv'
  BY <1>0, <1>20, Consts DEF TypeOK, PcOK, StateInv, SleepWoken, At, Goto, table, sleeplock
<1>21. ASSUME ReleaseSleep(c, p) PROVE StateInv'
  BY <1>0, <1>21, Consts DEF TypeOK, PcOK, StateInv, ReleaseSleep, At, Goto, table, sleeplock
<1>22. ASSUME Wakeup(c, p) PROVE StateInv'
  BY <1>0, <1>22, Consts DEF TypeOK, PcOK, StateInv, Wakeup, At, Goto, Wakeup1, table, sleeplock
<1> QED
  BY Zenon, <1>1, <1>2, <1>3, <1>4, <1>5, <1>6, <1>7, <1>8, <1>9, <1>10, <1>11, <1>12, <1>13,
     <1>14, <1>15, <1>16, <1>17, <1>18, <1>19, <1>20, <1>21, <1>22 DEF ProcessStep, Outside

(* A step of the scheduler: the child that fork is creating. *)
LEMMA ForkSched ==
  ASSUME ProcInv, NEW c \in CPUs, SchedulerStep(c)
  PROVE  ForkInv'
<1>0. TypeOK /\ PcOK /\ StateInv /\ ForkInv
  BY Zenon DEF ProcInv
<1>1. ASSUME SchedAcquire(c) PROVE ForkInv'
  BY <1>0, <1>1, Consts DEF TypeOK, PcOK, ForkInv, Where, Forking, SchedAcquire, table, sleeplock
<1>2. ASSUME SchedRun(c) PROVE ForkInv'
  BY <1>0, <1>2, Consts DEF TypeOK, PcOK, ForkInv, Where, Forking, StateInv, SchedRun, Runnable,
     table, sleeplock
<1>3. ASSUME SchedRelease(c) PROVE ForkInv'
  BY <1>0, <1>3, Consts DEF TypeOK, PcOK, ForkInv, Where, Forking, SchedRelease, table, sleeplock
<1>4. ASSUME Sched(c) PROVE ForkInv'
  BY <1>0, <1>4, Consts DEF TypeOK, PcOK, ForkInv, Where, Forking, Sched, table, sleeplock
<1> QED
  BY Zenon, <1>1, <1>2, <1>3, <1>4 DEF SchedulerStep

(* A step of a process: the child that fork is creating. *)
LEMMA ForkProc ==
  ASSUME ProcInv, NEW c \in CPUs, NEW p \in Slot, ProcessStep(c, p)
  PROVE  ForkInv'
<1>0. TypeOK /\ PcOK /\ StateInv /\ ForkInv
  BY Zenon DEF ProcInv
<1>1. ASSUME ForkRet(c, p) PROVE ForkInv'
  BY <1>0, <1>1, Consts DEF TypeOK, PcOK, ForkInv, Where, Forking, ForkRet, At, Goto, table,
     sleeplock
<1>2. ASSUME Yielded(c, p) PROVE ForkInv'
  BY <1>0, <1>2, Consts DEF TypeOK, PcOK, ForkInv, Where, Forking, Yielded, At, Goto, table,
     sleeplock
<1>3. ASSUME NEW l \in Outside, Yield(c, p, l) PROVE ForkInv'
  BY <1>0, <1>3, Consts DEF TypeOK, PcOK, ForkInv, Where, Forking, Outside, Yield, At, Goto,
     table, sleeplock
<1>4. ASSUME ForkAlloc(c, p) PROVE ForkInv'
  BY <1>0, <1>4, Consts DEF TypeOK, PcOK, ForkInv, Where, Forking, StateInv, ForkAlloc, At, Goto,
     Syscall, table, sleeplock
<1>5. ASSUME ForkFail(c, p) PROVE ForkInv'
  BY <1>0, <1>5, Consts DEF TypeOK, PcOK, ForkInv, Where, Forking, ForkFail, At, Goto, table,
     sleeplock
<1>6. ASSUME ForkCopy(c, p) PROVE ForkInv'
  BY <1>0, <1>6, Consts DEF TypeOK, PcOK, ForkInv, Where, Forking, ForkCopy, At, Goto, table,
     sleeplock
<1>7. ASSUME ForkDone(c, p) PROVE ForkInv'
  BY <1>0, <1>7, Consts DEF TypeOK, PcOK, ForkInv, Where, Forking, ForkDone, At, Goto, table,
     sleeplock
<1>8. ASSUME ExitCall(c, p) PROVE ForkInv'
  BY <1>0, <1>8, Consts DEF TypeOK, PcOK, ForkInv, Where, Forking, ExitCall, At, Goto, table,
     sleeplock
<1>9. ASSUME Exit(c, p) PROVE ForkInv'
  BY <1>0, <1>9, Consts DEF TypeOK, PcOK, ForkInv, Where, Forking, StateInv, Exit, At, Goto,
     Wakeup1, table, sleeplock
<1>10. ASSUME WaitCall(c, p) PROVE ForkInv'
  BY <1>0, <1>10, Consts DEF TypeOK, PcOK, ForkInv, Where, Forking, WaitCall, At, Goto, Syscall,
     table, sleeplock
<1>11. ASSUME WaitReap(c, p) PROVE ForkInv'
  BY <1>0, <1>11, Consts DEF TypeOK, PcOK, ForkInv, Where, Forking, StateInv, WaitReap, At, Goto,
     Zombies, Children, table, sleeplock
<1>12. ASSUME WaitNone(c, p) PROVE ForkInv'
  BY <1>0, <1>12, Consts DEF TypeOK, PcOK, ForkInv, Where, Forking, WaitNone, At, Goto, table,
     sleeplock
<1>13. ASSUME WaitSleep(c, p) PROVE ForkInv'
  BY <1>0, <1>13, Consts DEF TypeOK, PcOK, ForkInv, Where, Forking, WaitSleep, At, Goto, table,
     sleeplock
<1>14. ASSUME WaitWoken(c, p) PROVE ForkInv'
  BY <1>0, <1>14, Consts DEF TypeOK, PcOK, ForkInv, Where, Forking, WaitWoken, At, Goto, table,
     sleeplock
<1>15. ASSUME NEW v \in Victims, Kill(c, p, v) PROVE ForkInv'
  BY <1>0, <1>15, Consts DEF TypeOK, PcOK, ForkInv, Where, Forking, StateInv, Kill, At, Goto,
     Syscall, table, sleeplock
<1>16. ASSUME AcquireSleep(c, p) PROVE ForkInv'
  BY <1>0, <1>16, Consts DEF TypeOK, PcOK, ForkInv, Where, Forking, AcquireSleep, At, Goto,
     Syscall, table, sleeplock
<1>17. ASSUME SleepLockTaken(c, p) PROVE ForkInv'
  BY <1>0, <1>17, Consts DEF TypeOK, PcOK, ForkInv, Where, Forking, SleepLockTaken, At, Goto,
     table, sleeplock
<1>18. ASSUME SleepCall(c, p) PROVE ForkInv'
  BY <1>0, <1>18, Consts DEF TypeOK, PcOK, ForkInv, Where, Forking, SleepCall, At, Goto, table,
     sleeplock
<1>19. ASSUME Sleep(c, p) PROVE ForkInv'
  BY <1>0, <1>19, Consts DEF TypeOK, PcOK, ForkInv, Where, Forking, Sleep, At, Goto, table,
     sleeplock
<1>20. ASSUME SleepWoken(c, p) PROVE ForkInv'
  BY <1>0, <1>20, Consts DEF TypeOK, PcOK, ForkInv, Where, Forking, SleepWoken, At, Goto, table,
     sleeplock
<1>21. ASSUME ReleaseSleep(c, p) PROVE ForkInv'
  BY <1>0, <1>21, Consts DEF TypeOK, PcOK, ForkInv, Where, Forking, ReleaseSleep, At, Goto,
     table, sleeplock
<1>22. ASSUME Wakeup(c, p) PROVE ForkInv'
  BY <1>0, <1>22, Consts DEF TypeOK, PcOK, ForkInv, Where, Forking, Wakeup, At, Goto, Wakeup1,
     table, sleeplock
<1> QED
  BY Zenon, <1>1, <1>2, <1>3, <1>4, <1>5, <1>6, <1>7, <1>8, <1>9, <1>10, <1>11, <1>12, <1>13,
     <1>14, <1>15, <1>16, <1>17, <1>18, <1>19, <1>20, <1>21, <1>22 DEF ProcessStep, Outside

(* A step of the scheduler: parents, and init. *)
LEMMA FamilySched ==
  ASSUME ProcInv, NEW c \in CPUs, SchedulerStep(c)
  PROVE  FamilyInv'
<1>0. TypeOK /\ PcOK /\ StateInv /\ ForkInv /\ FamilyInv
  BY Zenon DEF ProcInv
<1>1. ASSUME SchedAcquire(c) PROVE FamilyInv'
  BY <1>0, <1>1, Consts DEF TypeOK, PcOK, FamilyInv, HasParent, Where, SchedAcquire, table,
     sleeplock
<1>2. ASSUME SchedRun(c) PROVE FamilyInv'
  BY <1>0, <1>2, Consts DEF TypeOK, PcOK, FamilyInv, HasParent, Where, SchedRun, Runnable, table,
     sleeplock
<1>3. ASSUME SchedRelease(c) PROVE FamilyInv'
  BY Zenon, <1>0, <1>3, Consts DEF TypeOK, PcOK, FamilyInv, HasParent, Where, SchedRelease, table,
     sleeplock
<1>4. ASSUME Sched(c) PROVE FamilyInv'
  BY <1>0, <1>4, Consts DEF TypeOK, PcOK, FamilyInv, HasParent, Where, Sched, table, sleeplock
<1> QED
  BY Zenon, <1>1, <1>2, <1>3, <1>4 DEF SchedulerStep

(* A step of a process: parents, and init. *)
LEMMA FamilyProc ==
  ASSUME ProcInv, NEW c \in CPUs, NEW p \in Slot, ProcessStep(c, p)
  PROVE  FamilyInv'
<1>0. TypeOK /\ PcOK /\ StateInv /\ ForkInv /\ FamilyInv
  BY Zenon DEF ProcInv
<1>1. ASSUME ForkRet(c, p) PROVE FamilyInv'
  BY <1>0, <1>1, Consts DEF TypeOK, PcOK, FamilyInv, HasParent, Where, ForkRet, At, Goto, table,
     sleeplock
<1>2. ASSUME Yielded(c, p) PROVE FamilyInv'
  BY <1>0, <1>2, Consts DEF TypeOK, PcOK, FamilyInv, HasParent, Where, Yielded, At, Goto, table,
     sleeplock
<1>3. ASSUME NEW l \in Outside, Yield(c, p, l) PROVE FamilyInv'
  BY <1>0, <1>3, Consts DEF TypeOK, PcOK, FamilyInv, HasParent, Where, Yield, At, Goto, table,
     sleeplock
<1>4. ASSUME ForkAlloc(c, p) PROVE FamilyInv'
  BY <1>0, <1>4, Consts DEF TypeOK, PcOK, FamilyInv, HasParent, Where, StateInv, ForkAlloc, At,
     Goto, Syscall, table, sleeplock
<1>5. ASSUME ForkFail(c, p) PROVE FamilyInv'
  BY <1>0, <1>5, Consts DEF TypeOK, PcOK, FamilyInv, HasParent, Where, ForkInv, Forking,
     ForkFail, At, Goto, table, sleeplock
<1>6. ASSUME ForkCopy(c, p) PROVE FamilyInv'
  BY <1>0, <1>6, Consts DEF TypeOK, PcOK, FamilyInv, HasParent, Where, ForkInv, Forking,
     ForkCopy, At, Goto, table, sleeplock
<1>7. ASSUME ForkDone(c, p) PROVE FamilyInv'
  BY <1>0, <1>7, Consts DEF TypeOK, PcOK, FamilyInv, HasParent, Where, ForkInv, Forking,
     ForkDone, At, Goto, table, sleeplock
<1>8. ASSUME ExitCall(c, p) PROVE FamilyInv'
  BY <1>0, <1>8, Consts DEF TypeOK, PcOK, FamilyInv, HasParent, Where, ExitCall, At, Goto, table,
     sleeplock
<1>9. ASSUME Exit(c, p) PROVE FamilyInv'
  BY <1>0, <1>9, Consts DEF TypeOK, PcOK, FamilyInv, HasParent, Where, StateInv, Exit, At, Goto,
     Wakeup1, table, sleeplock
<1>10. ASSUME WaitCall(c, p) PROVE FamilyInv'
  BY <1>0, <1>10, Consts DEF TypeOK, PcOK, FamilyInv, HasParent, Where, WaitCall, At, Goto,
     Syscall, table, sleeplock
<1>11. ASSUME WaitReap(c, p) PROVE FamilyInv'
  BY <1>0, <1>11, Consts DEF TypeOK, PcOK, FamilyInv, HasParent, Where, WaitReap, At, Goto,
     Zombies, Children, table, sleeplock
<1>12. ASSUME WaitNone(c, p) PROVE FamilyInv'
  BY <1>0, <1>12, Consts DEF TypeOK, PcOK, FamilyInv, HasParent, Where, WaitNone, At, Goto,
     table, sleeplock
<1>13. ASSUME WaitSleep(c, p) PROVE FamilyInv'
  BY <1>0, <1>13, Consts DEF TypeOK, PcOK, FamilyInv, HasParent, Where, WaitSleep, At, Goto,
     table, sleeplock
<1>14. ASSUME WaitWoken(c, p) PROVE FamilyInv'
  BY <1>0, <1>14, Consts DEF TypeOK, PcOK, FamilyInv, HasParent, Where, WaitWoken, At, Goto,
     table, sleeplock
<1>15. ASSUME NEW v \in Victims, Kill(c, p, v) PROVE FamilyInv'
  BY <1>0, <1>15, Consts DEF TypeOK, PcOK, FamilyInv, HasParent, Where, Kill, At, Goto, Syscall,
     table, sleeplock
<1>16. ASSUME AcquireSleep(c, p) PROVE FamilyInv'
  BY <1>0, <1>16, Consts DEF TypeOK, PcOK, FamilyInv, HasParent, Where, AcquireSleep, At, Goto,
     Syscall, table, sleeplock
<1>17. ASSUME SleepLockTaken(c, p) PROVE FamilyInv'
  BY <1>0, <1>17, Consts DEF TypeOK, PcOK, FamilyInv, HasParent, Where, SleepLockTaken, At, Goto,
     table, sleeplock
<1>18. ASSUME SleepCall(c, p) PROVE FamilyInv'
  BY <1>0, <1>18, Consts DEF TypeOK, PcOK, FamilyInv, HasParent, Where, SleepCall, At, Goto,
     table, sleeplock
<1>19. ASSUME Sleep(c, p) PROVE FamilyInv'
  BY <1>0, <1>19, Consts DEF TypeOK, PcOK, FamilyInv, HasParent, Where, Sleep, At, Goto, table,
     sleeplock
<1>20. ASSUME SleepWoken(c, p) PROVE FamilyInv'
  BY <1>0, <1>20, Consts DEF TypeOK, PcOK, FamilyInv, HasParent, Where, SleepWoken, At, Goto,
     table, sleeplock
<1>21. ASSUME ReleaseSleep(c, p) PROVE FamilyInv'
  BY <1>0, <1>21, Consts DEF TypeOK, PcOK, FamilyInv, HasParent, Where, ReleaseSleep, At, Goto,
     table, sleeplock
<1>22. ASSUME Wakeup(c, p) PROVE FamilyInv'
  BY <1>0, <1>22, Consts DEF TypeOK, PcOK, FamilyInv, HasParent, Where, Wakeup, At, Goto,
     Wakeup1, table, sleeplock
<1> QED
  BY Zenon, <1>1, <1>2, <1>3, <1>4, <1>5, <1>6, <1>7, <1>8, <1>9, <1>10, <1>11, <1>12, <1>13,
     <1>14, <1>15, <1>16, <1>17, <1>18, <1>19, <1>20, <1>21, <1>22 DEF ProcessStep, Outside

(* A step of the scheduler: pids. *)
LEMMA PidSched ==
  ASSUME ProcInv, NEW c \in CPUs, SchedulerStep(c)
  PROVE  PidInv'
<1>0. TypeOK /\ PidInv /\ ForkInv
  BY Zenon DEF ProcInv
<1>1. ASSUME SchedAcquire(c) PROVE PidInv'
  BY <1>0, <1>1, Consts DEF TypeOK, PidInv, UniquePids, SchedAcquire, table, sleeplock
<1>2. ASSUME SchedRun(c) PROVE PidInv'
  BY <1>0, <1>2, Consts DEF TypeOK, PidInv, UniquePids, SchedRun, Runnable, table, sleeplock
<1>3. ASSUME SchedRelease(c) PROVE PidInv'
  BY Zenon, <1>0, <1>3, Consts DEF TypeOK, PidInv, UniquePids, SchedRelease, table, sleeplock
<1>4. ASSUME Sched(c) PROVE PidInv'
  BY <1>0, <1>4, Consts DEF TypeOK, PidInv, UniquePids, Sched, table, sleeplock
<1> QED
  BY Zenon, <1>1, <1>2, <1>3, <1>4 DEF SchedulerStep

(* A step of a process: pids. *)
LEMMA PidProc ==
  ASSUME ProcInv, NEW c \in CPUs, NEW p \in Slot, ProcessStep(c, p)
  PROVE  PidInv'
<1>0. TypeOK /\ PidInv /\ ForkInv
  BY Zenon DEF ProcInv
<1>1. ASSUME ForkRet(c, p) PROVE PidInv'
  BY <1>0, <1>1, Consts DEF TypeOK, PidInv, UniquePids, ForkRet, At, Goto, table, sleeplock
<1>2. ASSUME Yielded(c, p) PROVE PidInv'
  BY <1>0, <1>2, Consts DEF TypeOK, PidInv, UniquePids, Yielded, At, Goto, table, sleeplock
<1>3. ASSUME NEW l \in Outside, Yield(c, p, l) PROVE PidInv'
  BY <1>0, <1>3, Consts DEF TypeOK, PidInv, UniquePids, Yield, At, Goto, table, sleeplock
<1>4. ASSUME ForkAlloc(c, p) PROVE PidInv'
  BY <1>0, <1>4, Consts DEF TypeOK, PidInv, UniquePids, ForkAlloc, At, Goto, Syscall, table,
     sleeplock
<1>5. ASSUME ForkFail(c, p) PROVE PidInv'
  BY <1>0, <1>5, Consts DEF TypeOK, PidInv, UniquePids, ForkInv, Forking, Where, ForkFail, At,
     Goto, table, sleeplock
<1>6. ASSUME ForkCopy(c, p) PROVE PidInv'
  BY <1>0, <1>6, Consts DEF TypeOK, PidInv, UniquePids, ForkCopy, At, Goto, table, sleeplock
<1>7. ASSUME ForkDone(c, p) PROVE PidInv'
  BY <1>0, <1>7, Consts DEF TypeOK, PidInv, UniquePids, ForkInv, Forking, Where, ForkDone, At,
     Goto, table, sleeplock
<1>8. ASSUME ExitCall(c, p) PROVE PidInv'
  BY <1>0, <1>8, Consts DEF TypeOK, PidInv, UniquePids, ExitCall, At, Goto, table, sleeplock
<1>9. ASSUME Exit(c, p) PROVE PidInv'
  BY <1>0, <1>9, Consts DEF TypeOK, PidInv, UniquePids, Exit, At, Goto, Wakeup1, table, sleeplock
<1>10. ASSUME WaitCall(c, p) PROVE PidInv'
  BY <1>0, <1>10, Consts DEF TypeOK, PidInv, UniquePids, WaitCall, At, Goto, Syscall, table,
     sleeplock
<1>11. ASSUME WaitReap(c, p) PROVE PidInv'
  BY <1>0, <1>11, Consts DEF TypeOK, PidInv, UniquePids, WaitReap, At, Goto, Zombies, Children,
     table, sleeplock
<1>12. ASSUME WaitNone(c, p) PROVE PidInv'
  BY <1>0, <1>12, Consts DEF TypeOK, PidInv, UniquePids, WaitNone, At, Goto, table, sleeplock
<1>13. ASSUME WaitSleep(c, p) PROVE PidInv'
  BY <1>0, <1>13, Consts DEF TypeOK, PidInv, UniquePids, WaitSleep, At, Goto, table, sleeplock
<1>14. ASSUME WaitWoken(c, p) PROVE PidInv'
  BY <1>0, <1>14, Consts DEF TypeOK, PidInv, UniquePids, WaitWoken, At, Goto, table, sleeplock
<1>15. ASSUME NEW v \in Victims, Kill(c, p, v) PROVE PidInv'
  BY <1>0, <1>15, Consts DEF TypeOK, PidInv, UniquePids, Kill, At, Goto, Syscall, table, sleeplock
<1>16. ASSUME AcquireSleep(c, p) PROVE PidInv'
  BY Zenon, <1>0, <1>16, Consts DEF TypeOK, PidInv, UniquePids, AcquireSleep, At, Goto, Syscall, table,
     sleeplock
<1>17. ASSUME SleepLockTaken(c, p) PROVE PidInv'
  BY <1>0, <1>17, Consts DEF TypeOK, PidInv, UniquePids, SleepLockTaken, At, Goto, table, sleeplock
<1>18. ASSUME SleepCall(c, p) PROVE PidInv'
  BY <1>0, <1>18, Consts DEF TypeOK, PidInv, UniquePids, SleepCall, At, Goto, table, sleeplock
<1>19. ASSUME Sleep(c, p) PROVE PidInv'
  BY <1>0, <1>19, Consts DEF TypeOK, PidInv, UniquePids, Sleep, At, Goto, table, sleeplock
<1>20. ASSUME SleepWoken(c, p) PROVE PidInv'
  BY <1>0, <1>20, Consts DEF TypeOK, PidInv, UniquePids, SleepWoken, At, Goto, table, sleeplock
<1>21. ASSUME ReleaseSleep(c, p) PROVE PidInv'
  BY <1>0, <1>21, Consts DEF TypeOK, PidInv, UniquePids, ReleaseSleep, At, Goto, table, sleeplock
<1>22. ASSUME Wakeup(c, p) PROVE PidInv'
  BY <1>0, <1>22, Consts DEF TypeOK, PidInv, UniquePids, Wakeup, At, Goto, Wakeup1, table, sleeplock
<1> QED
  BY Zenon, <1>1, <1>2, <1>3, <1>4, <1>5, <1>6, <1>7, <1>8, <1>9, <1>10, <1>11, <1>12, <1>13,
     <1>14, <1>15, <1>16, <1>17, <1>18, <1>19, <1>20, <1>21, <1>22 DEF ProcessStep, Outside

(* A step of the scheduler: the sleepers in wait. *)
LEMMA WaiterSched ==
  ASSUME ProcInv, NEW c \in CPUs, SchedulerStep(c)
  PROVE  WaiterNoticed'
<1>0. TypeOK /\ WaiterNoticed /\ ForkInv /\ FamilyInv
  BY Zenon DEF ProcInv
<1>1. ASSUME SchedAcquire(c) PROVE WaiterNoticed'
  BY <1>0, <1>1, Consts DEF TypeOK, WaiterNoticed, Zombies, Children, SchedAcquire, table, sleeplock
<1>2. ASSUME SchedRun(c) PROVE WaiterNoticed'
  BY <1>0, <1>2, Consts DEF TypeOK, WaiterNoticed, Zombies, Children, SchedRun, Runnable, table,
     sleeplock
<1>3. ASSUME SchedRelease(c) PROVE WaiterNoticed'
  BY <1>0, <1>3, Consts DEF TypeOK, WaiterNoticed, Zombies, Children, SchedRelease, table, sleeplock
<1>4. ASSUME Sched(c) PROVE WaiterNoticed'
  BY <1>0, <1>4, Consts DEF TypeOK, WaiterNoticed, Zombies, Children, Sched, table, sleeplock
<1> QED
  BY Zenon, <1>1, <1>2, <1>3, <1>4 DEF SchedulerStep

(* A step of a process: the sleepers in wait. *)
LEMMA WaiterProc ==
  ASSUME ProcInv, NEW c \in CPUs, NEW p \in Slot, ProcessStep(c, p)
  PROVE  WaiterNoticed'
<1>0. TypeOK /\ WaiterNoticed /\ ForkInv /\ FamilyInv
  BY Zenon DEF ProcInv
<1>1. ASSUME ForkRet(c, p) PROVE WaiterNoticed'
  BY <1>0, <1>1, Consts DEF TypeOK, WaiterNoticed, Zombies, Children, ForkRet, At, Goto, table,
     sleeplock
<1>2. ASSUME Yielded(c, p) PROVE WaiterNoticed'
  BY <1>0, <1>2, Consts DEF TypeOK, WaiterNoticed, Zombies, Children, Yielded, At, Goto, table,
     sleeplock
<1>3. ASSUME NEW l \in Outside, Yield(c, p, l) PROVE WaiterNoticed'
  BY <1>0, <1>3, Consts DEF TypeOK, WaiterNoticed, Zombies, Children, Yield, At, Goto, table,
     sleeplock
<1>4. ASSUME ForkAlloc(c, p) PROVE WaiterNoticed'
  BY <1>0, <1>4, Consts DEF TypeOK, WaiterNoticed, Zombies, Children, ForkInv, ForkAlloc, At,
     Goto, Syscall, table, sleeplock
<1>5. ASSUME ForkFail(c, p) PROVE WaiterNoticed'
  BY <1>0, <1>5, Consts DEF TypeOK, WaiterNoticed, Zombies, Children, ForkInv, Forking, Where,
     ForkFail, At, Goto, table, sleeplock
<1>6. ASSUME ForkCopy(c, p) PROVE WaiterNoticed'
  BY <1>0, <1>6, Consts DEF TypeOK, WaiterNoticed, Zombies, Children, ForkInv, Forking, Where,
     ForkCopy, At, Goto, table, sleeplock
<1>7. ASSUME ForkDone(c, p) PROVE WaiterNoticed'
  BY <1>0, <1>7, Consts DEF TypeOK, WaiterNoticed, Zombies, Children, ForkInv, Forking, Where,
     ForkDone, At, Goto, table, sleeplock
<1>8. ASSUME ExitCall(c, p) PROVE WaiterNoticed'
  BY <1>0, <1>8, Consts DEF TypeOK, WaiterNoticed, Zombies, Children, ExitCall, At, Goto, table,
     sleeplock
<1>9. ASSUME Exit(c, p) PROVE WaiterNoticed'
  <2> DEFINE inits == IF Zombies(p) = {} THEN {} ELSE {initproc}
  <2>1. /\ state[p] = "RUNNING" /\ chan' = chan /\ killed' = killed
        /\ state' = [Wakeup1(state, {parent[p]} \cup inits) EXCEPT ![p] = "ZOMBIE"]
        /\ parent' = [i \in Slot |-> IF parent[i] = p THEN initproc ELSE parent[i]]
    BY <1>9 DEF Exit, At
  <2> SUFFICES ASSUME NEW q \in Slot, state'[q] = "SLEEPING", chan'[q] = q
               PROVE  Zombies(q)' = {} /\ ~killed'[q] /\ Children(q)' # {}
    BY Zenon DEF WaiterNoticed
  <2>2. /\ \A i \in Slot : state'[i] = "ZOMBIE" => i = p \/ state[i] = "ZOMBIE"
        /\ q # p /\ state[q] = "SLEEPING" /\ q # parent[p] /\ q \notin inits
    BY Zenon, <1>0, <2>1 DEF TypeOK, Wakeup1
  <2>3. Zombies(q) = {} /\ ~killed[q] /\ Children(q) # {}
    BY Zenon, <1>0, <2>1, <2>2 DEF WaiterNoticed
  <2>4. Zombies(q)' = {}
    BY <1>0, <2>1, <2>2, <2>3, Consts DEF Zombies, Children, FamilyInv, TypeOK
  <2>5. Children(q)' # {}
    BY Zenon, <2>1, <2>2, <2>3 DEF Children
  <2> QED
    BY Zenon, <2>1, <2>3, <2>4, <2>5
<1>10. ASSUME WaitCall(c, p) PROVE WaiterNoticed'
  BY <1>0, <1>10, Consts DEF TypeOK, WaiterNoticed, Zombies, Children, WaitCall, At, Goto,
     Syscall, table, sleeplock
<1>11. ASSUME WaitReap(c, p) PROVE WaiterNoticed'
  BY <1>0, <1>11, Consts DEF TypeOK, WaiterNoticed, Zombies, Children, WaitReap, At, Goto, table,
     sleeplock
<1>12. ASSUME WaitNone(c, p) PROVE WaiterNoticed'
  BY <1>0, <1>12, Consts DEF TypeOK, WaiterNoticed, Zombies, Children, WaitNone, At, Goto, table,
     sleeplock
<1>13. ASSUME WaitSleep(c, p) PROVE WaiterNoticed'
  BY <1>0, <1>13, Consts DEF TypeOK, WaiterNoticed, Zombies, Children, WaitSleep, At, Goto,
     table, sleeplock
<1>14. ASSUME WaitWoken(c, p) PROVE WaiterNoticed'
  BY <1>0, <1>14, Consts DEF TypeOK, WaiterNoticed, Zombies, Children, WaitWoken, At, Goto,
     table, sleeplock
<1>15. ASSUME NEW v \in Victims, Kill(c, p, v) PROVE WaiterNoticed'
  BY <1>0, <1>15, Consts DEF TypeOK, WaiterNoticed, Zombies, Children, Kill, At, Goto, Syscall,
     table, sleeplock
<1>16. ASSUME AcquireSleep(c, p) PROVE WaiterNoticed'
  BY <1>0, <1>16, Consts DEF TypeOK, WaiterNoticed, Zombies, Children, AcquireSleep, At, Goto,
     Syscall, table, sleeplock
<1>17. ASSUME SleepLockTaken(c, p) PROVE WaiterNoticed'
  BY <1>0, <1>17, Consts DEF TypeOK, WaiterNoticed, Zombies, Children, SleepLockTaken, At, Goto,
     table, sleeplock
<1>18. ASSUME SleepCall(c, p) PROVE WaiterNoticed'
  BY <1>0, <1>18, Consts DEF TypeOK, WaiterNoticed, Zombies, Children, SleepCall, At, Goto,
     table, sleeplock
<1>19. ASSUME Sleep(c, p) PROVE WaiterNoticed'
  BY <1>0, <1>19, Consts DEF TypeOK, WaiterNoticed, Zombies, Children, PcOK, Sleep, At, Goto,
     table, sleeplock
<1>20. ASSUME SleepWoken(c, p) PROVE WaiterNoticed'
  BY <1>0, <1>20, Consts DEF TypeOK, WaiterNoticed, Zombies, Children, SleepWoken, At, Goto,
     table, sleeplock
<1>21. ASSUME ReleaseSleep(c, p) PROVE WaiterNoticed'
  BY <1>0, <1>21, Consts DEF TypeOK, WaiterNoticed, Zombies, Children, ReleaseSleep, At, Goto,
     table, sleeplock
<1>22. ASSUME Wakeup(c, p) PROVE WaiterNoticed'
  BY <1>0, <1>22, Consts DEF TypeOK, WaiterNoticed, Zombies, Children, Wakeup, At, Goto, Wakeup1,
     table, sleeplock
<1> QED
  BY Zenon, <1>1, <1>2, <1>3, <1>4, <1>5, <1>6, <1>7, <1>8, <1>9, <1>10, <1>11, <1>12, <1>13,
     <1>14, <1>15, <1>16, <1>17, <1>18, <1>19, <1>20, <1>21, <1>22 DEF ProcessStep, Outside

(* A step that lets nobody hold or await the sleep-lock, and forgets no     *)
(* wakeup.                                                                  *)
LEMMA SleepKept ==
  ASSUME SleepInv, locked' = locked,
         \A q \in Slot : /\ Where(q)' = "held" => Where(q) = "held"
                         /\ Awaits(q)' => Awaits(q)
                         /\ pc[q] = "wakeup" => pc'[q] = "wakeup"
  PROVE  SleepInv'
  BY Zenon DEF SleepInv

(* A step of the scheduler: the sleep-lock, its holder and its sleepers. *)
LEMMA SleepSched ==
  ASSUME ProcInv, NEW c \in CPUs, SchedulerStep(c)
  PROVE  SleepInv'
<1>0. TypeOK /\ PcOK /\ CpuInv /\ LockInv /\ StateInv /\ ForkInv /\ SleepInv
  BY Zenon DEF ProcInv
<1>1. ASSUME SchedAcquire(c) PROVE SleepInv'
  BY Zenon, <1>0, <1>1 DEF SleepInv, Where, Awaits, SchedAcquire, table, sleeplock
<1>2. ASSUME SchedRun(c) PROVE SleepInv'
  BY <1>0, <1>2, Consts DEF TypeOK, PcOK, SleepInv, Where, Awaits, SchedRun, Runnable, table,
     sleeplock
<1>3. ASSUME SchedRelease(c) PROVE SleepInv'
  BY <1>0, <1>3, Consts DEF TypeOK, PcOK, SleepInv, Where, Awaits, SchedRelease, table, sleeplock
<1>4. ASSUME Sched(c) PROVE SleepInv'
  BY <1>0, <1>4, Consts DEF TypeOK, PcOK, SleepInv, Where, Awaits, Sched, table, sleeplock
<1> QED
  BY Zenon, <1>1, <1>2, <1>3, <1>4 DEF SchedulerStep

(* A step of a process: the sleep-lock, its holder and its sleepers. *)
LEMMA SleepProc ==
  ASSUME ProcInv, NEW c \in CPUs, NEW p \in Slot, ProcessStep(c, p)
  PROVE  SleepInv'
<1>0. TypeOK /\ PcOK /\ CpuInv /\ LockInv /\ StateInv /\ ForkInv /\ SleepInv
  BY Zenon DEF ProcInv
<1>1. ASSUME ForkRet(c, p) PROVE SleepInv'
  BY <1>0, <1>1, Consts DEF TypeOK, PcOK, SleepInv, Where, Awaits, ForkRet, At, Goto, table,
     sleeplock
<1>2. ASSUME Yielded(c, p) PROVE SleepInv'
  BY <1>0, <1>2, Consts DEF TypeOK, PcOK, SleepInv, Where, Awaits, Outside, Yielded, At, Goto,
     table, sleeplock
<1>3. ASSUME NEW l \in Outside, Yield(c, p, l) PROVE SleepInv'
  BY <1>0, <1>3, Consts DEF TypeOK, PcOK, SleepInv, Where, Awaits, Yield, At, Goto, table, sleeplock
<1>4. ASSUME ForkAlloc(c, p) PROVE SleepInv'
  <2>1. PICK i \in Slot : /\ state[i] = "UNUSED" /\ state' = [state EXCEPT ![i] = "EMBRYO"]
                         /\ pc' = [pc EXCEPT ![p] = "fork_alloc", ![i] = "newborn"]
    BY Zenon, <1>4 DEF ForkAlloc
  <2>2. pc[p] = "user" /\ UNCHANGED <<chan, back, locked>>
    BY Zenon, <1>4 DEF ForkAlloc, Syscall, At, sleeplock
  <2>3. ASSUME NEW q \in Slot
        PROVE  /\ Where(q)' = "held" => Where(q) = "held"
               /\ Awaits(q)' => Awaits(q)
               /\ pc[q] = "wakeup" => pc'[q] = "wakeup"
    <3>1. /\ pc'[q] = IF q = i THEN "newborn" ELSE IF q = p THEN "fork_alloc" ELSE pc[q]
          /\ state'[q] = IF q = i THEN "EMBRYO" ELSE state[q]
          /\ pc[i] \in {"newborn", "zombie"}
      BY Zenon, <1>0, <2>1 DEF TypeOK, PcOK, StateInv
    <3> QED
      BY <2>2, <3>1 DEF Where, Awaits
  <2> QED
    BY Zenon, <1>0, <2>2, <2>3, SleepKept
<1>5. ASSUME ForkFail(c, p) PROVE SleepInv'
  BY <1>0, <1>5, Consts DEF TypeOK, PcOK, SleepInv, Where, Awaits, ForkInv, Forking, ForkFail,
     At, Goto, table, sleeplock
<1>6. ASSUME ForkCopy(c, p) PROVE SleepInv'
  BY <1>0, <1>6, Consts DEF TypeOK, PcOK, SleepInv, Where, Awaits, ForkCopy, At, Goto, table,
     sleeplock
<1>7. ASSUME ForkDone(c, p) PROVE SleepInv'
  BY <1>0, <1>7, Consts DEF TypeOK, PcOK, SleepInv, Where, Awaits, ForkInv, Forking, ForkDone,
     At, Goto, table, sleeplock
<1>8. ASSUME ExitCall(c, p) PROVE SleepInv'
  BY <1>0, <1>8, Consts DEF TypeOK, PcOK, SleepInv, Where, Awaits, ExitCall, At, Goto, table,
     sleeplock
<1>9. ASSUME Exit(c, p) PROVE SleepInv'
  BY ZenonT(60), <1>0, <1>9, Consts DEF TypeOK, PcOK, SleepInv, Where, Awaits, Exit, At, Goto,
     Wakeup1, table, sleeplock
<1>10. ASSUME WaitCall(c, p) PROVE SleepInv'
  BY <1>0, <1>10, Consts DEF TypeOK, PcOK, SleepInv, Where, Awaits, WaitCall, At, Goto, Syscall,
     table, sleeplock
<1>11. ASSUME WaitReap(c, p) PROVE SleepInv'
  BY <1>0, <1>11, Consts DEF TypeOK, PcOK, SleepInv, Where, Awaits, WaitReap, At, Goto, Zombies,
     Children, table, sleeplock
<1>12. ASSUME WaitNone(c, p) PROVE SleepInv'
  BY <1>0, <1>12, Consts DEF TypeOK, PcOK, SleepInv, Where, Awaits, WaitNone, At, Goto, table,
     sleeplock
<1>13. ASSUME WaitSleep(c, p) PROVE SleepInv'
  BY <1>0, <1>13, Consts DEF TypeOK, PcOK, SleepInv, Where, Awaits, WaitSleep, At, Goto, table,
     sleeplock
<1>14. ASSUME WaitWoken(c, p) PROVE SleepInv'
  BY <1>0, <1>14, Consts DEF TypeOK, PcOK, SleepInv, Where, Awaits, WaitWoken, At, Goto, table,
     sleeplock
<1>15. ASSUME NEW v \in Victims, Kill(c, p, v) PROVE SleepInv'
  BY <1>0, <1>15, Consts DEF TypeOK, PcOK, SleepInv, Where, Awaits, Kill, At, Goto, Syscall,
     table, sleeplock
<1>16. ASSUME AcquireSleep(c, p) PROVE SleepInv'
  BY <1>0, <1>16, Consts DEF TypeOK, PcOK, SleepInv, Where, Awaits, AcquireSleep, At, Goto,
     Syscall, table, sleeplock
<1>17. ASSUME SleepLockTaken(c, p) PROVE SleepInv'
  BY <1>0, <1>17, Consts DEF TypeOK, PcOK, SleepInv, Where, Awaits, SleepLockTaken, At, Goto,
     table, sleeplock
<1>18. ASSUME SleepCall(c, p) PROVE SleepInv'
  BY <1>0, <1>18, Consts DEF TypeOK, PcOK, SleepInv, Where, Awaits, StateInv, SleepCall, At,
     Goto, table, sleeplock
<1>19. ASSUME Sleep(c, p) PROVE SleepInv'
  BY <1>0, <1>19, Consts DEF TypeOK, PcOK, SleepInv, Where, Awaits, Sleep, At, Goto, table,
     sleeplock
<1>20. ASSUME SleepWoken(c, p) PROVE SleepInv'
  BY <1>0, <1>20, Consts DEF TypeOK, PcOK, SleepInv, Where, Awaits, SleepWoken, At, Goto, table,
     sleeplock
<1>21. ASSUME ReleaseSleep(c, p) PROVE SleepInv'
  BY <1>0, <1>21, Consts DEF TypeOK, PcOK, SleepInv, Where, Awaits, ReleaseSleep, At, Goto,
     table, sleeplock
<1>22. ASSUME Wakeup(c, p) PROVE SleepInv'
  <2>1. /\ pc[p] = "wakeup" /\ lock = Free /\ pc' = [pc EXCEPT ![p] = "user"]
        /\ state' = [i \in Slot |-> IF state[i] = "SLEEPING" /\ chan[i] \in {SleepLock} THEN "RUNNABLE"
                                   ELSE state[i]]
        /\ UNCHANGED <<chan, back, locked>>
    BY Zenon, <1>22 DEF Wakeup, At, Goto, Wakeup1
  <2>2. ASSUME NEW q \in Slot, pc[q] = "sleep" PROVE FALSE
    <3>1. state[q] = "RUNNING"
      BY Zenon, <1>0, <2>2 DEF TypeOK, StateInv
    <3>2. PICK d \in CPUs : ctx[d] = q
      BY Zenon, <1>0, <3>1 DEF CpuInv
    <3>3. HoldsTable(d)
      BY Zenon, <2>2, <3>2, Consts DEF HoldsTable, Inside
    <3> QED
      BY Zenon, <1>0, <2>1, <3>3, Consts DEF LockInv
  <2>3. ASSUME NEW q \in Slot PROVE (Where(q)' = "held" => Where(q) = "held") /\ ~Awaits(q)'
    <3>1. /\ pc'[q] = IF q = p THEN "user" ELSE pc[q]
          /\ state'[q] = IF state[q] = "SLEEPING" /\ chan[q] = SleepLock THEN "RUNNABLE" ELSE state[q]
          /\ pc[q] # "sleep"
      BY Zenon, <1>0, <2>1, <2>2 DEF PcOK
    <3> QED
      BY <2>1, <3>1 DEF Where, Awaits
  <2> QED
    BY Zenon, <1>0, <2>1, <2>3 DEF SleepInv
<1> QED
  BY Zenon, <1>1, <1>2, <1>3, <1>4, <1>5, <1>6, <1>7, <1>8, <1>9, <1>10, <1>11, <1>12, <1>13,
     <1>14, <1>15, <1>16, <1>17, <1>18, <1>19, <1>20, <1>21, <1>22 DEF ProcessStep, Outside

(* userinit leaves the table in the invariant. *)
LEMMA InitInv == Init => ProcInv
<1> SUFFICES ASSUME Init PROVE ProcInv
  OBVIOUS
<1>1. TypeOK /\ PcOK
  BY Zenon, Consts, NextSlot, ProcAssumption DEF Init, TypeOK, PcOK, Outside, Inside
<1>2. CpuInv /\ LockInv
  BY Zenon, Consts DEF Init, CpuInv, LockInv, HoldsTable, HoldsSleep
<1>3. StateInv /\ ForkInv
  BY Zenon, Consts DEF Init, StateInv, ForkInv, Where, Forking
<1>4. FamilyInv
  BY Zenon, Consts DEF Init, FamilyInv, HasParent, Where
<1>5. PidInv
  BY DEF Init, PidInv, UniquePids
<1>6. WaiterNoticed /\ SleepInv
  BY Zenon, Consts DEF Init, WaiterNoticed, SleepInv, Where, Awaits
<1> QED
  BY <1>1, <1>2, <1>3, <1>4, <1>5, <1>6 DEF ProcInv

(* A step of any CPU, in its scheduler or in a process, keeps it. *)
LEMMA StepInv == ProcInv /\ [Next]_vars => ProcInv'
<1> SUFFICES ASSUME ProcInv, [Next]_vars PROVE ProcInv'
  OBVIOUS
<1>1. ASSUME NEW c \in CPUs, SchedulerStep(c) PROVE ProcInv'
  BY <1>1, TypesSched, CpuSched, LockSched, StateSched, ForkSched, FamilySched, PidSched,
     WaiterSched, SleepSched
  DEF ProcInv
<1>2. ASSUME NEW c \in CPUs, NEW p \in Slot, ProcessStep(c, p) PROVE ProcInv'
  BY Zenon, <1>2, TypesProc, CpuProc, LockProc, StateProc, ForkProc, FamilyProc, PidProc, WaiterProc,
     SleepProc
  DEF ProcInv
<1>3. ASSUME UNCHANGED vars PROVE ProcInv'
  <2>0. /\ ProcInv /\ UNCHANGED <<state, pid, parent, killed, chan, nextpid>>
        /\ UNCHANGED <<lock, ctx, next, pc, back, np, lk, locked>>
    BY Zenon, <1>3 DEF vars, table, sleeplock
  <2>1. TypeOK' /\ PcOK'
    BY Zenon, <2>0 DEF ProcInv, TypeOK, PcOK
  <2>2. CpuInv' /\ LockInv'
    BY Zenon, <2>0 DEF ProcInv, CpuInv, LockInv, HoldsTable, HoldsSleep
  <2>3. StateInv'
    BY Zenon, <2>0 DEF ProcInv, StateInv
  <2>7. ForkInv'
    BY Zenon, <2>0 DEF ProcInv, ForkInv, Where
  <2>4. FamilyInv' /\ PidInv'
    BY Zenon, <2>0 DEF ProcInv, FamilyInv, HasParent, Where, PidInv, UniquePids
  <2>5. WaiterNoticed' /\ SleepInv'
    BY Zenon, <2>0 DEF ProcInv, WaiterNoticed, Zombies, Children, SleepInv, Where, Awaits
  <2> QED
    BY Zenon, <2>1, <2>2, <2>3, <2>4, <2>5, <2>7 DEF ProcInv
<1> QED
  BY Zenon, <1>1, <1>2, <1>3 DEF Next

(* scheduler, sched, fork, exit, wait, kill, sleep and wakeup (proc.c) and  *)
(* acquiresleep (sleeplock.c): the inductive invariant holds however the    *)
(* CPUs interleave, for any size of the table.                              *)
THEOREM ProcInvariance == Spec => []ProcInv
<1> QED
  BY InitInv, StepInv, PTL DEF Spec

(* sched and scheduler (proc.c): no two CPUs on one stack, none on a freed  *)
(* one, sched never panics, and pids are unique.                            *)
THEOREM TableIsSound == Spec => []SchedSound
<1>1. ProcInv => SchedSound
  <2> SUFFICES ASSUME ProcInv PROVE SchedSound
    OBVIOUS
  <2>1. OneStack
    BY Zenon DEF ProcInv, CpuInv, OneStack
  <2>2. SchedHolds
    BY Zenon DEF ProcInv, LockInv, HoldsTable, HoldsSleep, SchedHolds
  <2> QED
    BY Zenon, <2>1, <2>2 DEF ProcInv, PidInv, SchedSound
<1> QED
  BY <1>1, ProcInvariance, PTL

(* fork and exit (proc.c): every process has a parent that can wait for it, *)
(* although fork writes np->parent without ptable.lock.                     *)
THEOREM NobodyIsOrphaned == Spec => []HasParent
<1>1. ProcInv => HasParent
  BY Zenon DEF ProcInv, FamilyInv
<1> QED
  BY <1>1, ProcInvariance, PTL

(* sleep, wakeup, wait, exit and kill (proc.c), acquiresleep and            *)
(* releasesleep (sleeplock.c): nobody sleeps past what it waits for.        *)
THEOREM NoWakeupIsLost == Spec => []WakeupsArrive
<1>1. ProcInv => WakeupsArrive
  BY DEF ProcInv, SleepInv, Awaits, WakeupsArrive, NoMissedWakeup
<1> QED
  BY <1>1, ProcInvariance, PTL

(* acquiresleep and releasesleep (sleeplock.c): one holder, across yields. *)
THEOREM SleepLocksExclude == Spec => []SleepLockMutex
<1>1. ProcInv => SleepLockMutex
  BY DEF ProcInv, SleepInv, Where, SleepLockMutex
<1> QED
  BY <1>1, ProcInvariance, PTL
=============================================================================
