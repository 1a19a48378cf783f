-------------------------------- MODULE Proc --------------------------------
(***************************************************************************)
(* Processes and the scheduler (proc.c): fork, exit, wait, kill, yield,    *)
(* sleep and wakeup on several CPUs.                                       *)
(*                                                                         *)
(* A CPU executes on the stack of its scheduler or on that of a process    *)
(* (ctx).  ptable.lock is held across swtch: taken by the process, it is   *)
(* released by the scheduler, or by the process that runs next.  What is   *)
(* done with ptable.lock held is one step up to the swtch.                 *)
(*                                                                         *)
(* Processes also contend for a sleep-lock (sleeplock.c), the lock of an   *)
(* inode or a buffer: a spinlock lk protects the flag locked, and those    *)
(* who find it set sleep on the sleep-lock's address.                      *)
(***************************************************************************)
EXTENDS Integers

CONSTANTS
  NPROC,    \* slots of ptable
  CPUs,
  MAXPID,   \* bound on the processes created
  Victims,  \* the arguments of kill
  Free      \* a lock that nobody holds

ASSUME ProcAssumption ==
  NPROC \in Nat \ {0} /\ MAXPID \in Nat /\ Victims \subseteq Nat /\ Free \notin CPUs

Slot == 1 .. NPROC
None == 0
SleepLock == NPROC + 1   \* the address of the sleep-lock
initproc == 1
Scheduler == 0

VARIABLES
  state, pid, parent, killed, chan,   \* struct proc
  nextpid,
  lock,     \* ptable.lock: the CPU that holds it, or Free
  ctx,      \* the process on whose stack each CPU executes, or Scheduler
  next,     \* where the scheduler of each CPU is in its loop; 0: outside
  pc,       \* where each process is in the kernel
  back,     \* where yield returns to
  np,       \* the process that fork is creating
  lk, locked   \* struct sleeplock

table == <<state, pid, parent, killed, chan, nextpid>>
sleeplock == <<lk, locked>>
vars == <<table, lock, ctx, next, pc, back, np, sleeplock>>

(* After userinit: init is about to run for the first time. *)
Init ==
  /\ state = [i \in Slot |-> IF i = initproc THEN "RUNNABLE" ELSE "UNUSED"]
  /\ pid = [i \in Slot |-> IF i = initproc THEN 1 ELSE 0]
  /\ parent = [i \in Slot |-> None]
  /\ killed = [i \in Slot |-> FALSE]
  /\ chan = [i \in Slot |-> None]
  /\ nextpid = 2
  /\ lock = Free
  /\ ctx = [c \in CPUs |-> Scheduler]
  /\ next = [c \in CPUs |-> 0]
  /\ pc = [i \in Slot |-> "newborn"]
  /\ back = [i \in Slot |-> "user"]
  /\ np = [i \in Slot |-> None]
  /\ lk = Free
  /\ locked = FALSE

-----------------------------------------------------------------------------
(* scheduler *)
Runnable(c) == {i \in Slot : i >= next[c] /\ state[i] = "RUNNABLE"}

SchedAcquire(c) ==
  /\ ctx[c] = Scheduler
  /\ next[c] = 0
  /\ lock = Free
  /\ lock' = c
  /\ next' = [next EXCEPT ![c] = 1]
  /\ UNCHANGED <<table, ctx, pc, back, np, sleeplock>>

SchedRun(c) ==
  /\ ctx[c] = Scheduler
  /\ next[c] # 0
  /\ \E i \in Runnable(c) :
       /\ \A j \in Runnable(c) : i <= j
       /\ state' = [state EXCEPT ![i] = "RUNNING"]
       /\ ctx' = [ctx EXCEPT ![c] = i]
       /\ next' = [next EXCEPT ![c] = i + 1]
  /\ UNCHANGED <<pid, parent, killed, chan, nextpid, lock, pc, back, np, sleeplock>>

SchedRelease(c) ==
  /\ ctx[c] = Scheduler
  /\ next[c] # 0
  /\ Runnable(c) = {}
  /\ lock' = Free
  /\ next' = [next EXCEPT ![c] = 0]
  /\ UNCHANGED <<table, ctx, pc, back, np, sleeplock>>

(* sched: the process on c has given up RUNNING and switches to the scheduler. *)
Sched(c) ==
  /\ ctx[c] # Scheduler
  /\ state[ctx[c]] # "RUNNING"
  /\ ctx' = [ctx EXCEPT ![c] = Scheduler]
  /\ UNCHANGED <<table, lock, next, pc, back, np, sleeplock>>

-----------------------------------------------------------------------------
(* p executes on c, at l. *)
At(c, p, l) == ctx[c] = p /\ state[p] = "RUNNING" /\ pc[p] = l

Goto(p, l) == pc' = [pc EXCEPT ![p] = l]

(* A system call: trap() sends a killed process to exit first. *)
Syscall(c, p) == At(c, p, "user") /\ ~killed[p]

(* The states after wakeup1(ch), for each ch of chans. *)
Wakeup1(s, chans) ==
  [i \in Slot |-> IF s[i] = "SLEEPING" /\ chan[i] \in chans THEN "RUNNABLE" ELSE s[i]]

ForkRet(c, p) ==
  /\ At(c, p, "newborn")
  /\ lock' = Free
  /\ Goto(p, "user")
  /\ UNCHANGED <<table, ctx, next, back, np, sleeplock>>

(* yield, from the timer interrupt: wherever p holds no spinlock *)
Yield(c, p, l) ==
  /\ At(c, p, l)
  /\ l \in {"user", "fork_alloc", "fork_copied", "exit", "retry", "held"}
  /\ lock = Free
  /\ lock' = c
  /\ state' = [state EXCEPT ![p] = "RUNNABLE"]
  /\ back' = [back EXCEPT ![p] = l]
  /\ Goto(p, "yielded")
  /\ UNCHANGED <<pid, parent, killed, chan, nextpid, ctx, next, np, sleeplock>>

Yielded(c, p) ==
  /\ At(c, p, "yielded")
  /\ lock' = Free
  /\ Goto(p, back[p])
  /\ UNCHANGED <<table, ctx, next, back, np, sleeplock>>

(* fork: allocproc takes the first unused slot, *)
ForkAlloc(c, p) ==
  /\ Syscall(c, p)
  /\ lock = Free
  /\ nextpid <= MAXPID
  /\ \E i \in Slot :
       /\ state[i] = "UNUSED" /\ \A j \in 1 .. (i - 1) : state[j] # "UNUSED"
       /\ state' = [state EXCEPT ![i] = "EMBRYO"]
       /\ pid' = [pid EXCEPT ![i] = nextpid]
       /\ np' = [np EXCEPT ![p] = i]
       /\ pc' = [pc EXCEPT ![p] = "fork_alloc", ![i] = "newborn"]
  /\ nextpid' = nextpid + 1
  /\ UNCHANGED <<parent, killed, chan, lock, ctx, next, back, sleeplock>>

(* kalloc or copyuvm fails; the slot is given back without the lock, *)
ForkFail(c, p) ==
  /\ At(c, p, "fork_alloc")
  /\ state' = [state EXCEPT ![np[p]] = "UNUSED"]
  /\ np' = [np EXCEPT ![p] = None]
  /\ Goto(p, "user")
  /\ UNCHANGED <<pid, parent, killed, chan, nextpid, lock, ctx, next, back, sleeplock>>

(* the parent, files and name are copied, without the lock, *)
ForkCopy(c, p) ==
  /\ At(c, p, "fork_alloc")
  /\ parent' = [parent EXCEPT ![np[p]] = p]
  /\ Goto(p, "fork_copied")
  /\ UNCHANGED <<state, pid, killed, chan, nextpid, lock, ctx, next, back, np, sleeplock>>

(* and the child may run. *)
ForkDone(c, p) ==
  /\ At(c, p, "fork_copied")
  /\ lock = Free
  /\ state' = [state EXCEPT ![np[p]] = "RUNNABLE"]
  /\ np' = [np EXCEPT ![p] = None]
  /\ Goto(p, "user")
  /\ UNCHANGED <<pid, parent, killed, chan, nextpid, lock, ctx, next, back, sleeplock>>

(* exit, called by the process or for it when it is killed; init panics. *)
ExitCall(c, p) ==
  /\ At(c, p, "user")
  /\ Goto(p, IF p = initproc THEN "panic" ELSE "exit")
  /\ UNCHANGED <<table, lock, ctx, next, back, np, sleeplock>>

Children(p) == {i \in Slot : parent[i] = p}
Zombies(p) == {i \in Children(p) : state[i] = "ZOMBIE"}

ExitUnlocked(c, p) ==
  /\ At(c, p, "exit")
  /\ lock = Free
  /\ UNCHANGED lock
  /\ LET inits == IF Zombies(p) = {} THEN {} ELSE {initproc} IN
     state' = [Wakeup1(state, {parent[p]} \cup inits) EXCEPT ![p] = "ZOMBIE"]
  /\ parent' = [i \in Slot |-> IF parent[i] = p THEN initproc ELSE parent[i]]
  /\ Goto(p, "zombie")
  /\ UNCHANGED <<pid, killed, chan, nextpid, ctx, next, back, np, sleeplock>>

ExitOrphans(c, p) ==
  /\ At(c, p, "exit")
  /\ lock = Free
  /\ lock' = c
  /\ LET inits == IF Zombies(p) = {} THEN {} ELSE {initproc} IN
     state' = [Wakeup1(state, {parent[p]} \cup inits) EXCEPT ![p] = "ZOMBIE"]
  /\ UNCHANGED parent
  /\ Goto(p, "zombie")
  /\ UNCHANGED <<pid, killed, chan, nextpid, ctx, next, back, np, sleeplock>>

Exit(c, p) ==
  /\ At(c, p, "exit")
  /\ lock = Free
  /\ lock' = c
  /\ LET inits == IF Zombies(p) = {} THEN {} ELSE {initproc} IN
     state' = [Wakeup1(state, {parent[p]} \cup inits) EXCEPT ![p] = "ZOMBIE"]
  /\ parent' = [i \in Slot |-> IF parent[i] = p THEN initproc ELSE parent[i]]
  /\ Goto(p, "zombie")
  /\ UNCHANGED <<pid, killed, chan, nextpid, ctx, next, back, np, sleeplock>>

(* wait *)
WaitCall(c, p) ==
  /\ Syscall(c, p)
  /\ lock = Free
  /\ lock' = c
  /\ Goto(p, "wait")
  /\ UNCHANGED <<table, ctx, next, back, np, sleeplock>>

WaitReap(c, p) ==
  /\ At(c, p, "wait")
  /\ \E i \in Zombies(p) :
       /\ \A j \in Zombies(p) : i <= j
       /\ pid' = [pid EXCEPT ![i] = 0]
       /\ parent' = [parent EXCEPT ![i] = None]
       /\ killed' = [killed EXCEPT ![i] = FALSE]
       /\ state' = [state EXCEPT ![i] = "UNUSED"]
  /\ lock' = Free
  /\ Goto(p, "user")
  /\ UNCHANGED <<chan, nextpid, ctx, next, back, np, sleeplock>>

WaitNone(c, p) ==
  /\ At(c, p, "wait")
  /\ Zombies(p) = {}
  /\ Children(p) = {} \/ killed[p]
  /\ lock' = Free
  /\ Goto(p, "user")
  /\ UNCHANGED <<table, ctx, next, back, np, sleeplock>>

WaitSleep(c, p) ==
  /\ At(c, p, "wait")
  /\ Zombies(p) = {}
  /\ Children(p) # {} /\ ~killed[p]
  /\ chan' = [chan EXCEPT ![p] = p]
  /\ state' = [state EXCEPT ![p] = "SLEEPING"]
  /\ Goto(p, "wait_woken")
  /\ UNCHANGED <<pid, parent, killed, nextpid, lock, ctx, next, back, np, sleeplock>>

WaitWoken(c, p) ==
  /\ At(c, p, "wait_woken")
  /\ chan' = [chan EXCEPT ![p] = None]
  /\ Goto(p, "wait")
  /\ UNCHANGED <<state, pid, parent, killed, nextpid, lock, ctx, next, back, np, sleeplock>>

KillQuiet(c, p, v) ==
  /\ Syscall(c, p)
  /\ lock = Free
  /\ \E i \in Slot :
       /\ pid[i] = v /\ \A j \in 1 .. (i - 1) : pid[j] # v
       /\ killed' = [killed EXCEPT ![i] = TRUE]
  /\ UNCHANGED <<state, pid, parent, chan, nextpid, lock, ctx, next, pc, back, np, sleeplock>>

(* kill: the first slot with the pid, whatever its state *)
Kill(c, p, v) ==
  /\ Syscall(c, p)
  /\ lock = Free
  /\ \E i \in Slot :
       /\ pid[i] = v /\ \A j \in 1 .. (i - 1) : pid[j] # v
       /\ killed' = [killed EXCEPT ![i] = TRUE]
       /\ state' = [state EXCEPT ![i] = IF @ = "SLEEPING" THEN "RUNNABLE" ELSE @]
  /\ UNCHANGED <<pid, parent, chan, nextpid, lock, ctx, next, pc, back, np, sleeplock>>

-----------------------------------------------------------------------------
AcquireSleepIf(c, p) ==
  /\ Syscall(c, p) \/ At(c, p, "retry")
  /\ lk = Free
  /\ lk' = IF pc[p] = "retry" THEN Free ELSE c
  /\ locked' = (locked \/ pc[p] = "retry")
  /\ Goto(p, IF pc[p] = "retry" THEN "held" ELSE "test")
  /\ UNCHANGED <<table, lock, ctx, next, back, np>>

(* acquiresleep: acquire(&lk->lk), while(lk->locked) sleep(lk, &lk->lk); *)
AcquireSleep(c, p) ==
  /\ Syscall(c, p) \/ At(c, p, "retry")
  /\ lk = Free
  /\ lk' = c
  /\ Goto(p, "test")
  /\ UNCHANGED <<table, lock, ctx, next, back, np, locked>>

SleepLockTaken(c, p) ==
  /\ At(c, p, "test")
  /\ ~locked
  /\ locked' = TRUE
  /\ lk' = Free
  /\ Goto(p, "held")
  /\ UNCHANGED <<table, lock, ctx, next, back, np>>

(* sleep: acquire(&ptable.lock), release(lk); *)
SleepCallUnlocked(c, p) ==
  /\ At(c, p, "test")
  /\ locked
  /\ lk' = Free
  /\ Goto(p, "sleep")
  /\ UNCHANGED <<table, lock, ctx, next, back, np, locked>>

SleepCall(c, p) ==
  /\ At(c, p, "test")
  /\ locked
  /\ lock = Free
  /\ lock' = c
  /\ lk' = Free
  /\ Goto(p, "sleep")
  /\ UNCHANGED <<table, ctx, next, back, np, locked>>

(* go to sleep; *)
Sleep(c, p) ==
  /\ At(c, p, "sleep")
  /\ chan' = [chan EXCEPT ![p] = SleepLock]
  /\ state' = [state EXCEPT ![p] = "SLEEPING"]
  /\ Goto(p, "woken")
  /\ UNCHANGED <<pid, parent, killed, nextpid, lock, ctx, next, back, np, sleeplock>>

(* tidy up; release(&ptable.lock), acquire(lk) again. *)
SleepWoken(c, p) ==
  /\ At(c, p, "woken")
  /\ chan' = [chan EXCEPT ![p] = None]
  /\ lock' = Free
  /\ Goto(p, "retry")
  /\ UNCHANGED <<state, pid, parent, killed, nextpid, ctx, next, back, np, sleeplock>>

(* releasesleep: acquire(&lk->lk), lk->locked = 0, wakeup(lk), release(&lk->lk). *)
ReleaseSleep(c, p) ==
  /\ At(c, p, "held")
  /\ lk = Free
  /\ lk' = c
  /\ locked' = FALSE
  /\ Goto(p, "wakeup")
  /\ UNCHANGED <<table, lock, ctx, next, back, np>>

Wakeup(c, p) ==
  /\ At(c, p, "wakeup")
  /\ lock = Free
  /\ state' = Wakeup1(state, {SleepLock})
  /\ lk' = Free
  /\ Goto(p, "user")
  /\ UNCHANGED <<pid, parent, killed, chan, nextpid, lock, ctx, next, back, np, locked>>

-----------------------------------------------------------------------------
SchedulerStep(c) == SchedAcquire(c) \/ SchedRun(c) \/ SchedRelease(c) \/ Sched(c)

ProcessStep(c, p) ==
  \/ ForkRet(c, p) \/ Yielded(c, p)
  \/ \E l \in {"user", "fork_alloc", "fork_copied", "exit", "retry", "held"} : Yield(c, p, l)
  \/ ForkAlloc(c, p) \/ ForkFail(c, p) \/ ForkCopy(c, p) \/ ForkDone(c, p)
  \/ ExitCall(c, p) \/ Exit(c, p)
  \/ WaitCall(c, p) \/ WaitReap(c, p) \/ WaitNone(c, p) \/ WaitSleep(c, p) \/ WaitWoken(c, p)
  \/ \E v \in Victims : Kill(c, p, v)
  \/ AcquireSleep(c, p) \/ SleepLockTaken(c, p)
  \/ SleepCall(c, p) \/ Sleep(c, p) \/ SleepWoken(c, p)
  \/ ReleaseSleep(c, p) \/ Wakeup(c, p)

Next == \E c \in CPUs : SchedulerStep(c) \/ \E p \in Slot : ProcessStep(c, p)

Spec == Init /\ [][Next]_vars

(* What CPU c does without being asked: all but the choices of user code. *)
Must(c) ==
  \/ SchedulerStep(c)
  \/ \E p \in Slot :
       \/ ForkRet(c, p) \/ Yielded(c, p)
       \/ ForkFail(c, p) \/ ForkCopy(c, p) \/ ForkDone(c, p)
       \/ killed[p] /\ ExitCall(c, p)
       \/ Exit(c, p)
       \/ WaitReap(c, p) \/ WaitNone(c, p) \/ WaitSleep(c, p) \/ WaitWoken(c, p)
       \/ pc[p] = "retry" /\ AcquireSleep(c, p)
       \/ SleepLockTaken(c, p) \/ SleepCall(c, p) \/ Sleep(c, p) \/ SleepWoken(c, p)
       \/ ReleaseSleep(c, p) \/ Wakeup(c, p)

(* A CPU goes on, a spinlock that is free again and again is acquired, and *)
(* the timer interrupts user code.                                         *)
Fairness ==
  \A c \in CPUs :
    /\ SF_vars(Must(c))
    /\ SF_vars(\E p \in Slot : Yield(c, p, "user"))

FairSpec == Spec /\ Fairness

-----------------------------------------------------------------------------
(* Types. *)
TypeOK ==
  /\ state \in [Slot -> {"UNUSED", "EMBRYO", "SLEEPING", "RUNNABLE", "RUNNING", "ZOMBIE"}]
  /\ pid \in [Slot -> Nat] /\ nextpid \in Nat
  /\ parent \in [Slot -> Slot \cup {None}]
  /\ killed \in [Slot -> BOOLEAN]
  /\ chan \in [Slot -> Slot \cup {None, SleepLock}]
  /\ lock \in CPUs \cup {Free} /\ lk \in CPUs \cup {Free} /\ locked \in BOOLEAN
  /\ ctx \in [CPUs -> Slot \cup {Scheduler}]
  /\ next \in [CPUs -> 0 .. (NPROC + 1)]
  /\ np \in [Slot -> Slot \cup {None}]

(* Two CPUs never execute on the stack of one process, and no CPU on a     *)
(* stack that wait has freed: ptable.lock is kept from the change of state *)
(* to the swtch (sched, exit, sleep).                                      *)
OneStack ==
  \A c \in CPUs : ctx[c] # Scheduler =>
    /\ state[ctx[c]] \notin {"UNUSED", "EMBRYO"}
    /\ \A d \in CPUs \ {c} : ctx[d] # ctx[c]

(* The checks of sched never panic: a CPU that gives up a process holds    *)
(* ptable.lock and no other lock, and gets back to a scheduler that still  *)
(* holds it in its loop.                                                   *)
SchedHolds ==
  \A c \in CPUs :
    /\ (ctx[c] # Scheduler /\ state[ctx[c]] # "RUNNING") => (lock = c /\ lk # c)
    /\ (ctx[c] = Scheduler /\ next[c] # 0) => lock = c

(* Two processes never have the same pid (allocproc, nextpid). *)
UniquePids ==
  \A i, j \in Slot :
    (i # j /\ state[i] # "UNUSED" /\ state[j] # "UNUSED") => pid[i] # pid[j]

(* Every process but init has a parent that has not exited, so that every  *)
(* zombie has somebody to wait for it: exit passes the children to init,   *)
(* and fork, which writes np->parent without the lock, is not overtaken.   *)
HasParent ==
  \A i \in Slot \ {initproc} :
    state[i] \notin {"UNUSED", "EMBRYO"} =>
      /\ parent[i] # None
      /\ state[parent[i]] \notin {"UNUSED", "EMBRYO", "ZOMBIE"}

(* Nobody sleeps in wait who has something to return for: a child that has *)
(* exited, its own or one it inherited, or a kill.                         *)
WaiterNoticed ==
  \A p \in Slot :
    (state[p] = "SLEEPING" /\ chan[p] = p) => Zombies(p) = {} /\ ~killed[p] /\ Children(p) # {}

(* sleep misses no wakeup: somebody sleeps for a sleep-lock that is free   *)
(* only while the wakeup of releasesleep is still to come.                 *)
NoMissedWakeup ==
  (~locked /\ \E p \in Slot : state[p] = "SLEEPING" /\ chan[p] = SleepLock)
    => \E q \in Slot : pc[q] = "wakeup"

(* One process at a time holds the sleep-lock, across yields. *)
SleepLockMutex ==
  \A p, q \in Slot :
    LET Holds(i) == pc[i] = "held" \/ (pc[i] = "yielded" /\ back[i] = "held") IN
    Holds(p) /\ Holds(q) => p = q

(* wait returns once a child has exited or its caller is killed: exit and  *)
(* kill wake it, and the scheduler gets round to it.                       *)
WaitReturns ==
  \A p \in Slot :
    (pc[p] \in {"wait", "wait_woken"} /\ (Zombies(p) # {} \/ killed[p])) ~> (pc[p] = "user")

(* The hand-over of ptable.lock by swtch keeps the table sound: types, one  *)
(* stack per CPU, what sched requires of its caller, one pid per process.   *)
SchedSound == TypeOK /\ OneStack /\ SchedHolds /\ UniquePids

(* Nobody sleeps past what it waits for, in wait or in acquiresleep.        *)
WakeupsArrive == WaiterNoticed /\ NoMissedWakeup
=============================================================================
