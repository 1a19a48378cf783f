------------------------------ MODULE SpinLock ------------------------------
(***************************************************************************)
(* Spinlocks and the disabling of interrupts (spinlock.c), with the two    *)
(* places that make them hard: an interrupt handler takes locks on the CPU *)
(* it interrupts (trap.c), and sched (proc.c) hands a held lock, with the  *)
(* CPU's count of pushcli calls, from one thread to another.               *)
(*                                                                         *)
(* The test and the store of a lock word are separate steps; what a CPU    *)
(* does to its own flags with interrupts off is one step.                  *)
(***************************************************************************)
EXTENDS Integers, FiniteSets

CONSTANTS
  CPU,      \* the processors
  Proc,     \* the processes, one kernel thread each
  Lock,     \* spinlocks, numbered in the order in which code nests them
  ptable,   \* the one of them that is held across swtch
  NoCPU

ASSUME SpinAssumption == Lock \subseteq Nat /\ IsFiniteSet(Lock) /\ ptable \in Lock /\ NoCPU \notin CPU
                         /\ Proc \cap CPU = {}

Thread == Proc \cup CPU   \* the scheduler of a CPU bears its name

VARIABLES
  locked, cpu,           \* struct spinlock: the word, and who holds it
  FL_IF, ncli, intena,   \* per CPU: the interrupt flag, and struct cpu
  on,                    \* the thread that runs on each CPU
  lpc,                   \* where each thread is in acquire or release
  lk,                    \* the lock of that call
  heldBy,                \* the locks a thread has acquired
  handler,               \* the thread is in an interrupt handler
  saved,                 \* the local intena of sched
  fresh                  \* the process has not been in user space yet

spinVars == <<locked, cpu, FL_IF, ncli, intena, on, lpc, lk, heldBy, handler, saved, fresh>>
lockVars == <<locked, cpu>>
cpuVars == <<FL_IF, ncli, intena>>
threadVars == <<on, heldBy, handler, saved, fresh>>

(* Each CPU enters its scheduler with interrupts off; the processes wait   *)
(* to be run for the first time.                                           *)
SpinInit ==
  /\ locked = [l \in Lock |-> FALSE] /\ cpu = [l \in Lock |-> NoCPU]
  /\ FL_IF = [c \in CPU |-> FALSE] /\ ncli = [c \in CPU |-> 0] /\ intena = [c \in CPU |-> FALSE]
  /\ on = [c \in CPU |-> c]
  /\ lpc = [t \in Thread |-> IF t \in CPU THEN "run" ELSE "parked"]
  /\ lk = [t \in Thread |-> ptable] /\ heldBy = [t \in Thread |-> {}]
  /\ handler = [t \in Thread |-> FALSE] /\ saved = [p \in Proc |-> FALSE]
  /\ fresh = [p \in Proc |-> TRUE]

SpinGoto(t, l) == lpc' = [lpc EXCEPT ![t] = l]
----------------------------------------------------------------------------
(* acquire: pushcli.  A scheduler calls sti before it takes ptable.lock. *)
Pushcli(c) ==
  /\ FL_IF' = [FL_IF EXCEPT ![c] = FALSE]
  /\ intena' = IF ncli[c] = 0 THEN [intena EXCEPT ![c] = FL_IF[c]] ELSE intena
  /\ ncli' = [ncli EXCEPT ![c] = @ + 1]

Acquire(c, l) ==
  /\ lpc[on[c]] = "run" /\ \A m \in heldBy[on[c]] : m < l
  /\ on[c] = c /\ ~handler[c] => l = ptable /\ FL_IF[c]
  /\ Pushcli(c)
  /\ SpinGoto(on[c], "holding") /\ lk' = [lk EXCEPT ![on[c]] = l]
  /\ UNCHANGED <<lockVars, threadVars>>

(* acquire: holding reads the word, then the owner. *)
AcquireHolding(c) ==
  /\ lpc[on[c]] = "holding"
  /\ SpinGoto(on[c], IF locked[lk[on[c]]] THEN "owner" ELSE "xchg")
  /\ UNCHANGED <<lockVars, cpuVars, lk, threadVars>>

AcquireOwner(c) ==
  /\ lpc[on[c]] = "owner"
  /\ SpinGoto(on[c], IF cpu[lk[on[c]]] = c THEN "panic" ELSE "xchg")
  /\ UNCHANGED <<lockVars, cpuVars, lk, threadVars>>

(* A slip: a store instead of xchg. *)
AcquireStore(c) ==
  /\ lpc[on[c]] = "xchg"
  /\ locked' = [locked EXCEPT ![lk[on[c]]] = TRUE]
  /\ heldBy' = [heldBy EXCEPT ![on[c]] = @ \cup {lk[on[c]]}]
  /\ SpinGoto(on[c], "record")
  /\ UNCHANGED <<cpu, cpuVars, lk, on, handler, saved, fresh>>

AcquireXchg(c) ==
  /\ lpc[on[c]] = "xchg" /\ ~locked[lk[on[c]]]
  /\ locked' = [locked EXCEPT ![lk[on[c]]] = TRUE]
  /\ heldBy' = [heldBy EXCEPT ![on[c]] = @ \cup {lk[on[c]]}]
  /\ SpinGoto(on[c], "record")
  /\ UNCHANGED <<cpu, cpuVars, lk, on, handler, saved, fresh>>

AcquireRecord(c) ==
  /\ lpc[on[c]] = "record"
  /\ cpu' = [cpu EXCEPT ![lk[on[c]]] = c] /\ SpinGoto(on[c], "run")
  /\ UNCHANGED <<locked, cpuVars, lk, threadVars>>
----------------------------------------------------------------------------
(* release: holding must be true; the owner is cleared, then the word. *)
Release(c, l) ==
  /\ lpc[on[c]] = "run" /\ l \in heldBy[on[c]]
  /\ lk' = [lk EXCEPT ![on[c]] = l]
  /\ IF locked[l] /\ cpu[l] = c
     THEN cpu' = [cpu EXCEPT ![l] = NoCPU] /\ SpinGoto(on[c], "unlock")
     ELSE SpinGoto(on[c], "panic") /\ UNCHANGED cpu
  /\ UNCHANGED <<locked, cpuVars, threadVars>>

ReleaseUnlock(c) ==
  /\ lpc[on[c]] = "unlock"
  /\ locked' = [locked EXCEPT ![lk[on[c]]] = FALSE]
  /\ heldBy' = [heldBy EXCEPT ![on[c]] = @ \ {lk[on[c]]}]
  /\ SpinGoto(on[c], "popcli")
  /\ UNCHANGED <<cpu, cpuVars, lk, on, handler, saved, fresh>>

Popcli(c) ==
  /\ lpc[on[c]] = "popcli"
  /\ IF FL_IF[c] \/ ncli[c] < 1
     THEN SpinGoto(on[c], "panic") /\ UNCHANGED cpuVars
     ELSE /\ ncli' = [ncli EXCEPT ![c] = @ - 1]
          /\ FL_IF' = [FL_IF EXCEPT ![c] = ncli[c] = 1 /\ intena[c]]
          /\ SpinGoto(on[c], "run") /\ UNCHANGED intena
  /\ UNCHANGED <<lockVars, lk, threadVars>>
----------------------------------------------------------------------------
(* An interrupt gate clears the flag; iret restores it. *)
Interrupt(c) ==
  /\ FL_IF[c] /\ lpc[on[c]] = "run" /\ ~handler[on[c]]
  /\ FL_IF' = [FL_IF EXCEPT ![c] = FALSE] /\ handler' = [handler EXCEPT ![on[c]] = TRUE]
  /\ UNCHANGED <<lockVars, ncli, intena, on, lpc, lk, heldBy, saved, fresh>>

Iret(c) ==
  /\ handler[on[c]] /\ lpc[on[c]] = "run" /\ heldBy[on[c]] = {}
  /\ FL_IF' = [FL_IF EXCEPT ![c] = TRUE] /\ handler' = [handler EXCEPT ![on[c]] = FALSE]
  /\ UNCHANGED <<lockVars, ncli, intena, on, lpc, lk, heldBy, saved, fresh>>

(* sched, called by a process with ptable.lock and no other lock: swtch to  *)
(* the scheduler, which inherits the CPU's intena.                          *)
Sched(c) ==
  LET p == on[c]
  IN /\ p # c /\ lpc[p] = "run" /\ heldBy[p] = {ptable}
     /\ IF cpu[ptable] # c \/ ncli[c] # 1 \/ FL_IF[c]
        THEN SpinGoto(p, "panic") /\ UNCHANGED <<on, heldBy, saved>>
        ELSE /\ saved' = [saved EXCEPT ![p] = intena[c]] /\ on' = [on EXCEPT ![c] = c]
             /\ heldBy' = [heldBy EXCEPT ![p] = {}, ![c] = {ptable}]
             /\ lpc' = [lpc EXCEPT ![p] = "parked", ![c] = "run"]
     /\ UNCHANGED <<lockVars, cpuVars, lk, handler, fresh>>

(* A slip: sched does not restore intena. *)
ResumeIntena(c, p) ==
  /\ on[c] = c /\ lpc[c] = "run" /\ heldBy[c] = {ptable} /\ ~handler[c] /\ lpc[p] = "parked"
  /\ on' = [on EXCEPT ![c] = p]
  /\ heldBy' = [heldBy EXCEPT ![c] = {}, ![p] = {ptable}]
  /\ lpc' = [lpc EXCEPT ![c] = "parked", ![p] = "run"]
  /\ UNCHANGED <<lockVars, cpuVars, lk, handler, saved, fresh>>

(* swtch from the scheduler to a process: sched returns there and restores  *)
(* the intena of the process; a new process begins in forkret instead.      *)
Resume(c, p) ==
  /\ on[c] = c /\ lpc[c] = "run" /\ heldBy[c] = {ptable} /\ ~handler[c] /\ lpc[p] = "parked"
  /\ on' = [on EXCEPT ![c] = p]
  /\ heldBy' = [heldBy EXCEPT ![c] = {}, ![p] = {ptable}]
  /\ lpc' = [lpc EXCEPT ![c] = "parked", ![p] = "run"]
  /\ intena' = IF fresh[p] THEN intena ELSE [intena EXCEPT ![c] = saved[p]]
  /\ UNCHANGED <<lockVars, FL_IF, ncli, lk, handler, saved, fresh>>

(* The return to user space, with interrupts on. *)
UserReturn(c) ==
  /\ on[c] # c /\ fresh[on[c]] /\ lpc[on[c]] = "run" /\ heldBy[on[c]] = {} /\ ~handler[on[c]]
  /\ FL_IF' = [FL_IF EXCEPT ![c] = TRUE] /\ fresh' = [fresh EXCEPT ![on[c]] = FALSE]
  /\ UNCHANGED <<lockVars, ncli, intena, on, lpc, lk, heldBy, handler, saved>>

SchedulerSti(c) ==
  /\ on[c] = c /\ lpc[c] = "run" /\ heldBy[c] = {} /\ ~handler[c] /\ ~FL_IF[c]
  /\ FL_IF' = [FL_IF EXCEPT ![c] = TRUE]
  /\ UNCHANGED <<lockVars, ncli, intena, lpc, lk, threadVars>>

SpinStep(c) ==
  \/ AcquireHolding(c) \/ AcquireOwner(c) \/ AcquireXchg(c) \/ AcquireRecord(c)
  \/ ReleaseUnlock(c) \/ Popcli(c) \/ Interrupt(c) \/ Iret(c)
  \/ \E l \in Lock : Acquire(c, l) \/ Release(c, l)
  \/ Sched(c) \/ UserReturn(c) \/ SchedulerSti(c) \/ \E p \in Proc : Resume(c, p)

SpinNext == \E c \in CPU : SpinStep(c)

SpinSpec == SpinInit /\ [][SpinNext]_spinVars
----------------------------------------------------------------------------
(* Types; the cli calls of a CPU nest at most as deep as there are locks. *)
SpinTypeOK ==
  /\ locked \in [Lock -> BOOLEAN] /\ cpu \in [Lock -> CPU \cup {NoCPU}]
  /\ FL_IF \in [CPU -> BOOLEAN] /\ ncli \in [CPU -> 0 .. Cardinality(Lock)] /\ intena \in [CPU -> BOOLEAN]
  /\ on \in [CPU -> Thread] /\ lk \in [Thread -> Lock] /\ heldBy \in [Thread -> SUBSET Lock]
  /\ lpc \in [Thread -> {"run", "parked", "holding", "owner", "xchg", "record",
                         "unlock", "popcli", "panic"}]
  /\ handler \in [Thread -> BOOLEAN] /\ saved \in [Proc -> BOOLEAN] /\ fresh \in [Proc -> BOOLEAN]

(* acquire and release: a lock is between them on one CPU at a time,        *)
(* although the owner field is written after the word is taken and cleared  *)
(* before it is given back, and although sched passes a lock on.            *)
MutualExclusion == \A t, u \in Thread : t # u => heldBy[t] \cap heldBy[u] = {}

(* No check of spinlock.c or sched fails: holding is never wrong about the  *)
(* lock of this CPU, an interrupt handler never finds its CPU holding the   *)
(* lock it needs, pushcli and popcli are matched across swtch.              *)
NoLockPanic == \A t \in Thread : lpc[t] # "panic"

(* Outside its locks a process that has been in user space runs with        *)
(* interrupts on unless it is in a handler, whichever CPU it resumed on and *)
(* whatever handler gave up that CPU: intena follows the thread.            *)
InterruptsRestored ==
  \A c \in CPU : on[c] # c /\ ~fresh[on[c]] /\ lpc[on[c]] = "run" /\ heldBy[on[c]] = {}
                 => FL_IF[c] = ~handler[on[c]]

(* pushcli, popcli and sched keep the interrupt flag with the thread, and   *)
(* no panic of spinlock.c or sched is reached.                              *)
InterruptsSound == SpinTypeOK /\ NoLockPanic /\ InterruptsRestored
=============================================================================
