-------------------------- MODULE SpinLockProofs --------------------------
(***************************************************************************)
(* Spinlocks exclude, no check of spinlock.c or sched fails and interrupts *)
(* are restored, for every number of processors, processes and locks.      *)
(***************************************************************************)
EXTENDS SpinLock, FiniteSetTheorems, TLAPS

(* The provers a leaf without a pragma is given to. *)
USE SMTT(20), ZenonT(20), Z3T(60)

(* In acquire before the word is taken, or in release after it is given back. *)
Pending == {"holding", "owner", "xchg", "popcli"}
(* The word is taken, the owner field not yet written or no longer. *)
Owning == {"record", "unlock"}

(* Types, with no thread in a panic. *)
SpinTypes ==
  /\ locked \in [Lock -> BOOLEAN] /\ cpu \in [Lock -> CPU \cup {NoCPU}]
  /\ FL_IF \in [CPU -> BOOLEAN] /\ ncli \in [CPU -> Nat] /\ intena \in [CPU -> BOOLEAN]
  /\ on \in [CPU -> Thread] /\ lk \in [Thread -> Lock] /\ heldBy \in [Thread -> SUBSET Lock]
  /\ lpc \in [Thread -> {"run", "parked"} \cup Pending \cup Owning]
  /\ handler \in [Thread -> BOOLEAN] /\ saved \in [Proc -> BOOLEAN] /\ fresh \in [Proc -> BOOLEAN]

(* A CPU runs its scheduler or a process, and no thread runs on two. *)
OnInv ==
  /\ \A c \in CPU : (on[c] = c \/ on[c] \in Proc) /\ lpc[on[c]] # "parked"
  /\ \A c, d \in CPU : on[c] = on[d] => c = d

(* The word of a lock that is held is 1. *)
WordInv == \A t \in Thread : \A l \in heldBy[t] : locked[l]

(* The lock of the call a thread is in is held from xchg to the store of 0. *)
LkInv ==
  \A t \in Thread : /\ lpc[t] \in Owning => lk[t] \in heldBy[t]
                    /\ lpc[t] \in Pending => lk[t] \notin heldBy[t]

(* The owner field names a CPU exactly while the thread on that CPU is     *)
(* between the two stores to it: what holding reads is true of its reader. *)
OwnInv ==
  \A c \in CPU, l \in Lock :
    cpu[l] = c <=> l \in heldBy[on[c]] /\ ~(lpc[on[c]] \in Owning /\ lk[on[c]] = l)

(* ncli counts the locks of the running thread, and the call that has      *)
(* disabled interrupts without holding its lock.                           *)
CpuCount(c) ==
  ncli[c] = Cardinality(heldBy[on[c]]) + (IF lpc[on[c]] \in Pending THEN 1 ELSE 0)

(* Interrupts are enabled only outside of pushcli. *)
CpuFlag(c) == FL_IF[c] => ncli[c] = 0

(* Whether interrupts are to be on outside of the locks is in the flag, or *)
(* in intena from the first pushcli on.                                    *)
CpuIntena(c) ==
  on[c] # c /\ ~fresh[on[c]] =>
    /\ ncli[c] = 0 => (FL_IF[c] <=> ~handler[on[c]])
    /\ ncli[c] # 0 => (intena[c] <=> ~handler[on[c]])

(* The same of a process in sched, whose intena is in the local of sched. *)
ProcSaved(p) == lpc[p] = "parked" /\ ~fresh[p] => (saved[p] <=> ~handler[p])

(* The inductive invariant. *)
SpinInv ==
  /\ SpinTypes /\ OnInv /\ MutualExclusion /\ WordInv /\ LkInv /\ OwnInv
  /\ \A c \in CPU : CpuCount(c) /\ CpuFlag(c) /\ CpuIntena(c)
  /\ \A p \in Proc : ProcSaved(p)

(* The checks of acquire, release, popcli and sched are satisfied. *)
LEMMA ChecksPass ==
  ASSUME SpinInv, NEW c \in CPU
  PROVE  /\ AcquireOwner(c) => cpu[lk[on[c]]] # c
         /\ \A l \in Lock : Release(c, l) => locked[l] /\ cpu[l] = c
         /\ Popcli(c) => ~FL_IF[c] /\ ncli[c] >= 1
         /\ Sched(c) => ~FL_IF[c] /\ ncli[c] = 1 /\ cpu[ptable] = c
<1> USE SpinAssumption
<1>1. on[c] \in Thread /\ lk[on[c]] \in Lock /\ heldBy[on[c]] \in SUBSET Lock /\ ncli[c] \in Nat
  BY Zenon DEF SpinInv, SpinTypes
<1>2. IsFiniteSet(heldBy[on[c]]) /\ Cardinality(heldBy[on[c]]) \in Nat
  BY Zenon, <1>1, FS_Subset, FS_CardinalityType
<1>3. AcquireOwner(c) => cpu[lk[on[c]]] # c
  BY Zenon, <1>1 DEF SpinInv, LkInv, OwnInv, AcquireOwner, Pending
<1>4. ASSUME NEW l \in Lock, Release(c, l) PROVE locked[l] /\ cpu[l] = c
  BY <1>1, <1>4 DEF SpinInv, WordInv, OwnInv, Release, Owning
<1>5. Popcli(c) => ncli[c] = Cardinality(heldBy[on[c]]) + 1
  BY Zenon DEF SpinInv, CpuCount, Popcli, Pending
<1>6. Popcli(c) => ~FL_IF[c] /\ ncli[c] >= 1
  BY <1>1, <1>2, <1>5 DEF SpinInv, CpuFlag
<1>7. Sched(c) => ncli[c] = Cardinality({ptable}) + 0 /\ cpu[ptable] = c
  <2> SUFFICES ASSUME Sched(c) PROVE ncli[c] = Cardinality({ptable}) + 0 /\ cpu[ptable] = c
    OBVIOUS
  <2>1. heldBy[on[c]] = {ptable} /\ lpc[on[c]] = "run"
    BY Zenon DEF Sched
  <2>2. CpuCount(c) /\ OwnInv
    BY DEF SpinInv
  <2>3. ncli[c] = Cardinality({ptable}) + 0
    BY Zenon, <2>1, <2>2 DEF CpuCount, Pending
  <2>4. cpu[ptable] = c
    BY Zenon, <2>1, <2>2 DEF OwnInv, Owning
  <2> QED
    BY Zenon, <2>3, <2>4
<1>8. Cardinality({ptable}) = 1
  BY Zenon, FS_Singleton
<1>9. Sched(c) => ~FL_IF[c] /\ ncli[c] = 1 /\ cpu[ptable] = c
  BY <1>1, <1>7, <1>8 DEF SpinInv, CpuFlag
<1> QED
  BY Zenon, <1>3, <1>4, <1>6, <1>9

(* Types, without the panics that ChecksPass excludes. *)
LEMMA TypesStep ==
  ASSUME SpinInv, NEW c \in CPU, SpinStep(c)
  PROVE  SpinTypes'
<1> USE SpinAssumption
<1>1. ASSUME AcquireHolding(c) PROVE SpinTypes'
  BY Zenon, <1>1 DEF SpinInv, SpinTypes, Thread, Pending, Owning, AcquireHolding, lockVars, cpuVars, threadVars, SpinGoto
<1>2. ASSUME AcquireOwner(c) PROVE SpinTypes'
  <2>1. cpu[lk[on[c]]] # c
    BY Zenon, <1>2, ChecksPass
  <2> QED
    BY <1>2, <2>1 DEF SpinInv, SpinTypes, Thread, Pending, Owning, AcquireOwner, lockVars, cpuVars, threadVars, SpinGoto
<1>3. ASSUME AcquireXchg(c) PROVE SpinTypes'
  BY <1>3 DEF SpinInv, SpinTypes, Thread, Pending, Owning, AcquireXchg, cpuVars, SpinGoto
<1>4. ASSUME AcquireRecord(c) PROVE SpinTypes'
  BY Zenon, <1>4 DEF SpinInv, SpinTypes, Thread, Pending, Owning, AcquireRecord, cpuVars, threadVars, SpinGoto
<1>5. ASSUME ReleaseUnlock(c) PROVE SpinTypes'
  BY Zenon, <1>5 DEF SpinInv, SpinTypes, Thread, Pending, Owning, ReleaseUnlock, cpuVars, SpinGoto
<1>6. ASSUME Popcli(c) PROVE SpinTypes'
  <2>1. ~FL_IF[c] /\ ncli[c] >= 1 /\ ncli[c] \in Nat
    BY <1>6, ChecksPass DEF SpinInv, SpinTypes
  <2>2. /\ ncli' = [ncli EXCEPT ![c] = @ - 1] /\ lpc' = [lpc EXCEPT ![on[c]] = "run"]
        /\ FL_IF' = [FL_IF EXCEPT ![c] = ncli[c] = 1 /\ intena[c]]
        /\ lpc[on[c]] = "popcli" /\ UNCHANGED <<locked, cpu, lk, intena, on, heldBy, handler, saved, fresh>>
    BY <1>6, <2>1 DEF Popcli, SpinGoto, threadVars, lockVars
  <2>3. ncli'[c] = ncli[c] - 1 /\ lpc'[on[c]] = "run"
    BY <2>1, <2>2 DEF SpinInv, SpinTypes
  <2>4. ncli' \in [CPU -> Nat]
    BY <2>1, <2>2 DEF SpinInv, SpinTypes
  <2>5. FL_IF' \in [CPU -> BOOLEAN]
    BY Zenon, <2>2 DEF SpinInv, SpinTypes
  <2> QED
    BY <2>2, <2>4, <2>5 DEF SpinInv, SpinTypes
<1>7. ASSUME Interrupt(c) PROVE SpinTypes'
  BY Zenon, <1>7 DEF SpinInv, SpinTypes, Thread, Pending, Owning, Interrupt, lockVars
<1>8. ASSUME Iret(c) PROVE SpinTypes'
  BY <1>8 DEF SpinInv, SpinTypes, Thread, Pending, Owning, Iret, lockVars
<1>9. ASSUME Sched(c) PROVE SpinTypes'
  <2>1. ~FL_IF[c] /\ ncli[c] = 1 /\ cpu[ptable] = c
    BY <1>9, ChecksPass
  <2>2. /\ saved' = [saved EXCEPT ![on[c]] = intena[c]] /\ on' = [on EXCEPT ![c] = c]
        /\ heldBy' = [heldBy EXCEPT ![on[c]] = {}, ![c] = {ptable}]
        /\ lpc' = [lpc EXCEPT ![on[c]] = "parked", ![c] = "run"]
        /\ UNCHANGED <<locked, cpu, FL_IF, ncli, intena, lk, handler, fresh>>
    BY <1>9, <2>1 DEF Sched, lockVars, cpuVars
  <2>3. c \in Thread
    BY DEF Thread
  <2> QED
    BY Zenon, <2>2, <2>3 DEF SpinInv, SpinTypes
<1>10. ASSUME UserReturn(c) PROVE SpinTypes'
  BY Zenon, <1>10 DEF SpinInv, SpinTypes, Thread, Pending, Owning, UserReturn, lockVars
<1>11. ASSUME SchedulerSti(c) PROVE SpinTypes'
  BY Zenon, <1>11 DEF SpinInv, SpinTypes, Thread, Pending, Owning, SchedulerSti, lockVars, threadVars
<1>12. ASSUME NEW l \in Lock, Acquire(c, l) PROVE SpinTypes'
  BY <1>12 DEF SpinInv, SpinTypes, Thread, Pending, Owning, Acquire, lockVars, threadVars, SpinGoto, Pushcli
<1>13. ASSUME NEW l \in Lock, Release(c, l) PROVE SpinTypes'
  <2>1. locked[l] /\ cpu[l] = c
    BY Zenon, <1>13, ChecksPass
  <2>2. /\ lk' = [lk EXCEPT ![on[c]] = l] /\ cpu' = [cpu EXCEPT ![l] = NoCPU]
        /\ lpc' = [lpc EXCEPT ![on[c]] = "unlock"]
        /\ UNCHANGED <<locked, FL_IF, ncli, intena, on, heldBy, handler, saved, fresh>>
    BY Zenon, <1>13, <2>1 DEF Release, cpuVars, threadVars, SpinGoto
  <2>3. "unlock" \in {"run", "parked"} \cup Pending \cup Owning
    BY DEF Owning
  <2> QED
    BY Zenon, <2>2, <2>3 DEF SpinInv, SpinTypes
<1>14. ASSUME NEW p \in Proc, Resume(c, p) PROVE SpinTypes'
  <2>1. /\ on' = [on EXCEPT ![c] = p] /\ heldBy' = [heldBy EXCEPT ![c] = {}, ![p] = {ptable}]
        /\ lpc' = [lpc EXCEPT ![c] = "parked", ![p] = "run"]
        /\ intena' = intena \/ intena' = [intena EXCEPT ![c] = saved[p]]
        /\ UNCHANGED <<locked, cpu, FL_IF, ncli, lk, handler, saved, fresh>>
    BY Zenon, <1>14 DEF Resume, lockVars
  <2>2. c \in Thread /\ p \in Thread
    BY Zenon DEF Thread
  <2>3. saved[p] \in BOOLEAN
    BY Zenon DEF SpinInv, SpinTypes
  <2>4. intena' \in [CPU -> BOOLEAN]
    BY Zenon, <2>1, <2>3 DEF SpinInv, SpinTypes
  <2>5. on' \in [CPU -> Thread]
    BY Zenon, <2>1, <2>2 DEF SpinInv, SpinTypes
  <2>6. heldBy' \in [Thread -> SUBSET Lock]
    BY Zenon, <2>1 DEF SpinInv, SpinTypes
  <2>7. lpc' \in [Thread -> {"run", "parked"} \cup Pending \cup Owning]
    BY Zenon, <2>1 DEF SpinInv, SpinTypes
  <2> QED
    BY Zenon, <2>1, <2>4, <2>5, <2>6, <2>7 DEF SpinInv, SpinTypes
<1> QED
  BY Zenon, <1>1, <1>2, <1>3, <1>4, <1>5, <1>6, <1>7, <1>8, <1>9, <1>10, <1>11, <1>12, <1>13, <1>14 DEF SpinStep

(* A thread runs on one CPU at a time. *)
LEMMA OnStep ==
  ASSUME SpinInv, NEW c \in CPU, SpinStep(c)
  PROVE  OnInv'
<1> USE SpinAssumption
<1>1. ASSUME AcquireHolding(c) PROVE OnInv'
  BY <1>1 DEF SpinInv, SpinTypes, OnInv, Thread, AcquireHolding, lockVars, cpuVars, threadVars, SpinGoto
<1>2. ASSUME AcquireOwner(c) PROVE OnInv'
  BY <1>2 DEF SpinInv, SpinTypes, OnInv, Thread, AcquireOwner, lockVars, cpuVars, threadVars, SpinGoto
<1>3. ASSUME AcquireXchg(c) PROVE OnInv'
  BY <1>3 DEF SpinInv, SpinTypes, OnInv, Thread, AcquireXchg, cpuVars, SpinGoto
<1>4. ASSUME AcquireRecord(c) PROVE OnInv'
  BY Zenon, <1>4 DEF SpinInv, SpinTypes, OnInv, Thread, AcquireRecord, cpuVars, threadVars, SpinGoto
<1>5. ASSUME ReleaseUnlock(c) PROVE OnInv'
  BY <1>5 DEF SpinInv, SpinTypes, OnInv, Thread, ReleaseUnlock, cpuVars, SpinGoto
<1>6. ASSUME Popcli(c) PROVE OnInv'
  BY <1>6 DEF SpinInv, SpinTypes, OnInv, Thread, Popcli, lockVars, cpuVars, threadVars, SpinGoto
<1>7. ASSUME Interrupt(c) PROVE OnInv'
  BY Zenon, <1>7 DEF SpinInv, SpinTypes, OnInv, Thread, Interrupt, lockVars
<1>8. ASSUME Iret(c) PROVE OnInv'
  BY Zenon, <1>8 DEF SpinInv, SpinTypes, OnInv, Thread, Iret, lockVars
<1>9. ASSUME Sched(c) PROVE OnInv'
  <2>1. ~FL_IF[c] /\ ncli[c] = 1 /\ cpu[ptable] = c
    BY Zenon, <1>9, ChecksPass
  <2>2. /\ saved' = [saved EXCEPT ![on[c]] = intena[c]] /\ on' = [on EXCEPT ![c] = c]
        /\ heldBy' = [heldBy EXCEPT ![on[c]] = {}, ![c] = {ptable}]
        /\ lpc' = [lpc EXCEPT ![on[c]] = "parked", ![c] = "run"]
        /\ UNCHANGED <<locked, cpu, FL_IF, ncli, intena, lk, handler, fresh>>
    BY <1>9, <2>1 DEF Sched, lockVars, cpuVars
  <2>3. c \in Thread /\ on[c] # c
    BY Zenon, <1>9 DEF Thread, Sched
  <2> QED
    BY <2>2, <2>3 DEF SpinInv, SpinTypes, OnInv
<1>10. ASSUME UserReturn(c) PROVE OnInv'
  BY Zenon, <1>10 DEF SpinInv, SpinTypes, OnInv, Thread, UserReturn, lockVars
<1>11. ASSUME SchedulerSti(c) PROVE OnInv'
  BY <1>11 DEF SpinInv, SpinTypes, OnInv, Thread, SchedulerSti, lockVars, threadVars
<1>12. ASSUME NEW l \in Lock, Acquire(c, l) PROVE OnInv'
  BY Zenon, <1>12 DEF SpinInv, SpinTypes, OnInv, Thread, Acquire, lockVars, threadVars, SpinGoto, Pushcli
<1>13. ASSUME NEW l \in Lock, Release(c, l) PROVE OnInv'
  BY <1>13 DEF SpinInv, SpinTypes, OnInv, Thread, Release, cpuVars, threadVars, SpinGoto
<1>14. ASSUME NEW p \in Proc, Resume(c, p) PROVE OnInv'
  BY <1>14 DEF SpinInv, SpinTypes, OnInv, Thread, Resume, lockVars
<1> QED
  BY Zenon, <1>1, <1>2, <1>3, <1>4, <1>5, <1>6, <1>7, <1>8, <1>9, <1>10, <1>11, <1>12, <1>13, <1>14 DEF SpinStep

(* A lock has one holder, and its word is set. *)
LEMMA HeldStep ==
  ASSUME SpinInv, NEW c \in CPU, SpinStep(c)
  PROVE  MutualExclusion' /\ WordInv'
<1> USE SpinAssumption
<1>1. ASSUME AcquireHolding(c) PROVE MutualExclusion' /\ WordInv'
  BY <1>1 DEF SpinInv, SpinTypes, OnInv, MutualExclusion, WordInv, LkInv, Owning, Thread, AcquireHolding, lockVars, cpuVars, threadVars, SpinGoto
<1>2. ASSUME AcquireOwner(c) PROVE MutualExclusion' /\ WordInv'
  BY Zenon, <1>2 DEF SpinInv, SpinTypes, OnInv, MutualExclusion, WordInv, LkInv, Owning, Thread, AcquireOwner, lockVars, cpuVars, threadVars, SpinGoto
<1>3. ASSUME AcquireXchg(c) PROVE MutualExclusion' /\ WordInv'
  <2> DEFINE l == lk[on[c]]
  <2>1. on[c] \in Thread /\ l \in Lock /\ heldBy' = [heldBy EXCEPT ![on[c]] = @ \cup {l}]
    BY <1>3 DEF SpinInv, SpinTypes, AcquireXchg
  <2>2. \A t \in Thread : l \notin heldBy[t]
    BY <1>3 DEF SpinInv, WordInv, AcquireXchg
  <2>3. \A t \in Thread : heldBy'[t] = IF t = on[c] THEN heldBy[t] \cup {l} ELSE heldBy[t]
    BY Zenon, <2>1 DEF SpinInv, SpinTypes
  <2>4. ASSUME NEW t \in Thread, NEW u \in Thread, t # u, NEW m \in heldBy'[t], m \in heldBy'[u] PROVE FALSE
    <3>1. m # l \/ l \in heldBy[t] \/ l \in heldBy[u]
      BY Zenon, <2>3, <2>4
    <3>2. m \in heldBy[t] /\ m \in heldBy[u]
      BY Zenon, <2>2, <2>3, <2>4, <3>1
    <3> QED
      BY Zenon, <3>2, <2>4 DEF SpinInv, MutualExclusion
  <2>5. WordInv'
    BY <1>3, <2>1, <2>3 DEF SpinInv, SpinTypes, WordInv, AcquireXchg
  <2>6. MutualExclusion'
    BY Zenon, <2>4 DEF MutualExclusion
  <2> QED
    BY Zenon, <2>5, <2>6
<1>4. ASSUME AcquireRecord(c) PROVE MutualExclusion' /\ WordInv'
  BY Zenon, <1>4 DEF SpinInv, SpinTypes, OnInv, MutualExclusion, WordInv, LkInv, Owning, Thread, AcquireRecord, cpuVars, threadVars, SpinGoto
<1>5. ASSUME ReleaseUnlock(c) PROVE MutualExclusion' /\ WordInv'
  BY <1>5 DEF SpinInv, SpinTypes, OnInv, MutualExclusion, WordInv, LkInv, Owning, Thread, ReleaseUnlock, cpuVars, SpinGoto
<1>6. ASSUME Popcli(c) PROVE MutualExclusion' /\ WordInv'
  BY Zenon, <1>6 DEF SpinInv, SpinTypes, OnInv, MutualExclusion, WordInv, LkInv, Owning, Thread, Popcli, lockVars, cpuVars, threadVars, SpinGoto
<1>7. ASSUME Interrupt(c) PROVE MutualExclusion' /\ WordInv'
  BY <1>7 DEF SpinInv, SpinTypes, OnInv, MutualExclusion, WordInv, LkInv, Owning, Thread, Interrupt, lockVars
<1>8. ASSUME Iret(c) PROVE MutualExclusion' /\ WordInv'
  BY Zenon, <1>8 DEF SpinInv, SpinTypes, OnInv, MutualExclusion, WordInv, LkInv, Owning, Thread, Iret, lockVars
<1>9. ASSUME Sched(c) PROVE MutualExclusion' /\ WordInv'
  <2>1. /\ on[c] # c /\ heldBy[on[c]] = {ptable} /\ on[c] \in Thread /\ c \in Thread /\ locked' = locked
        /\ heldBy' = [heldBy EXCEPT ![on[c]] = {}, ![c] = {ptable}]
    <3>1. ~FL_IF[c] /\ ncli[c] = 1 /\ cpu[ptable] = c
      BY Zenon, <1>9, ChecksPass
    <3>2. /\ on[c] # c /\ heldBy[on[c]] = {ptable} /\ locked' = locked
          /\ heldBy' = [heldBy EXCEPT ![on[c]] = {}, ![c] = {ptable}]
      BY Zenon, <1>9, <3>1 DEF Sched, lockVars
    <3>3. on[c] \in Thread /\ c \in Thread
      BY Zenon DEF SpinInv, SpinTypes, Thread
    <3> QED
      BY Zenon, <3>2, <3>3
  <2>2. \A t \in Thread : heldBy'[t] = IF t = c THEN {ptable} ELSE IF t = on[c] THEN {} ELSE heldBy[t]
    BY Zenon, <2>1 DEF SpinInv, SpinTypes
  <2>3. \A t \in Thread : t # on[c] => ptable \notin heldBy[t]
    BY Zenon, <2>1 DEF SpinInv, MutualExclusion
  <2>4. MutualExclusion'
    BY <2>2, <2>3 DEF SpinInv, MutualExclusion
  <2>5. WordInv'
    BY <2>1, <2>2 DEF SpinInv, WordInv
  <2> QED
    BY Zenon, <2>4, <2>5
<1>10. ASSUME UserReturn(c) PROVE MutualExclusion' /\ WordInv'
  BY Zenon, <1>10 DEF SpinInv, SpinTypes, OnInv, MutualExclusion, WordInv, LkInv, Owning, Thread, UserReturn, lockVars
<1>11. ASSUME SchedulerSti(c) PROVE MutualExclusion' /\ WordInv'
  BY Zenon, <1>11 DEF SpinInv, SpinTypes, OnInv, MutualExclusion, WordInv, LkInv, Owning, Thread, SchedulerSti, lockVars, threadVars
<1>12. ASSUME NEW l \in Lock, Acquire(c, l) PROVE MutualExclusion' /\ WordInv'
  BY <1>12 DEF SpinInv, SpinTypes, OnInv, MutualExclusion, WordInv, LkInv, Owning, Thread, Acquire, lockVars, threadVars, SpinGoto, Pushcli
<1>13. ASSUME NEW l \in Lock, Release(c, l) PROVE MutualExclusion' /\ WordInv'
  BY Zenon, <1>13 DEF SpinInv, SpinTypes, OnInv, MutualExclusion, WordInv, LkInv, Owning, Thread, Release, cpuVars, threadVars, SpinGoto
<1>14. ASSUME NEW p \in Proc, Resume(c, p) PROVE MutualExclusion' /\ WordInv'
  <2>1. /\ c # p /\ heldBy[c] = {ptable} /\ p \in Thread /\ c \in Thread /\ locked' = locked
        /\ heldBy' = [heldBy EXCEPT ![c] = {}, ![p] = {ptable}]
    BY Zenon, <1>14 DEF SpinInv, SpinTypes, Resume, lockVars, Thread
  <2>2. \A t \in Thread : heldBy'[t] = IF t = p THEN {ptable} ELSE IF t = c THEN {} ELSE heldBy[t]
    BY Zenon, <2>1 DEF SpinInv, SpinTypes
  <2>3. \A t \in Thread : t # c => ptable \notin heldBy[t]
    BY <2>1 DEF SpinInv, MutualExclusion
  <2>4. MutualExclusion'
    BY <2>2, <2>3 DEF SpinInv, MutualExclusion
  <2>5. WordInv'
    <3>1. WordInv
      BY Zenon DEF SpinInv
    <3>2. ASSUME NEW t \in Thread, NEW l \in heldBy'[t] PROVE locked'[l]
      <4>1. l \in heldBy[t] \/ (l = ptable /\ ptable \in heldBy[c])
        BY Zenon, <2>1, <2>2, <3>2
      <4> QED
        BY Zenon, <2>1, <3>1, <4>1 DEF WordInv
    <3> QED
      BY Zenon, <3>2 DEF WordInv
  <2> QED
    BY Zenon, <2>4, <2>5
<1> QED
  BY Zenon, <1>1, <1>2, <1>3, <1>4, <1>5, <1>6, <1>7, <1>8, <1>9, <1>10, <1>11, <1>12, <1>13, <1>14 DEF SpinStep

(* The lock that a thread is about to take, or has given back, is not among its own. *)
LEMMA LkStep ==
  ASSUME SpinInv, NEW c \in CPU, SpinStep(c)
  PROVE  LkInv'
<1> USE SpinAssumption
<1>1. ASSUME AcquireHolding(c) PROVE LkInv'
  BY <1>1 DEF SpinInv, SpinTypes, OnInv, LkInv, Owning, Pending, Thread, AcquireHolding, lockVars, cpuVars, threadVars, SpinGoto
<1>2. ASSUME AcquireOwner(c) PROVE LkInv'
  BY <1>2 DEF SpinInv, SpinTypes, OnInv, LkInv, Owning, Pending, Thread, AcquireOwner, lockVars, cpuVars, threadVars, SpinGoto
<1>3. ASSUME AcquireXchg(c) PROVE LkInv'
  BY <1>3 DEF SpinInv, SpinTypes, OnInv, LkInv, Owning, Pending, Thread, AcquireXchg, cpuVars, SpinGoto
<1>4. ASSUME AcquireRecord(c) PROVE LkInv'
  BY Zenon, <1>4 DEF SpinInv, SpinTypes, OnInv, LkInv, Owning, Pending, Thread, AcquireRecord, cpuVars, threadVars, SpinGoto
<1>5. ASSUME ReleaseUnlock(c) PROVE LkInv'
  BY <1>5 DEF SpinInv, SpinTypes, OnInv, LkInv, Owning, Pending, Thread, ReleaseUnlock, cpuVars, SpinGoto
<1>6. ASSUME Popcli(c) PROVE LkInv'
  BY <1>6 DEF SpinInv, SpinTypes, OnInv, LkInv, Owning, Pending, Thread, Popcli, lockVars, cpuVars, threadVars, SpinGoto
<1>7. ASSUME Interrupt(c) PROVE LkInv'
  BY Zenon, <1>7 DEF SpinInv, SpinTypes, OnInv, LkInv, Owning, Pending, Thread, Interrupt, lockVars
<1>8. ASSUME Iret(c) PROVE LkInv'
  BY Zenon, <1>8 DEF SpinInv, SpinTypes, OnInv, LkInv, Owning, Pending, Thread, Iret, lockVars
<1>9. ASSUME Sched(c) PROVE LkInv'
  <2>1. ~FL_IF[c] /\ ncli[c] = 1 /\ cpu[ptable] = c
    BY Zenon, <1>9, ChecksPass
  <2>2. /\ on[c] # c /\ lpc[on[c]] = "run" /\ heldBy[on[c]] = {ptable} /\ on' = [on EXCEPT ![c] = c]
        /\ heldBy' = [heldBy EXCEPT ![on[c]] = {}, ![c] = {ptable}]
        /\ lpc' = [lpc EXCEPT ![on[c]] = "parked", ![c] = "run"] /\ UNCHANGED <<cpu, lk>>
    BY <1>9, <2>1 DEF Sched, lockVars
  <2>3. c \in Thread /\ on[c] \in Thread
    BY Zenon DEF SpinInv, SpinTypes, Thread
  <2> QED
    BY <2>2, <2>3 DEF SpinInv, SpinTypes, LkInv, Owning, Pending
<1>10. ASSUME UserReturn(c) PROVE LkInv'
  BY Zenon, <1>10 DEF SpinInv, SpinTypes, OnInv, LkInv, Owning, Pending, Thread, UserReturn, lockVars
<1>11. ASSUME SchedulerSti(c) PROVE LkInv'
  BY <1>11 DEF SpinInv, SpinTypes, OnInv, LkInv, Owning, Pending, Thread, SchedulerSti, lockVars, threadVars
<1>12. ASSUME NEW l \in Lock, Acquire(c, l) PROVE LkInv'
  BY <1>12 DEF SpinInv, SpinTypes, OnInv, LkInv, Owning, Pending, Thread, Acquire, lockVars, threadVars, SpinGoto, Pushcli
<1>13. ASSUME NEW l \in Lock, Release(c, l) PROVE LkInv'
  BY <1>13 DEF SpinInv, SpinTypes, OnInv, LkInv, Owning, Pending, Thread, Release, cpuVars, threadVars, SpinGoto
<1>14. ASSUME NEW p \in Proc, Resume(c, p) PROVE LkInv'
  <2>1. /\ heldBy' = [heldBy EXCEPT ![c] = {}, ![p] = {ptable}] /\ lk' = lk
        /\ lpc' = [lpc EXCEPT ![c] = "parked", ![p] = "run"]
    BY Zenon, <1>14 DEF Resume
  <2>2. c \in Thread /\ p \in Thread
    BY Zenon DEF Thread
  <2>3. ASSUME NEW t \in Thread
        PROVE  /\ lpc'[t] \in Owning => lk'[t] \in heldBy'[t]
               /\ lpc'[t] \in Pending => lk'[t] \notin heldBy'[t]
    <3>1. /\ lpc'[t] = IF t = p THEN "run" ELSE IF t = c THEN "parked" ELSE lpc[t]
          /\ heldBy'[t] = IF t = p THEN {ptable} ELSE IF t = c THEN {} ELSE heldBy[t]
      BY Zenon, <2>1, <2>2 DEF SpinInv, SpinTypes
    <3>2. {"run", "parked"} \cap (Owning \cup Pending) = {}
      BY DEF Owning, Pending
    <3>3. t = p \/ t = c => lpc'[t] \notin Owning /\ lpc'[t] \notin Pending
      BY Zenon, <3>1, <3>2
    <3>4. t # p /\ t # c => lpc'[t] = lpc[t] /\ heldBy'[t] = heldBy[t]
      BY Zenon, <3>1
    <3> QED
      BY Zenon, <2>1, <3>3, <3>4 DEF SpinInv, LkInv
  <2> QED
    BY Zenon, <2>3 DEF LkInv
<1> QED
  BY Zenon, <1>1, <1>2, <1>3, <1>4, <1>5, <1>6, <1>7, <1>8, <1>9, <1>10, <1>11, <1>12, <1>13, <1>14 DEF SpinStep

(* The owner field names the CPU of the holder, except at the ends of acquire and release. *)
LEMMA OwnStep ==
  ASSUME SpinInv, NEW c \in CPU, SpinStep(c)
  PROVE  OwnInv'
<1> USE SpinAssumption
<1>1. ASSUME AcquireHolding(c) PROVE OwnInv'
  BY <1>1 DEF SpinInv, SpinTypes, OnInv, MutualExclusion, LkInv, OwnInv, Owning, Pending, Thread, AcquireHolding, lockVars, cpuVars, threadVars, SpinGoto
<1>2. ASSUME AcquireOwner(c) PROVE OwnInv'
  <2>1. cpu[lk[on[c]]] # c
    BY Zenon, <1>2, ChecksPass
  <2> QED
    BY <1>2, <2>1 DEF SpinInv, SpinTypes, OnInv, MutualExclusion, LkInv, OwnInv, Owning, Pending, Thread, AcquireOwner, lockVars, cpuVars, threadVars, SpinGoto
<1>3. ASSUME AcquireXchg(c) PROVE OwnInv'
  BY <1>3 DEF SpinInv, SpinTypes, OnInv, MutualExclusion, LkInv, OwnInv, Owning, Pending, Thread, AcquireXchg, cpuVars, SpinGoto
<1>4. ASSUME AcquireRecord(c) PROVE OwnInv'
  BY <1>4 DEF SpinInv, SpinTypes, OnInv, MutualExclusion, LkInv, OwnInv, Owning, Pending, Thread, AcquireRecord, cpuVars, threadVars, SpinGoto
<1>5. ASSUME ReleaseUnlock(c) PROVE OwnInv'
  BY <1>5 DEF SpinInv, SpinTypes, OnInv, MutualExclusion, LkInv, OwnInv, Owning, Pending, Thread, ReleaseUnlock, cpuVars, SpinGoto
<1>6. ASSUME Popcli(c) PROVE OwnInv'
  <2>1. ~FL_IF[c] /\ ncli[c] >= 1
    BY <1>6, ChecksPass
  <2> QED
    BY <1>6, <2>1 DEF SpinInv, SpinTypes, OnInv, MutualExclusion, LkInv, OwnInv, Owning, Pending, Thread, Popcli, lockVars, cpuVars, threadVars, SpinGoto
<1>7. ASSUME Interrupt(c) PROVE OwnInv'
  BY <1>7 DEF SpinInv, SpinTypes, OnInv, MutualExclusion, LkInv, OwnInv, Owning, Pending, Thread, Interrupt, lockVars
<1>8. ASSUME Iret(c) PROVE OwnInv'
  BY <1>8 DEF SpinInv, SpinTypes, OnInv, MutualExclusion, LkInv, OwnInv, Owning, Pending, Thread, Iret, lockVars
<1>9. ASSUME Sched(c) PROVE OwnInv'
  <2>1. ~FL_IF[c] /\ ncli[c] = 1 /\ cpu[ptable] = c
    BY Zenon, <1>9, ChecksPass
  <2>2. /\ on[c] # c /\ lpc[on[c]] = "run" /\ heldBy[on[c]] = {ptable} /\ on' = [on EXCEPT ![c] = c]
        /\ heldBy' = [heldBy EXCEPT ![on[c]] = {}, ![c] = {ptable}]
        /\ lpc' = [lpc EXCEPT ![on[c]] = "parked", ![c] = "run"] /\ UNCHANGED <<cpu, lk>>
    BY Zenon, <1>9, <2>1 DEF Sched, lockVars
  <2>3. c \in Thread /\ on[c] \in Thread
    BY Zenon DEF SpinInv, SpinTypes, Thread
  <2>4. \A d \in CPU : d # c => on[d] # on[c] /\ on[d] # c
    BY <2>3 DEF SpinInv, OnInv
  <2>5. ASSUME NEW l \in Lock
        PROVE  cpu'[l] = c <=> l \in heldBy'[on'[c]] /\ ~(lpc'[on'[c]] \in Owning /\ lk'[on'[c]] = l)
    BY <2>2, <2>3 DEF SpinInv, SpinTypes, OwnInv, Owning
  <2>6. ASSUME NEW d \in CPU, d # c, NEW l \in Lock
        PROVE  cpu'[l] = d <=> l \in heldBy'[on'[d]] /\ ~(lpc'[on'[d]] \in Owning /\ lk'[on'[d]] = l)
    <3>1. on'[d] = on[d] /\ heldBy'[on[d]] = heldBy[on[d]] /\ lpc'[on[d]] = lpc[on[d]]
      BY <2>2, <2>3, <2>4, <2>6 DEF SpinInv, SpinTypes
    <3> QED
      BY <2>2, <3>1 DEF SpinInv, OwnInv
  <2> QED
    BY Zenon, <2>5, <2>6 DEF OwnInv
<1>10. ASSUME UserReturn(c) PROVE OwnInv'
  BY <1>10 DEF SpinInv, SpinTypes, OnInv, MutualExclusion, LkInv, OwnInv, Owning, Pending, Thread, UserReturn, lockVars
<1>11. ASSUME SchedulerSti(c) PROVE OwnInv'
  BY <1>11 DEF SpinInv, SpinTypes, OnInv, MutualExclusion, LkInv, OwnInv, Owning, Pending, Thread, SchedulerSti, lockVars, threadVars
<1>12. ASSUME NEW l \in Lock, Acquire(c, l) PROVE OwnInv'
  BY <1>12 DEF SpinInv, SpinTypes, OnInv, MutualExclusion, LkInv, OwnInv, Owning, Pending, Thread, Acquire, lockVars, threadVars, SpinGoto, Pushcli
<1>13. ASSUME NEW l \in Lock, Release(c, l) PROVE OwnInv'
  <2>1. locked[l] /\ cpu[l] = c
    BY Zenon, <1>13, ChecksPass
  <2> QED
    BY <1>13, <2>1 DEF SpinInv, SpinTypes, OnInv, MutualExclusion, LkInv, OwnInv, Owning, Pending, Thread, Release, cpuVars, threadVars, SpinGoto
<1>14. ASSUME NEW p \in Proc, Resume(c, p) PROVE OwnInv'
  <2>1. /\ on[c] = c /\ heldBy[c] = {ptable} /\ lpc[c] = "run" /\ c \in Thread /\ p \in Thread /\ c # p /\ cpu' = cpu
        /\ on' = [on EXCEPT ![c] = p] /\ lk' = lk
    BY Zenon, <1>14 DEF Resume, Thread, lockVars
  <2>2. heldBy'[p] = {ptable} /\ lpc'[p] = "run" /\ on'[c] = p
    BY <1>14, <2>1 DEF Resume, SpinInv, SpinTypes
  <2>3. ASSUME NEW d \in CPU, d # c
        PROVE on'[d] = on[d] /\ heldBy'[on[d]] = heldBy[on[d]] /\ lpc'[on[d]] = lpc[on[d]]
    <3>1. on'[d] = on[d] /\ on[d] \in Thread /\ on[d] # c /\ on[d] # p
      BY <1>14, <2>1, <2>3 DEF Resume, SpinInv, SpinTypes, OnInv
    <3> QED
      BY <1>14, <2>1, <3>1 DEF Resume, SpinInv, SpinTypes
  <2>4. ASSUME NEW l \in Lock
        PROVE  cpu'[l] = c <=> l \in heldBy'[on'[c]] /\ ~(lpc'[on'[c]] \in Owning /\ lk'[on'[c]] = l)
    BY Zenon, <2>1, <2>2 DEF SpinInv, OwnInv, Owning
  <2>5. ASSUME NEW d \in CPU, d # c, NEW l \in Lock
        PROVE  cpu'[l] = d <=> l \in heldBy'[on'[d]] /\ ~(lpc'[on'[d]] \in Owning /\ lk'[on'[d]] = l)
    <3>1. cpu[l] = d <=> l \in heldBy[on[d]] /\ ~(lpc[on[d]] \in Owning /\ lk[on[d]] = l)
      BY Zenon DEF SpinInv, OwnInv
    <3>2. on'[d] = on[d] /\ heldBy'[on[d]] = heldBy[on[d]] /\ lpc'[on[d]] = lpc[on[d]]
      BY Zenon, <2>3, <2>5
    <3> QED
      BY Zenon, <2>1, <3>1, <3>2
  <2> QED
    BY Zenon, <2>4, <2>5 DEF OwnInv
<1> QED
  BY Zenon, <1>1, <1>2, <1>3, <1>4, <1>5, <1>6, <1>7, <1>8, <1>9, <1>10, <1>11, <1>12, <1>13, <1>14 DEF SpinStep

(* A step of one CPU changes nothing of another CPU or of the thread on it. *)
LEMMA OthersKeep ==
  ASSUME SpinInv, NEW c \in CPU, SpinStep(c), NEW d \in CPU, d # c
  PROVE  /\ on'[d] = on[d] /\ heldBy'[on[d]] = heldBy[on[d]] /\ lpc'[on[d]] = lpc[on[d]]
         /\ handler'[on[d]] = handler[on[d]] /\ (on[d] # d => fresh'[on[d]] = fresh[on[d]])
         /\ ncli'[d] = ncli[d] /\ FL_IF'[d] = FL_IF[d] /\ intena'[d] = intena[d]
<1> USE SpinAssumption
<1> DEFINE Others ==
         /\ on'[d] = on[d] /\ heldBy'[on[d]] = heldBy[on[d]] /\ lpc'[on[d]] = lpc[on[d]]
         /\ handler'[on[d]] = handler[on[d]] /\ (on[d] # d => fresh'[on[d]] = fresh[on[d]])
         /\ ncli'[d] = ncli[d] /\ FL_IF'[d] = FL_IF[d] /\ intena'[d] = intena[d]
<1>0. on[d] # on[c] /\ on[d] # c /\ lpc[on[d]] # "parked" /\ on[d] \in Thread
  BY DEF SpinInv, SpinTypes, OnInv
<1>1. ASSUME AcquireHolding(c) PROVE Others
  BY Zenon, <1>1, <1>0 DEF SpinInv, SpinTypes, OnInv, Thread, AcquireHolding, lockVars, cpuVars, threadVars, SpinGoto
<1>2. ASSUME AcquireOwner(c) PROVE Others
  <2>1. cpu[lk[on[c]]] # c
    BY Zenon, <1>2, ChecksPass
  <2> QED
    BY Zenon, <1>2, <2>1 DEF SpinInv, SpinTypes, OnInv, Thread, AcquireOwner, lockVars, cpuVars, threadVars, SpinGoto
<1>3. ASSUME AcquireXchg(c) PROVE Others
  BY Zenon, <1>3, <1>0 DEF SpinInv, SpinTypes, OnInv, Thread, AcquireXchg, cpuVars, SpinGoto
<1>4. ASSUME AcquireRecord(c) PROVE Others
  BY Zenon, <1>4, <1>0 DEF SpinInv, SpinTypes, OnInv, Thread, AcquireRecord, cpuVars, threadVars, SpinGoto
<1>5. ASSUME ReleaseUnlock(c) PROVE Others
  BY Zenon, <1>5, <1>0 DEF SpinInv, SpinTypes, OnInv, Thread, ReleaseUnlock, cpuVars, SpinGoto
<1>6. ASSUME Popcli(c) PROVE Others
  <2>1. ~FL_IF[c] /\ ncli[c] >= 1
    BY Zenon, <1>6, ChecksPass
  <2> QED
    BY <1>6, <2>1 DEF SpinInv, SpinTypes, OnInv, Thread, Popcli, lockVars, cpuVars, threadVars, SpinGoto
<1>7. ASSUME Interrupt(c) PROVE Others
  BY Zenon, <1>7, <1>0 DEF SpinInv, SpinTypes, OnInv, Thread, Interrupt, lockVars
<1>8. ASSUME Iret(c) PROVE Others
  BY Zenon, <1>8, <1>0 DEF SpinInv, SpinTypes, OnInv, Thread, Iret, lockVars
<1>9. ASSUME Sched(c) PROVE Others
  <2>1. ~FL_IF[c] /\ ncli[c] = 1 /\ cpu[ptable] = c
    BY Zenon, <1>9, ChecksPass
  <2> QED
    BY <1>9, <2>1 DEF SpinInv, SpinTypes, OnInv, Thread, Sched, lockVars, cpuVars, SpinGoto
<1>10. ASSUME UserReturn(c) PROVE Others
  BY <1>10, <1>0 DEF SpinInv, SpinTypes, OnInv, Thread, UserReturn, lockVars
<1>11. ASSUME SchedulerSti(c) PROVE Others
  BY Zenon, <1>11, <1>0 DEF SpinInv, SpinTypes, OnInv, Thread, SchedulerSti, lockVars, threadVars
<1>12. ASSUME NEW l \in Lock, Acquire(c, l) PROVE Others
  BY Zenon, <1>12, <1>0 DEF SpinInv, SpinTypes, OnInv, Thread, Acquire, lockVars, threadVars, SpinGoto, Pushcli
<1>13. ASSUME NEW l \in Lock, Release(c, l) PROVE Others
  <2>1. locked[l] /\ cpu[l] = c
    BY Zenon, <1>13, ChecksPass
  <2> QED
    BY <1>13, <2>1 DEF SpinInv, SpinTypes, OnInv, Thread, Release, cpuVars, threadVars, SpinGoto
<1>14. ASSUME NEW p \in Proc, Resume(c, p) PROVE Others
  BY Zenon, <1>14, <1>0 DEF SpinInv, SpinTypes, OnInv, Thread, Resume, lockVars
<1> QED
  BY Zenon, <1>1, <1>2, <1>3, <1>4, <1>5, <1>6, <1>7, <1>8, <1>9, <1>10, <1>11, <1>12, <1>13, <1>14 DEF SpinStep

(* A thread that is in no lock has called popcli as often as pushcli. *)
LEMMA NothingHeld ==
  ASSUME SpinInv, NEW c \in CPU, heldBy[on[c]] = {}, lpc[on[c]] = "run"
  PROVE  ncli[c] = 0
<1>1. ncli[c] = Cardinality({}) + 0
  BY Zenon DEF SpinInv, CpuCount, Pending
<1> QED
  BY <1>1, FS_EmptySet

(* The CPU that moves: ncli counts its locks and the call that it is in. *)
LEMMA CountStep ==
  ASSUME SpinInv, NEW c \in CPU, SpinStep(c)
  PROVE  CpuCount(c)'
<1> USE SpinAssumption
<1>0. /\ on[c] \in Thread /\ lk[on[c]] \in Lock /\ heldBy[on[c]] \in SUBSET Lock /\ ncli[c] \in Nat
      /\ IsFiniteSet(heldBy[on[c]]) /\ Cardinality(heldBy[on[c]]) \in Nat
  BY Zenon, FS_Subset, FS_CardinalityType DEF SpinInv, SpinTypes
<1>00. CpuCount(c) /\ SpinTypes /\ LkInv
  BY Zenon DEF SpinInv
<1>1. ASSUME AcquireHolding(c) PROVE CpuCount(c)'
  BY Zenon, <1>1, <1>0, <1>00 DEF SpinTypes, CpuCount, Pending, AcquireHolding, lockVars, cpuVars, threadVars, SpinGoto
<1>2. ASSUME AcquireOwner(c) PROVE CpuCount(c)'
  <2>1. cpu[lk[on[c]]] # c
    BY Zenon, <1>2, ChecksPass
  <2>2. /\ lpc[on[c]] = "owner" /\ lpc'[on[c]] = "xchg" /\ UNCHANGED <<ncli, on, heldBy>>
    BY Zenon, <1>0, <1>2, <2>1, <1>00 DEF AcquireOwner, SpinGoto, cpuVars, threadVars, SpinTypes
  <2> QED
    BY Zenon, <1>0, <1>00, <2>2 DEF CpuCount, Pending
<1>3. ASSUME AcquireXchg(c) PROVE CpuCount(c)'
  <2>1. /\ lpc[on[c]] = "xchg" /\ lpc'[on[c]] = "record" /\ on' = on /\ ncli' = ncli
        /\ heldBy'[on[c]] = heldBy[on[c]] \cup {lk[on[c]]}
    BY Zenon, <1>3, <1>0, <1>00 DEF AcquireXchg, SpinTypes, SpinGoto, cpuVars
  <2>2. lk[on[c]] \notin heldBy[on[c]]
    BY Zenon, <1>0, <2>1, <1>00 DEF LkInv, Pending
  <2>3. Cardinality(heldBy[on[c]] \cup {lk[on[c]]}) = Cardinality(heldBy[on[c]]) + 1
    BY Zenon, <1>0, <2>2, FS_AddElement
  <2> QED
    BY <1>0, <1>00, <2>1, <2>3 DEF CpuCount, Pending
<1>4. ASSUME AcquireRecord(c) PROVE CpuCount(c)'
  BY Zenon, <1>4, <1>0, <1>00 DEF SpinTypes, CpuCount, Pending, AcquireRecord, cpuVars, threadVars, SpinGoto
<1>5. ASSUME ReleaseUnlock(c) PROVE CpuCount(c)'
  <2>1. /\ lpc[on[c]] = "unlock" /\ lpc'[on[c]] = "popcli" /\ on' = on /\ ncli' = ncli
        /\ heldBy'[on[c]] = heldBy[on[c]] \ {lk[on[c]]}
    BY Zenon, <1>5, <1>0, <1>00 DEF ReleaseUnlock, SpinTypes, SpinGoto, cpuVars
  <2>2. lk[on[c]] \in heldBy[on[c]]
    BY Zenon, <1>0, <2>1, <1>00 DEF LkInv, Owning
  <2>3. Cardinality(heldBy[on[c]] \ {lk[on[c]]}) = Cardinality(heldBy[on[c]]) - 1
    BY Zenon, <1>0, <2>2, FS_RemoveElement
  <2> QED
    BY <1>0, <1>00, <2>1, <2>3 DEF CpuCount, Pending
<1>6. ASSUME Popcli(c) PROVE CpuCount(c)'
  <2>1. ~FL_IF[c] /\ ncli[c] >= 1 /\ ncli[c] \in Nat
    BY Zenon, <1>0, <1>6, ChecksPass
  <2>2. /\ ncli' = [ncli EXCEPT ![c] = @ - 1] /\ lpc' = [lpc EXCEPT ![on[c]] = "run"]
        /\ FL_IF' = [FL_IF EXCEPT ![c] = ncli[c] = 1 /\ intena[c]]
        /\ lpc[on[c]] = "popcli" /\ UNCHANGED <<intena, on, heldBy, handler, saved, fresh>>
    BY <1>6, <2>1, <1>00, <1>0 DEF Popcli, SpinGoto, threadVars
  <2>3. ncli'[c] = ncli[c] - 1 /\ lpc'[on[c]] = "run"
    BY Zenon, <2>1, <2>2, <1>00, <1>0 DEF SpinTypes
  <2> QED
    BY <1>0, <2>1, <2>2, <2>3, <1>00 DEF CpuCount, Pending
<1>7. ASSUME Interrupt(c) PROVE CpuCount(c)'
  BY Zenon, <1>7, <1>0, <1>00 DEF SpinTypes, CpuCount, Pending, Interrupt, lockVars
<1>8. ASSUME Iret(c) PROVE CpuCount(c)'
  BY Zenon, <1>8, <1>00 DEF CpuCount, Pending, Iret, lockVars
<1>9. ASSUME Sched(c) PROVE CpuCount(c)'
  <2>1. ~FL_IF[c] /\ ncli[c] = 1 /\ cpu[ptable] = c
    BY Zenon, <1>9, ChecksPass
  <2>2. ncli'[c] = 1 /\ on'[c] = c /\ heldBy'[c] = {ptable} /\ lpc'[c] = "run"
    BY <1>9, <2>1, <1>00, <1>0 DEF Sched, SpinTypes, cpuVars, Thread
  <2>3. Cardinality({ptable}) = 1
    BY Zenon, FS_Singleton
  <2> QED
    BY <2>2, <2>3 DEF CpuCount, Pending
<1>10. ASSUME UserReturn(c) PROVE CpuCount(c)'
  BY Zenon, <1>10, <1>00 DEF CpuCount, Pending, UserReturn, lockVars
<1>11. ASSUME SchedulerSti(c) PROVE CpuCount(c)'
  BY Zenon, <1>11, <1>0, <1>00 DEF SpinTypes, CpuCount, Pending, SchedulerSti, lockVars, threadVars
<1>12. ASSUME NEW l \in Lock, Acquire(c, l) PROVE CpuCount(c)'
  BY <1>12, <1>0, <1>00 DEF SpinTypes, CpuCount, Pending, Acquire, lockVars, threadVars, SpinGoto, Pushcli
<1>13. ASSUME NEW l \in Lock, Release(c, l) PROVE CpuCount(c)'
  <2>1. locked[l] /\ cpu[l] = c
    BY Zenon, <1>13, ChecksPass
  <2> QED
    BY <1>13, <2>1, <1>00, <1>0 DEF SpinTypes, CpuCount, Pending, Release, cpuVars, threadVars, SpinGoto
<1>14. ASSUME NEW p \in Proc, Resume(c, p) PROVE CpuCount(c)'
  <2>1. /\ on[c] = c /\ lpc[c] = "run" /\ heldBy[c] = {ptable} /\ ncli' = ncli
        /\ on'[c] = p /\ heldBy'[p] = {ptable} /\ lpc'[p] = "run"
    BY <1>14, <1>00, <1>0 DEF Resume, SpinTypes, Thread
  <2> QED
    BY Zenon, <2>1, <1>00 DEF CpuCount, Pending
<1> QED
  BY Zenon, <1>1, <1>2, <1>3, <1>4, <1>5, <1>6, <1>7, <1>8, <1>9, <1>10, <1>11, <1>12, <1>13, <1>14 DEF SpinStep

(* The CPU that moves: interrupts are on only outside of all locks. *)
LEMMA FlagStep ==
  ASSUME SpinInv, NEW c \in CPU, SpinStep(c)
  PROVE  CpuFlag(c)'
<1> USE SpinAssumption
<1>0. SpinTypes /\ CpuFlag(c)
  BY Zenon DEF SpinInv
<1>1. ASSUME AcquireHolding(c) PROVE CpuFlag(c)'
  BY Zenon, <1>1, <1>0 DEF SpinTypes, CpuFlag, AcquireHolding, lockVars, cpuVars, threadVars, SpinGoto
<1>2. ASSUME AcquireOwner(c) PROVE CpuFlag(c)'
  BY Zenon, <1>2, <1>0 DEF SpinTypes, CpuFlag, AcquireOwner, lockVars, cpuVars, threadVars, SpinGoto
<1>3. ASSUME AcquireXchg(c) PROVE CpuFlag(c)'
  BY Zenon, <1>3, <1>0 DEF SpinTypes, CpuFlag, AcquireXchg, cpuVars, SpinGoto
<1>4. ASSUME AcquireRecord(c) PROVE CpuFlag(c)'
  BY Zenon, <1>4, <1>0 DEF SpinTypes, CpuFlag, AcquireRecord, cpuVars, threadVars, SpinGoto
<1>5. ASSUME ReleaseUnlock(c) PROVE CpuFlag(c)'
  BY Zenon, <1>5, <1>0 DEF SpinTypes, CpuFlag, ReleaseUnlock, cpuVars, SpinGoto
<1>6. ASSUME Popcli(c) PROVE CpuFlag(c)'
  <2>1. ~FL_IF[c] /\ ncli[c] >= 1 /\ ncli[c] \in Nat
    BY <1>6, ChecksPass DEF SpinInv, SpinTypes
  <2>2. /\ ncli' = [ncli EXCEPT ![c] = @ - 1] /\ lpc' = [lpc EXCEPT ![on[c]] = "run"]
        /\ FL_IF' = [FL_IF EXCEPT ![c] = ncli[c] = 1 /\ intena[c]]
        /\ lpc[on[c]] = "popcli" /\ UNCHANGED <<intena, on, heldBy, handler, saved, fresh>>
    BY <1>6, <2>1 DEF Popcli, SpinGoto, threadVars
  <2>3. ncli'[c] = ncli[c] - 1 /\ lpc'[on[c]] = "run"
    BY Zenon, <2>1, <2>2 DEF SpinInv, SpinTypes
  <2>4. FL_IF'[c] => ncli[c] = 1
    BY <2>2, Zenon DEF SpinInv, SpinTypes
  <2> QED
    BY <2>1, <2>3, <2>4 DEF CpuFlag
<1>7. ASSUME Interrupt(c) PROVE CpuFlag(c)'
  BY Zenon, <1>7, <1>0 DEF SpinTypes, CpuFlag, Interrupt, lockVars
<1>8. ASSUME Iret(c) PROVE CpuFlag(c)'
  <2>1. heldBy[on[c]] = {} /\ lpc[on[c]] = "run" /\ ncli' = ncli
    BY Zenon, <1>8 DEF Iret
  <2>2. ncli[c] = 0
    BY Zenon, <2>1, NothingHeld
  <2> QED
    BY Zenon, <2>1, <2>2 DEF CpuFlag
<1>9. ASSUME Sched(c) PROVE CpuFlag(c)'
  <2>1. ~FL_IF[c] /\ ncli[c] = 1 /\ cpu[ptable] = c
    BY Zenon, <1>9, ChecksPass
  <2> QED
    BY Zenon, <1>9, <2>1, <1>0 DEF SpinTypes, CpuFlag, Sched, lockVars, cpuVars, SpinGoto
<1>10. ASSUME UserReturn(c) PROVE CpuFlag(c)'
  <2>1. heldBy[on[c]] = {} /\ lpc[on[c]] = "run" /\ ncli' = ncli
    BY Zenon, <1>10 DEF UserReturn
  <2>2. ncli[c] = 0
    BY Zenon, <2>1, NothingHeld
  <2> QED
    BY Zenon, <2>1, <2>2 DEF CpuFlag
<1>11. ASSUME SchedulerSti(c) PROVE CpuFlag(c)'
  <2>1. heldBy[on[c]] = {} /\ lpc[on[c]] = "run" /\ ncli' = ncli
    BY Zenon, <1>11 DEF SchedulerSti
  <2>2. ncli[c] = 0
    BY Zenon, <2>1, NothingHeld
  <2> QED
    BY Zenon, <2>1, <2>2 DEF CpuFlag
<1>12. ASSUME NEW l \in Lock, Acquire(c, l) PROVE CpuFlag(c)'
  BY Zenon, <1>12, <1>0 DEF SpinTypes, CpuFlag, Acquire, lockVars, threadVars, SpinGoto, Pushcli
<1>13. ASSUME NEW l \in Lock, Release(c, l) PROVE CpuFlag(c)'
  <2>1. locked[l] /\ cpu[l] = c
    BY Zenon, <1>13, ChecksPass
  <2> QED
    BY Zenon, <1>13, <2>1, <1>0 DEF SpinTypes, CpuFlag, Release, cpuVars, threadVars, SpinGoto
<1>14. ASSUME NEW p \in Proc, Resume(c, p) PROVE CpuFlag(c)'
  BY <1>14, <1>0 DEF SpinTypes, CpuFlag, Resume, lockVars
<1> QED
  BY Zenon, <1>1, <1>2, <1>3, <1>4, <1>5, <1>6, <1>7, <1>8, <1>9, <1>10, <1>11, <1>12, <1>13, <1>14 DEF SpinStep

(* The CPU that moves: ncli = 1 at the outermost pushcli() leaves in intena
   the interrupt flag the matching popcli() restores. *)
LEMMA IntenaStep ==
  ASSUME SpinInv, NEW c \in CPU, SpinStep(c)
  PROVE  CpuIntena(c)'
<1> USE SpinAssumption
<1>0. SpinTypes /\ OnInv /\ CpuCount(c) /\ CpuFlag(c) /\ CpuIntena(c) /\ \A p \in Proc : ProcSaved(p)
  BY Zenon DEF SpinInv
<1>1. ASSUME AcquireHolding(c) PROVE CpuIntena(c)'
  BY Zenon, <1>1, <1>0 DEF SpinTypes, OnInv, CpuCount, CpuFlag, CpuIntena, Pending, Thread, AcquireHolding, lockVars, cpuVars, threadVars, SpinGoto
<1>2. ASSUME AcquireOwner(c) PROVE CpuIntena(c)'
  BY Zenon, <1>2, <1>0 DEF SpinTypes, OnInv, CpuCount, CpuFlag, CpuIntena, Pending, Thread, AcquireOwner, lockVars, cpuVars, threadVars, SpinGoto
<1>3. ASSUME AcquireXchg(c) PROVE CpuIntena(c)'
  BY Zenon, <1>3, <1>0 DEF SpinTypes, OnInv, CpuCount, CpuFlag, CpuIntena, Pending, Thread, AcquireXchg, cpuVars, SpinGoto
<1>4. ASSUME AcquireRecord(c) PROVE CpuIntena(c)'
  BY Zenon, <1>4, <1>0 DEF SpinTypes, OnInv, CpuCount, CpuFlag, CpuIntena, Pending, Thread, AcquireRecord, cpuVars, threadVars, SpinGoto
<1>5. ASSUME ReleaseUnlock(c) PROVE CpuIntena(c)'
  BY Zenon, <1>5, <1>0 DEF SpinTypes, OnInv, CpuCount, CpuFlag, CpuIntena, Pending, Thread, ReleaseUnlock, cpuVars, SpinGoto
<1>6. ASSUME Popcli(c) PROVE CpuIntena(c)'
  <2>1. ~FL_IF[c] /\ ncli[c] >= 1 /\ ncli[c] \in Nat
    BY <1>0, <1>6, ChecksPass DEF SpinTypes
  <2>2. /\ ncli' = [ncli EXCEPT ![c] = @ - 1] /\ FL_IF' = [FL_IF EXCEPT ![c] = ncli[c] = 1 /\ intena[c]]
        /\ UNCHANGED <<intena, on, handler, fresh>>
    BY <1>6, <2>1 DEF Popcli, SpinGoto, threadVars
  <2>3. ncli[c] # 0 /\ (ncli'[c] = 0 <=> ncli[c] = 1)
    BY <1>0, <2>1, <2>2 DEF SpinTypes
  <2>4. FL_IF'[c] <=> ncli[c] = 1 /\ intena[c]
    BY Zenon, <1>0, <2>2 DEF SpinTypes
  <2> QED
    BY Zenon, <1>0, <2>2, <2>3, <2>4 DEF CpuIntena
<1>7. ASSUME Interrupt(c) PROVE CpuIntena(c)'
  BY Zenon, <1>7, <1>0 DEF SpinTypes, OnInv, CpuCount, CpuFlag, CpuIntena, Pending, Thread, Interrupt, lockVars
<1>8. ASSUME Iret(c) PROVE CpuIntena(c)'
  <2>1. heldBy[on[c]] = {} /\ lpc[on[c]] = "run"
    BY Zenon, <1>8 DEF Iret
  <2>2. ncli[c] = 0
    BY <2>1, NothingHeld
  <2> QED
    BY Zenon, <1>8, <2>2, <1>0 DEF SpinTypes, OnInv, CpuCount, CpuFlag, CpuIntena, Pending, Thread, Iret, lockVars
<1>9. ASSUME Sched(c) PROVE CpuIntena(c)'
  <2>1. ~FL_IF[c] /\ ncli[c] = 1 /\ cpu[ptable] = c
    BY Zenon, <1>9, ChecksPass
  <2> QED
    BY <1>9, <2>1, <1>0 DEF SpinTypes, OnInv, CpuCount, CpuFlag, CpuIntena, Pending, Thread, Sched, lockVars, cpuVars, SpinGoto
<1>10. ASSUME UserReturn(c) PROVE CpuIntena(c)'
  <2>1. heldBy[on[c]] = {} /\ lpc[on[c]] = "run"
    BY Zenon, <1>10 DEF UserReturn
  <2>2. ncli[c] = 0
    BY Zenon, <2>1, NothingHeld
  <2> QED
    BY Zenon, <1>10, <2>2, <1>0 DEF SpinTypes, OnInv, CpuCount, CpuFlag, CpuIntena, Pending, Thread, UserReturn, lockVars
<1>11. ASSUME SchedulerSti(c) PROVE CpuIntena(c)'
  BY Zenon, <1>11, <1>0 DEF SpinTypes, OnInv, CpuCount, CpuFlag, CpuIntena, Pending, Thread, SchedulerSti, lockVars, threadVars
<1>12. ASSUME NEW l \in Lock, Acquire(c, l) PROVE CpuIntena(c)'
  BY <1>12, <1>0 DEF SpinTypes, OnInv, CpuCount, CpuFlag, CpuIntena, Pending, Thread, Acquire, lockVars, threadVars, SpinGoto, Pushcli
<1>13. ASSUME NEW l \in Lock, Release(c, l) PROVE CpuIntena(c)'
  <2>1. locked[l] /\ cpu[l] = c
    BY Zenon, <1>13, ChecksPass
  <2> QED
    BY Zenon, <1>13, <2>1, <1>0 DEF SpinTypes, OnInv, CpuCount, CpuFlag, CpuIntena, Pending, Thread, Release, cpuVars, threadVars, SpinGoto
<1>14. ASSUME NEW p \in Proc, Resume(c, p) PROVE CpuIntena(c)'
  <2>1. heldBy[c] = {ptable} /\ lpc[c] = "run" /\ on[c] = c /\ ncli' = ncli
    BY Zenon, <1>14 DEF Resume
  <2>2. ncli[c] = Cardinality({ptable}) + 0
    BY Zenon, <2>1 DEF SpinInv, CpuCount, Pending
  <2>3. ncli'[c] = 1
    BY <2>1, <2>2, FS_Singleton
  <2> QED
    BY <1>14, <2>3, <1>0 DEF SpinTypes, CpuIntena, ProcSaved, Thread, Resume
<1> QED
  BY Zenon, <1>1, <1>2, <1>3, <1>4, <1>5, <1>6, <1>7, <1>8, <1>9, <1>10, <1>11, <1>12, <1>13, <1>14 DEF SpinStep

(* sched() keeps intena across swtch(): what a parked process will put back
   when it is resumed is what its own outermost pushcli() saved. *)
LEMMA SavedStep ==
  ASSUME SpinInv, NEW c \in CPU, SpinStep(c)
  PROVE  \A p \in Proc : ProcSaved(p)'
<1> USE SpinAssumption
<1>0. SpinTypes /\ OnInv /\ CpuCount(c) /\ CpuIntena(c) /\ \A p \in Proc : ProcSaved(p)
  BY Zenon DEF SpinInv
<1>1. ASSUME AcquireHolding(c) PROVE \A p \in Proc : ProcSaved(p)'
  BY Zenon, <1>1, <1>0 DEF SpinTypes, OnInv, CpuCount, CpuIntena, ProcSaved, Pending, Thread, AcquireHolding, lockVars, cpuVars, threadVars, SpinGoto
<1>2. ASSUME AcquireOwner(c) PROVE \A p \in Proc : ProcSaved(p)'
  BY Zenon, <1>2, <1>0 DEF SpinTypes, OnInv, CpuCount, CpuIntena, ProcSaved, Pending, Thread, AcquireOwner, lockVars, cpuVars, threadVars, SpinGoto
<1>3. ASSUME AcquireXchg(c) PROVE \A p \in Proc : ProcSaved(p)'
  BY Zenon, <1>3, <1>0 DEF SpinTypes, OnInv, CpuCount, CpuIntena, ProcSaved, Pending, Thread, AcquireXchg, cpuVars, SpinGoto
<1>4. ASSUME AcquireRecord(c) PROVE \A p \in Proc : ProcSaved(p)'
  BY <1>4, <1>0 DEF SpinTypes, OnInv, CpuCount, CpuIntena, ProcSaved, Pending, Thread, AcquireRecord, cpuVars, threadVars, SpinGoto
<1>5. ASSUME ReleaseUnlock(c) PROVE \A p \in Proc : ProcSaved(p)'
  BY Zenon, <1>5, <1>0 DEF SpinTypes, OnInv, CpuCount, CpuIntena, ProcSaved, Pending, Thread, ReleaseUnlock, cpuVars, SpinGoto
<1>6. ASSUME Popcli(c) PROVE \A p \in Proc : ProcSaved(p)'
  <2>1. ~FL_IF[c] /\ ncli[c] >= 1
    BY Zenon, <1>6, ChecksPass
  <2> QED
    BY <1>6, <2>1, <1>0 DEF SpinTypes, OnInv, CpuCount, CpuIntena, ProcSaved, Pending, Thread, Popcli, lockVars, cpuVars, threadVars, SpinGoto
<1>7. ASSUME Interrupt(c) PROVE \A p \in Proc : ProcSaved(p)'
  BY Zenon, <1>7, <1>0 DEF SpinTypes, OnInv, CpuCount, CpuIntena, ProcSaved, Pending, Thread, Interrupt, lockVars
<1>8. ASSUME Iret(c) PROVE \A p \in Proc : ProcSaved(p)'
  BY Zenon, <1>8, <1>0 DEF SpinTypes, OnInv, CpuCount, CpuIntena, ProcSaved, Pending, Thread, Iret, lockVars
<1>9. ASSUME Sched(c) PROVE \A p \in Proc : ProcSaved(p)'
  <2>1. ~FL_IF[c] /\ ncli[c] = 1 /\ cpu[ptable] = c
    BY Zenon, <1>9, ChecksPass
  <2> QED
    BY <1>9, <2>1, <1>0 DEF SpinTypes, OnInv, CpuCount, CpuIntena, ProcSaved, Pending, Thread, Sched, lockVars, cpuVars, SpinGoto
<1>10. ASSUME UserReturn(c) PROVE \A p \in Proc : ProcSaved(p)'
  BY <1>10, <1>0 DEF SpinTypes, OnInv, CpuCount, CpuIntena, ProcSaved, Pending, Thread, UserReturn, lockVars
<1>11. ASSUME SchedulerSti(c) PROVE \A p \in Proc : ProcSaved(p)'
  BY Zenon, <1>11, <1>0 DEF SpinTypes, OnInv, CpuCount, CpuIntena, ProcSaved, Pending, Thread, SchedulerSti, lockVars, threadVars
<1>12. ASSUME NEW l \in Lock, Acquire(c, l) PROVE \A p \in Proc : ProcSaved(p)'
  BY Zenon, <1>12, <1>0 DEF SpinTypes, OnInv, CpuCount, CpuIntena, ProcSaved, Pending, Thread, Acquire, lockVars, threadVars, SpinGoto, Pushcli
<1>13. ASSUME NEW l \in Lock, Release(c, l) PROVE \A p \in Proc : ProcSaved(p)'
  <2>1. locked[l] /\ cpu[l] = c
    BY Zenon, <1>13, ChecksPass
  <2> QED
    BY <1>13, <2>1, <1>0 DEF SpinTypes, OnInv, CpuCount, CpuIntena, ProcSaved, Pending, Thread, Release, cpuVars, threadVars, SpinGoto
<1>14. ASSUME NEW q \in Proc, Resume(c, q) PROVE \A p \in Proc : ProcSaved(p)'
  BY <1>14, <1>0 DEF SpinTypes, OnInv, CpuCount, CpuIntena, ProcSaved, Pending, Thread, Resume, lockVars
<1> QED
  BY Zenon, <1>1, <1>2, <1>3, <1>4, <1>5, <1>6, <1>7, <1>8, <1>9, <1>10, <1>11, <1>12, <1>13, <1>14 DEF SpinStep

(* The initial state: nothing is held and every scheduler is on its CPU. *)
LEMMA InitInv == SpinInit => SpinInv
<1> SUFFICES ASSUME SpinInit PROVE SpinInv
  OBVIOUS
<1> USE SpinAssumption
<1>1. SpinTypes
  BY Zenon DEF SpinInit, SpinTypes, Thread
<1>2. OnInv /\ MutualExclusion /\ WordInv
  BY Zenon DEF SpinInit, OnInv, MutualExclusion, WordInv, Thread
<1>3. LkInv /\ OwnInv
  BY Zenon DEF SpinInit, LkInv, OwnInv, Owning, Thread
<1>4. ASSUME NEW c \in CPU PROVE CpuCount(c) /\ CpuFlag(c) /\ CpuIntena(c)
  <2>1. ncli[c] = 0 /\ on[c] = c /\ heldBy[c] = {} /\ lpc[c] = "run"
    BY DEF SpinInit, Thread
  <2> QED
    BY <2>1, FS_EmptySet DEF CpuCount, CpuFlag, CpuIntena, Pending
<1>5. ASSUME NEW p \in Proc PROVE ProcSaved(p)
  BY Zenon DEF SpinInit, ProcSaved
<1> QED
  BY Zenon, <1>1, <1>2, <1>3, <1>4, <1>5 DEF SpinInv

(* What the invariant says of the CPUs that do not move stays. *)
LEMMA OthersStep ==
  ASSUME SpinInv, NEW c \in CPU, SpinStep(c), NEW d \in CPU, d # c
  PROVE  CpuCount(d)' /\ CpuFlag(d)' /\ CpuIntena(d)'
<1>1. CpuCount(d) /\ CpuFlag(d) /\ CpuIntena(d)
  BY Zenon DEF SpinInv
<1>2. /\ on'[d] = on[d] /\ heldBy'[on[d]] = heldBy[on[d]] /\ lpc'[on[d]] = lpc[on[d]]
      /\ handler'[on[d]] = handler[on[d]] /\ (on[d] # d => fresh'[on[d]] = fresh[on[d]])
      /\ ncli'[d] = ncli[d] /\ FL_IF'[d] = FL_IF[d] /\ intena'[d] = intena[d]
  BY Zenon, OthersKeep
<1>3. CpuCount(d)'
  BY <1>1, <1>2 DEF CpuCount
<1>4. CpuFlag(d)'
  BY Zenon, <1>1, <1>2 DEF CpuFlag
<1>5. CpuIntena(d)'
  BY Zenon, <1>1, <1>2 DEF CpuIntena
<1> QED
  BY Zenon, <1>3, <1>4, <1>5

(* Every step keeps the invariant. *)
LEMMA StepInv == SpinInv /\ [SpinNext]_spinVars => SpinInv'
<1>1. ASSUME SpinInv, NEW c \in CPU, SpinStep(c) PROVE SpinInv'
  <2>1. SpinTypes'
    BY Zenon, <1>1, TypesStep
  <2>2. OnInv'
    BY Zenon, <1>1, <2>1, OnStep
  <2>3. MutualExclusion' /\ WordInv'
    BY Zenon, <1>1, <2>1, HeldStep
  <2>4. LkInv'
    BY Zenon, <1>1, <2>1, LkStep
  <2>5. OwnInv'
    BY Zenon, <1>1, <2>1, OwnStep
  <2>6. ASSUME NEW d \in CPU PROVE CpuCount(d)' /\ CpuFlag(d)' /\ CpuIntena(d)'
    <3>1. CASE d = c
      BY Zenon, <1>1, <2>1, <3>1, CountStep, FlagStep, IntenaStep
    <3>2. CASE d # c
      BY Zenon, <1>1, <2>1, <3>2, OthersStep
    <3> QED
      BY <3>1, <3>2
  <2>7. \A p \in Proc : ProcSaved(p)'
    BY Zenon, <1>1, <2>1, SavedStep
  <2> QED
    BY Zenon, <2>1, <2>2, <2>3, <2>4, <2>5, <2>6, <2>7 DEF SpinInv
<1>2. ASSUME SpinInv, UNCHANGED spinVars PROVE SpinInv'
  BY <1>2 DEF SpinInv, spinVars, SpinTypes, OnInv, MutualExclusion, WordInv, LkInv, OwnInv,
              CpuCount, CpuFlag, CpuIntena, ProcSaved
<1> QED
  BY Zenon, <1>1, <1>2 DEF SpinNext

(* What is checked of spinlock.c follows from the invariant: ncli is at    *)
(* most the number of locks because the lock of a call that has disabled   *)
(* interrupts is not among those already held.                             *)
LEMMA InvSound == SpinInv => InterruptsSound
<1> SUFFICES ASSUME SpinInv PROVE InterruptsSound
  OBVIOUS
<1> USE SpinAssumption
<1>1. ASSUME NEW c \in CPU PROVE ncli[c] \in 0 .. Cardinality(Lock)
  <2>1. /\ on[c] \in Thread /\ lk[on[c]] \in Lock /\ heldBy[on[c]] \in SUBSET Lock /\ ncli[c] \in Nat
        /\ CpuCount(c)
    BY Zenon DEF SpinInv, SpinTypes
  <2>2. /\ IsFiniteSet(heldBy[on[c]]) /\ Cardinality(heldBy[on[c]]) \in Nat /\ Cardinality(Lock) \in Nat
        /\ Cardinality(heldBy[on[c]]) <= Cardinality(Lock)
    BY <2>1, FS_Subset, FS_CardinalityType
  <2>3. CASE lpc[on[c]] \in Pending
    <3>1. lk[on[c]] \notin heldBy[on[c]]
      BY Zenon, <2>1, <2>3 DEF SpinInv, LkInv
    <3>2. Cardinality(heldBy[on[c]] \cup {lk[on[c]]}) = Cardinality(heldBy[on[c]]) + 1
      BY Zenon, <2>1, <2>2, <3>1, FS_AddElement
    <3>3. Cardinality(heldBy[on[c]] \cup {lk[on[c]]}) <= Cardinality(Lock)
      <4>1. heldBy[on[c]] \cup {lk[on[c]]} \in SUBSET Lock
        BY Zenon, <2>1
      <4> QED
        BY Zenon, <4>1, FS_Subset
    <3> QED
      BY <2>1, <2>2, <2>3, <3>2, <3>3 DEF CpuCount
  <2>4. CASE lpc[on[c]] \notin Pending
    BY <2>1, <2>2, <2>4 DEF CpuCount
  <2> QED
    BY Zenon, <2>3, <2>4
<1>2. SpinTypeOK
  BY <1>1 DEF SpinInv, SpinTypes, SpinTypeOK, Pending, Owning
<1>3. NoLockPanic
  BY Zenon DEF SpinInv, SpinTypes, NoLockPanic, Pending, Owning
<1>4. InterruptsRestored
  <2> SUFFICES ASSUME NEW c \in CPU, on[c] # c, ~fresh[on[c]], lpc[on[c]] = "run", heldBy[on[c]] = {}
               PROVE  FL_IF[c] = ~handler[on[c]]
    BY Zenon DEF InterruptsRestored
  <2>1. ncli[c] = 0
    BY Zenon, NothingHeld
  <2>2. FL_IF[c] <=> ~handler[on[c]]
    BY Zenon, <2>1 DEF SpinInv, CpuIntena
  <2>3. FL_IF[c] \in BOOLEAN
    BY Zenon DEF SpinInv, SpinTypes
  <2> QED
    BY Zenon, <2>2, <2>3
<1> QED
  BY Zenon, <1>2, <1>3, <1>4 DEF InterruptsSound

(* acquire, release and sched (spinlock.c, proc.c): however the CPUs        *)
(* interleave and wherever interrupts come, the invariant holds.            *)
THEOREM SpinInvariance == SpinSpec => []SpinInv
<1> QED
  BY InitInv, StepInv, PTL DEF SpinSpec

(* acquire and release (spinlock.c): a lock is held by one thread at a      *)
(* time, for any number of CPUs, processes and locks.                       *)
THEOREM SpinLocksExclude == SpinSpec => []MutualExclusion
<1>1. SpinInv => MutualExclusion
  BY Zenon DEF SpinInv
<1> QED
  BY <1>1, SpinInvariance, PTL

(* pushcli, popcli, sched (spinlock.c, proc.c): no panic of theirs is       *)
(* reached, ncli is at most the number of locks, and a thread outside of    *)
(* its locks has the interrupt flag it had before the first of them,        *)
(* whichever CPU it has moved to.                                           *)
THEOREM SpinInterruptsSound == SpinSpec => []InterruptsSound
<1> QED
  BY InvSound, SpinInvariance, PTL
=============================================================================
