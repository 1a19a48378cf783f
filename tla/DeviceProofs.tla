---------------------------- MODULE DeviceProofs ----------------------------
(***************************************************************************)
(* Pipes, the console and the clock: nobody who sleeps is forgotten, every *)
(* byte and every line arrives in order, and every sleep is long enough,   *)
(* for every word size, buffer size and number of processes.               *)
(***************************************************************************)
EXTENDS MCDevices, SequenceTheorems, TLAPS

(* The provers a leaf without a pragma is given to. *)
USE SMTT(20), ZenonT(20), Z3T(60)

(* The clock. Where a process is, and how a call of sleep measures time:    *)
(* its interrupts are counted by ticks - ticks0 until the count is capped;  *)
(* tickslock is kept from the test to sleep.                                *)
ClockPc == {"unborn", "user", "sys_sleep", "ticks_sleep", "slept", "interrupted"}
ClockProcs ==
  /\ pc \in [Proc -> ClockPc] /\ chan \in [Proc -> {Nobody, "ticks"}] /\ n \in [Proc -> 0 .. TICKWORD - 1]
ClockCounts ==
  \A p \in Proc : pc[p] \in {"sys_sleep", "ticks_sleep"} => elapsed[p] \in {TICKWORD, Ticked(p)}
ClockSleeps ==
  \A p \in Proc :
    /\ tickslock = p <=> pc[p] = "ticks_sleep"
    /\ pc[p] = "ticks_sleep" => Ticked(p) < n[p]
    /\ chan[p] = "ticks" => pc[p] = "sys_sleep"
ClockInv ==
  ClockTypeOK /\ ClockProcs /\ ClockCounts /\ ClockSleeps /\ SleepsLongEnough /\ SleeperNotForgotten

(* The console. A reader keeps cons.lock from its test to sleep; the lock   *)
(* of the inode is held exactly on the way in and out.                      *)
ConsolePc ==
  {"unborn", "user", "read", "write", "read_locked", "write_locked", "consoleread",
   "consoleread_sleep", "consolewrite", "return", "iunlock"}
ConsoleProcs ==
  /\ pc \in [Proc -> ConsolePc] /\ chan \in [Proc -> {Nobody, "input.r"}] /\ n \in [Proc -> Nat]
ConsoleSleeps == \A p \in Proc : pc[p] = "consoleread_sleep" => clock = p /\ r = w
ConsoleLocks == \A p \in Proc : ilk = p <=> pc[p] \in {"read_locked", "write_locked", "iunlock"}
ConsoleInv ==
  /\ ConsoleTypeOK /\ ConsoleProcs /\ LinesInOrder /\ EditorInBounds /\ CursorOnScreen
  /\ ConsoleSleeps /\ ConsoleLocks /\ ReaderNotForgotten

(* The pipe. The counters are the numbers of bytes read and stored, and the *)
(* ring has the bytes between them.                                         *)
PipePc ==
  {"unborn", "user", "piperead", "piperead_sleep", "pipewrite", "pipewrite_sleep",
   "pipeclose_read", "pipeclose_write"}
PipeProcs ==
  /\ pc \in [Proc -> PipePc] /\ chan \in [Proc -> {Nobody, "nread", "nwrite"}] /\ n \in [Proc -> Nat]
  /\ killed \in [Proc -> BOOLEAN]
  /\ \A p \in Proc : Writing(p) => n[p] > 0
PipeRing ==
  /\ taken \in Seq(Nat) /\ data \in [0 .. PIPESIZE - 1 -> Nat]
  /\ Len(taken) <= stored /\ stored <= Len(taken) + PIPESIZE
  /\ nread = Len(taken) % PIPEWORD /\ nwrite = stored % PIPEWORD
  /\ \A k \in 1 .. Len(taken) : taken[k] = k
  /\ \A k \in Nat : Len(taken) < k /\ k <= stored => data[(k - 1) % PIPESIZE] = k

(* Who has an end of the pipe, who closes it, and when the page is freed.   *)
EndsAt(p) ==
  /\ Reading(p) => p \in rend
  /\ Writing(p) => p \in wend
  /\ pc[p] = "unborn" => p \notin rend /\ p \notin wend
  /\ pc[p] = "pipeclose_read" => rend = {} /\ readopen
  /\ pc[p] = "pipeclose_write" => wend = {} /\ writeopen
PipeEndsInv ==
  /\ \A p \in Proc : EndsAt(p)
  /\ \A p, q \in Proc : pc[p] = pc[q] /\ Closing(p) => p = q
  /\ (rend # {} => readopen) /\ (wend # {} => writeopen)
  /\ pfreed = (IF readopen \/ writeopen THEN 0 ELSE 1)

(* The lock is kept from the test to sleep, and what was tested still holds. *)
SomeKilled == \E q \in Proc : killed[q]
SleepsAt(p) ==
  /\ plock = p <=> pc[p] \in {"piperead_sleep", "pipewrite_sleep"}
  /\ pc[p] = "piperead_sleep" => writeopen /\ Empty
  /\ pc[p] = "pipewrite_sleep" => readopen /\ Full
  /\ chan[p] = "nread" => pc[p] = "piperead" /\ writeopen /\ (Empty \/ SomeKilled)
  /\ chan[p] = "nwrite" => pc[p] = "pipewrite" /\ readopen /\ Full
PipeSleeps == \A p \in Proc : SleepsAt(p)
PipeInv == PipeTypeOK /\ PipeProcs /\ PipeRing /\ PipeEndsInv /\ PipeSleeps

(* The inductive invariant: the part that moves keeps its own invariant,    *)
(* the others are as they were initially.                                   *)
DevInv ==
  /\ part \in {"pipe", "console", "clock"}
  /\ IF part = "pipe" THEN PipeInv ELSE PipeInit
  /\ IF part = "console" THEN ConsoleInv ELSE ConsoleInit
  /\ IF part = "clock" THEN ClockInv ELSE ClockInit
-----------------------------------------------------------------------------
(* Arithmetic modulo a word. *)

LEMMA ModUnique ==
  ASSUME NEW m \in Nat \ {0}, NEW x \in Int, NEW k \in Int, NEW y \in 0 .. m - 1, x = m * k + y
  PROVE  x % m = y
<1> DEFINE q == x \div m
<1>1. q \in Int /\ x % m \in 0 .. m - 1 /\ x = m * q + (x % m)
  OBVIOUS
<1> HIDE DEF q
<1>2. m * (q - k) = y - (x % m)
  BY <1>1
<1>3. q - k >= 1 => m * (q - k) >= m
  BY <1>1
<1>4. q - k <= -1 => m * (q - k) <= -m
  BY <1>1
<1> QED
  BY <1>1, <1>2, <1>3, <1>4

LEMMA ModShift ==
  ASSUME NEW m \in Nat \ {0}, NEW x \in Int, NEW k \in Int
  PROVE  (x + m * k) % m = x % m
<1> DEFINE q == x \div m
           y == x % m
<1>1. q \in Int /\ y \in 0 .. m - 1 /\ x = m * q + y
  OBVIOUS
<1> HIDE DEF q, y
<1>2. x + m * k \in Int /\ q + k \in Int /\ x + m * k = m * (q + k) + y
  BY <1>1
<1>3. (x + m * k) % m = y
  BY Zenon, <1>1, <1>2, ModUnique
<1> QED
  BY Zenon, <1>3 DEF y

LEMMA ModMod ==
  ASSUME NEW b \in Nat \ {0}, NEW m \in Nat \ {0}, m % b = 0, NEW x \in Int, NEW i \in Int
  PROVE  ((x % m) + i) % b = (x + i) % b
<1> DEFINE q == x \div m
           d == m \div b
           y == x % m
<1>1. q \in Int /\ y \in Int /\ x = m * q + y
  OBVIOUS
<1>2. d \in Int /\ m = b * d
  OBVIOUS
<1> HIDE DEF q, d, y
<1>3. PICK z \in Int : m * q = b * z
  <2>1. m * q = b * (d * q) /\ d * q \in Int
    BY <1>1, <1>2
  <2> QED
    BY Zenon, <2>1
<1>4. x = b * z + y
  BY Zenon, <1>1, <1>3
<1>5. y + i \in Int /\ x + i = (y + i) + b * z
  BY <1>1, <1>4
<1>6. (x + i) % b = (y + i) % b
  <2>1. \A t \in Int : (t + b * z) % b = t % b
    BY Zenon, ModShift
  <2>2. ((y + i) + b * z) % b = (y + i) % b
    BY Zenon, <1>5, <2>1
  <2> QED
    BY Zenon, <1>5, <2>2
<1> QED
  BY Zenon, <1>6 DEF y

LEMMA ModSub ==
  ASSUME NEW m \in Nat \ {0}, NEW x \in Int, NEW y \in Int
  PROVE  ((x % m) - (y % m)) % m = (x - y) % m
<1> DEFINE q == y \div m
<1>0. m % m = 0
  OBVIOUS
<1>1. q \in Int /\ y = m * q + (y % m) /\ y % m \in Int
  OBVIOUS
<1> HIDE DEF q
<1>2. ((x % m) - (y % m)) % m = (x - (y % m)) % m
  <2>1. -(y % m) \in Int
    BY <1>1
  <2>2. ((x % m) + (-(y % m))) % m = (x + (-(y % m))) % m
    BY Zenon, <1>0, <2>1, ModMod
  <2>3. (x % m) + (-(y % m)) = (x % m) - (y % m) /\ x + (-(y % m)) = x - (y % m)
    BY Zenon, <1>1
  <2> QED
    BY Zenon, <2>2, <2>3
<1>3. x - (y % m) = (x - y) + m * q /\ x - y \in Int
  BY <1>1
<1>4. ((x - y) + m * q) % m = (x - y) % m
  <2>1. \A t \in Int : (t + m * q) % m = t % m
    BY Zenon, <1>1, ModShift
  <2> QED
    BY Zenon, <1>3, <2>1
<1> QED
  BY Zenon, <1>2, <1>3, <1>4

LEMMA WordDiff ==
  ASSUME NEW m \in Nat \ {0}, NEW a \in 0 .. m - 1, NEW b \in 0 .. m - 1
  PROVE  (a - b) % m = IF a >= b THEN a - b ELSE a - b + m
<1>1. a >= b => (a - b) % m = a - b
  OBVIOUS
<1>2. a < b => (a - b) % m = a - b + m
  <2>1. a < b => a - b = m * (-1) + (a - b + m)
    OBVIOUS
  <2> QED
    BY <2>1, ModUnique
<1> QED
  BY <1>1, <1>2

LEMMA WordAdd ==
  ASSUME NEW m \in Nat \ {0}, NEW a \in 0 .. m - 1, NEW k \in 0 .. m
  PROVE  (a + k) % m = IF a + k < m THEN a + k ELSE a + k - m
<1>1. a + k < m => (a + k) % m = a + k
  OBVIOUS
<1>2. a + k >= m => (a + k) % m = a + k - m
  <2>1. a + k >= m => a + k = m * 1 + (a + k - m)
    OBVIOUS
  <2> QED
    BY <2>1, ModUnique
<1> QED
  BY <1>1, <1>2

LEMMA ModDistinct ==
  ASSUME NEW m \in Nat \ {0}, NEW a \in Int, NEW b \in Int, a < b, b < a + m
  PROVE  a % m # b % m
<1> DEFINE p == a \div m
           q == b \div m
<1>1. p \in Int /\ q \in Int
  OBVIOUS
<1>2. a = m * p + (a % m) /\ b = m * q + (b % m)
  OBVIOUS
<1>3. a % m = b % m => b - a = m * (q - p)
  BY <1>1, <1>2
<1>4. q - p <= 0 => m * (q - p) <= 0
  BY <1>1
<1>5. q - p >= 1 => m * (q - p) >= m
  BY <1>1
<1> QED
  BY <1>1, <1>3, <1>4, <1>5

-----------------------------------------------------------------------------
(* The clock. *)

LEMMA TickedRange ==
  ASSUME ClockTypeOK, NEW p \in Proc
  PROVE  /\ Ticked(p) \in 0 .. TICKWORD - 1
         /\ ticks = ticks0[p] => Ticked(p) = 0
  BY ClockAssumption, WordDiff DEF ClockTypeOK, Ticked

(* An interrupt adds one to the unsigned difference, modulo the word. *)
LEMMA TickedNext ==
  ASSUME ClockTypeOK, NEW p \in Proc, ticks' = (ticks + 1) % TICKWORD, ticks0' = ticks0
  PROVE  Ticked(p)' = IF Ticked(p) + 1 = TICKWORD THEN 0 ELSE Ticked(p) + 1
<1> DEFINE t == ticks
           u == (ticks + 1) % TICKWORD
           z == ticks0[p]
<1>0. TICKWORD \in Nat \ {0} /\ t \in 0 .. TICKWORD - 1 /\ z \in 0 .. TICKWORD - 1
     /\ 1 \in 0 .. TICKWORD
  BY ClockAssumption DEF ClockTypeOK
<1>1. u = IF t + 1 < TICKWORD THEN t + 1 ELSE t + 1 - TICKWORD
  BY Zenon, <1>0, WordAdd
<1>2. u \in 0 .. TICKWORD - 1
  BY <1>0, <1>1
<1>3. (u - z) % TICKWORD = IF u >= z THEN u - z ELSE u - z + TICKWORD
  BY Zenon, <1>0, <1>2, WordDiff
<1>4. (t - z) % TICKWORD = IF t >= z THEN t - z ELSE t - z + TICKWORD
  BY Zenon, <1>0, WordDiff
<1>5. Ticked(p)' = (u - z) % TICKWORD /\ Ticked(p) = (t - z) % TICKWORD
  BY Zenon DEF Ticked
<1> HIDE DEF u, t, z
<1> QED
  BY <1>0, <1>1, <1>3, <1>4, <1>5

(* The timer interrupt keeps what the sleeping calls rely on. *)
LEMMA TimerKeeps ==
  ASSUME ClockInv, Timer
  PROVE  ClockInv'
<1>0. ClockTypeOK /\ ClockProcs /\ ClockCounts /\ ClockSleeps /\ SleepsLongEnough /\ SleeperNotForgotten
  BY Zenon DEF ClockInv
<1>1. ClockTypeOK'
  <2>1. (ticks + 1) % TICKWORD \in 0 .. TICKWORD - 1
    BY <1>0, ClockAssumption, WordAdd DEF ClockTypeOK
  <2> QED
    BY <1>0, <2>1, ClockAssumption DEF ClockTypeOK, Timer
<1>2. ClockProcs'
  BY Zenon, <1>0 DEF ClockProcs, Timer, Wakeup, Woken
<1>3. ClockCounts'
  <2> SUFFICES ASSUME NEW p \in Proc, pc[p] \in {"sys_sleep", "ticks_sleep"}
               PROVE  elapsed'[p] \in {TICKWORD, Ticked(p)'}
    BY Zenon DEF ClockCounts, Timer
  <2>1. pc[p] = "sys_sleep"
    BY Zenon, <1>0, BlockingAssumption DEF Timer, ClockSleeps
  <2>2. Ticked(p)' = IF Ticked(p) + 1 = TICKWORD THEN 0 ELSE Ticked(p) + 1
    BY Zenon, <1>0, TickedNext DEF Timer
  <2>3. elapsed[p] \in {TICKWORD, Ticked(p)} /\ Ticked(p) \in 0 .. TICKWORD - 1
    BY Zenon, <1>0, <2>1, TickedRange DEF ClockCounts
  <2>4. elapsed'[p] = IF elapsed[p] < TICKWORD THEN elapsed[p] + 1 ELSE elapsed[p]
    BY Zenon, <2>1 DEF Timer
  <2> QED
    BY <2>2, <2>3, <2>4, ClockAssumption
<1>4. ClockSleeps'
  <2>1. \A p \in Proc : pc[p] # "ticks_sleep" /\ chan'[p] # "ticks"
    BY Zenon, <1>0, BlockingAssumption DEF Timer, ClockSleeps, Wakeup, Woken
  <2> QED
    BY Zenon, <1>0, <2>1 DEF Timer, ClockSleeps
<1>5. SleepsLongEnough'
  BY Zenon, <1>0 DEF SleepsLongEnough, Timer
<1>6. SleeperNotForgotten'
  BY Zenon, <1>0, BlockingAssumption DEF SleeperNotForgotten, Timer, Wakeup, Woken
<1> QED
  BY Zenon, <1>1, <1>2, <1>3, <1>4, <1>5, <1>6 DEF ClockInv

(* So do the steps of sys_sleep, and kill. *)
LEMMA SysSleepKeeps ==
  ASSUME ClockInv, NEW p \in Proc, SysSleepTest(p) \/ SysSleepSleep(p)
  PROVE  ClockInv'
<1>0. ClockTypeOK /\ ClockProcs /\ ClockCounts /\ ClockSleeps /\ SleepsLongEnough /\ SleeperNotForgotten
  BY Zenon DEF ClockInv
<1>00. \A q \in Proc : Ticked(q)' = Ticked(q)
  BY Zenon DEF Ticked, SysSleepTest, SysSleepSleep
<1>1. ASSUME SysSleepTest(p) PROVE ClockInv'
  <2>1. ClockTypeOK' /\ ClockProcs'
    BY Zenon, <1>0, <1>1 DEF ClockTypeOK, ClockProcs, ClockPc, SysSleepTest, Goto
  <2>2. ClockCounts'
    BY Zenon, <1>0, <1>1, <1>00 DEF ClockProcs, ClockCounts, SysSleepTest, Goto, Running
  <2>3. ClockSleeps'
    <3>0. tickslock = Nobody /\ chan[p] = Nobody /\ Nobody # "ticks" /\ Nobody \notin Proc /\ pc[p] = "sys_sleep"
      BY Zenon, <1>1, BlockingAssumption DEF SysSleepTest, Running
    <3>00. Ticked(p) \in 0 .. TICKWORD - 1 /\ n[p] \in 0 .. TICKWORD - 1
      BY Zenon, <1>0, TickedRange DEF ClockProcs
    <3>1. CASE pc' = [pc EXCEPT ![p] = "ticks_sleep"] /\ tickslock' = p /\ Ticked(p) < n[p]
      BY Zenon, <1>0, <1>1, <1>00, <3>0, <3>1 DEF ClockProcs, ClockSleeps, SysSleepTest
    <3>2. CASE /\ pc' = [pc EXCEPT ![p] = "slept"] \/ pc' = [pc EXCEPT ![p] = "interrupted"]
               /\ UNCHANGED tickslock
      BY <1>0, <1>1, <1>00, <3>0, <3>2 DEF ClockProcs, ClockSleeps, SysSleepTest
    <3> QED
      BY <1>1, <3>1, <3>2, <3>00 DEF SysSleepTest, Goto
  <2>4. SleepsLongEnough'
    <3>1. Ticked(p) \in 0 .. TICKWORD - 1 /\ n[p] \in 0 .. TICKWORD - 1 /\ elapsed[p] \in {TICKWORD, Ticked(p)}
      BY Zenon, <1>0, <1>1, TickedRange DEF ClockProcs, ClockCounts, SysSleepTest, Running
    <3>2. Ticked(p) >= n[p] => elapsed[p] >= n[p]
      BY <3>1, ClockAssumption
    <3> QED
      BY Zenon, <1>0, <1>1, <3>2 DEF ClockProcs, SleepsLongEnough, SysSleepTest, Goto
  <2>5. SleeperNotForgotten'
    BY Zenon, <1>0, <1>1, <1>00 DEF SleeperNotForgotten, SysSleepTest
  <2> QED
    BY Zenon, <2>1, <2>2, <2>3, <2>4, <2>5 DEF ClockInv
<1>2. ASSUME SysSleepSleep(p) PROVE ClockInv'
  <2>1. ClockTypeOK' /\ ClockProcs'
    BY Zenon, <1>0, <1>2 DEF ClockTypeOK, ClockProcs, ClockPc, SysSleepSleep, Goto, SleepOn
  <2>2. ClockCounts'
    BY Zenon, <1>0, <1>2, <1>00 DEF ClockProcs, ClockCounts, SysSleepSleep, Goto
  <2>3. ClockSleeps'
    BY Zenon, <1>0, <1>2, <1>00, BlockingAssumption DEF ClockProcs, ClockSleeps, SysSleepSleep, Goto, SleepOn
  <2>4. SleepsLongEnough'
    BY Zenon, <1>0, <1>2 DEF ClockProcs, SleepsLongEnough, SysSleepSleep, Goto
  <2>5. SleeperNotForgotten'
    BY Zenon, <1>0, <1>2, <1>00 DEF ClockProcs, ClockSleeps, SleeperNotForgotten, SysSleepSleep, SleepOn
  <2> QED
    BY Zenon, <2>1, <2>2, <2>3, <2>4, <2>5 DEF ClockInv
<1> QED
  BY Zenon, <1>1, <1>2

LEMMA SleepCallKeeps ==
  ASSUME ClockInv, NEW p \in Proc, NEW k \in 0 .. TICKWORD - 1,
         SysSleepCall(p, k) \/ SysSleepReturn(p) \/ (Kill(p) /\ UNCHANGED clockVars)
  PROVE  ClockInv'
<1>0. ClockTypeOK /\ ClockProcs /\ ClockCounts /\ ClockSleeps /\ SleepsLongEnough /\ SleeperNotForgotten
  BY Zenon DEF ClockInv
<1>00. 0 \in 0 .. TICKWORD - 1 /\ 0 \in 0 .. TICKWORD
  BY ClockAssumption
<1>1. ASSUME SysSleepCall(p, k) PROVE ClockInv'
  <2>0. \A q \in Proc : q # p => Ticked(q)' = Ticked(q)
    BY Zenon, <1>0, <1>1 DEF Ticked, SysSleepCall, ClockTypeOK
  <2>1. ClockTypeOK' /\ ClockProcs'
    BY Zenon, <1>0, <1>00, <1>1 DEF ClockTypeOK, ClockProcs, ClockPc, SysSleepCall, Goto
  <2>2. ticks' = ticks0'[p] /\ elapsed'[p] = 0
    BY Zenon, <1>0, <1>1 DEF ClockTypeOK, SysSleepCall
  <2>3. Ticked(p)' = 0
    <3>1. ticks' = ticks /\ ticks \in 0 .. TICKWORD - 1
      BY Zenon, <1>0, <1>1 DEF ClockTypeOK, SysSleepCall
    <3>2. Ticked(p)' = (ticks - ticks) % TICKWORD
      BY Zenon, <2>2, <3>1 DEF Ticked
    <3> QED
      BY <3>1, <3>2, ClockAssumption
  <2>4. ClockCounts'
    BY Zenon, <1>0, <1>1, <2>0, <2>2, <2>3 DEF ClockTypeOK, ClockProcs, ClockCounts, SysSleepCall, Goto
  <2>5. ClockSleeps'
    BY Zenon, <1>0, <1>1, <2>0, BlockingAssumption DEF ClockProcs, ClockSleeps, SysSleepCall, Goto, User
  <2>6. SleepsLongEnough'
    BY Zenon, <1>0, <1>1 DEF ClockTypeOK, ClockProcs, SleepsLongEnough, SysSleepCall, Goto
  <2>7. SleeperNotForgotten'
    <3>1. chan[p] # "ticks"
      BY Zenon, <1>0, <1>1 DEF ClockSleeps, SysSleepCall, User
    <3> QED
      BY Zenon, <1>0, <1>1, <2>0, <3>1 DEF ClockProcs, SleeperNotForgotten, SysSleepCall
  <2> QED
    BY Zenon, <2>1, <2>4, <2>5, <2>6, <2>7 DEF ClockInv
<1>2. ASSUME SysSleepReturn(p) PROVE ClockInv'
  <2>0. \A q \in Proc : q # p => Ticked(q)' = Ticked(q)
    BY Zenon, <1>0, <1>2 DEF Ticked, SysSleepReturn, ClockTypeOK
  <2>1. ClockTypeOK' /\ ClockProcs'
    BY Zenon, <1>0, <1>00, <1>2 DEF ClockTypeOK, ClockProcs, ClockPc, SysSleepReturn, Goto
  <2>2. ClockCounts'
    BY Zenon, <1>0, <1>2, <2>0 DEF ClockTypeOK, ClockProcs, ClockCounts, SysSleepReturn, Goto
  <2>3. ClockSleeps'
    BY <1>0, <1>2, <2>0 DEF ClockProcs, ClockSleeps, SysSleepReturn, Goto
  <2>4. SleepsLongEnough'
    BY Zenon, <1>0, <1>2 DEF ClockTypeOK, ClockProcs, SleepsLongEnough, SysSleepReturn, Goto
  <2>5. SleeperNotForgotten'
    BY Zenon, <1>0, <1>2, <2>0 DEF ClockProcs, ClockSleeps, SleeperNotForgotten, SysSleepReturn
  <2> QED
    BY Zenon, <2>1, <2>2, <2>3, <2>4, <2>5 DEF ClockInv
<1>3. ASSUME Kill(p), UNCHANGED clockVars PROVE ClockInv'
  <2>0. \A q \in Proc : Ticked(q)' = Ticked(q)
    BY Zenon, <1>3 DEF Ticked, clockVars
  <2>1. ClockTypeOK' /\ ClockProcs'
    BY Zenon, <1>0, <1>3 DEF ClockTypeOK, ClockProcs, Kill, clockVars
  <2>2. ClockCounts'
    BY Zenon, <1>0, <1>3, <2>0 DEF ClockCounts, Kill, clockVars
  <2>3. ClockSleeps' /\ SleeperNotForgotten'
    BY <1>0, <1>3, <2>0, BlockingAssumption DEF ClockProcs, ClockSleeps, SleeperNotForgotten, Kill, clockVars
  <2>4. SleepsLongEnough'
    BY Zenon, <1>0, <1>3 DEF SleepsLongEnough, Kill, clockVars
  <2> QED
    BY Zenon, <2>1, <2>2, <2>3, <2>4 DEF ClockInv
<1> QED
  BY Zenon, <1>1, <1>2, <1>3

LEMMA ClockKeeps ==
  ASSUME ClockInv, ClockNext
  PROVE  ClockInv'
  BY ClockAssumption, TimerKeeps, SysSleepKeeps, SleepCallKeeps DEF ClockNext

-----------------------------------------------------------------------------
(* The console: its buffer and its cursor. *)

LEMMA InputConsts ==
  /\ INPUT_BUF \in Nat \ {0} /\ INPUTWORD \in Nat \ {0}
  /\ INPUT_BUF < INPUTWORD /\ INPUTWORD % INPUT_BUF = 0
  BY ConsoleAssumption

(* The word arithmetic of r, w and e. *)
InputIndex == 0 .. INPUTWORD - 1
LEMMA InputWords ==
  /\ \A x, y \in InputIndex : Word(y - x) = (IF y >= x THEN y - x ELSE y - x + INPUTWORD)
  /\ \A x \in InputIndex, k \in 0 .. INPUTWORD :
       Word(x + k) = (IF x + k < INPUTWORD THEN x + k ELSE x + k - INPUTWORD)
  /\ \A x \in Int : Word(x) \in InputIndex
<1>1. INPUTWORD \in Nat \ {0}
  BY Zenon, InputConsts
<1>2. \A x \in Int : Word(x) \in InputIndex
  BY <1>1 DEF Word, InputIndex
<1> QED
  BY Zenon, <1>1, <1>2, WordDiff, WordAdd DEF Word, InputIndex

(* A slot of the buffer depends on an index only modulo the word. *)
LEMMA AtWord ==
  ASSUME NEW x \in Int, NEW i \in Int
  PROVE  (Word(x) + i) % INPUT_BUF = (x + i) % INPUT_BUF
  BY Zenon, InputConsts, ModMod DEF Word

(* The distances between the three indices. *)
LEMMA Distances ==
  ASSUME ConsoleTypeOK, EditorInBounds
  PROVE  /\ r \in InputIndex /\ w \in InputIndex /\ e \in InputIndex
         /\ Word(w - r) \in Nat /\ Word(e - r) \in Nat /\ Word(e - w) = Word(e - r) - Word(w - r)
         /\ Word(w - r) <= Word(e - r) /\ Word(e - r) <= INPUT_BUF
         /\ w = Word(r + Word(w - r)) /\ e = Word(r + Word(e - r))
         /\ (Word(w - r) = 0 <=> w = r) /\ (Word(e - w) = 0 <=> e = w)
<1>1. r \in InputIndex /\ w \in InputIndex /\ e \in InputIndex
  BY Zenon DEF ConsoleTypeOK, InputIndex
<1>2. Word(w - r) <= Word(e - r) /\ Word(e - r) <= INPUT_BUF
  BY Zenon DEF EditorInBounds
<1>3. /\ Word(w - r) = IF w >= r THEN w - r ELSE w - r + INPUTWORD
      /\ Word(e - r) = IF e >= r THEN e - r ELSE e - r + INPUTWORD
      /\ Word(e - w) = IF e >= w THEN e - w ELSE e - w + INPUTWORD
  BY Zenon, <1>1, InputWords
<1>4. Word(w - r) \in 0 .. INPUTWORD /\ Word(e - r) \in 0 .. INPUTWORD
  BY <1>1, <1>3, InputConsts DEF InputIndex
<1>5. \A k \in 0 .. INPUTWORD : Word(r + k) = IF r + k < INPUTWORD THEN r + k ELSE r + k - INPUTWORD
  BY Zenon, <1>1, InputWords
<1>6. w = Word(r + Word(w - r)) /\ e = Word(r + Word(e - r))
  <2>1. /\ Word(r + Word(w - r)) = IF r + Word(w - r) < INPUTWORD THEN r + Word(w - r) ELSE r + Word(w - r) - INPUTWORD
        /\ Word(r + Word(e - r)) = IF r + Word(e - r) < INPUTWORD THEN r + Word(e - r) ELSE r + Word(e - r) - INPUTWORD
    BY Zenon, <1>4, <1>5
  <2> QED
    BY <1>1, <1>3, <2>1, InputConsts DEF InputIndex
<1> QED
  BY <1>1, <1>2, <1>3, <1>4, <1>6, InputConsts DEF InputIndex

(* e goes back by k, not past w, or on by one. *)
LEMMA EditMoves ==
  ASSUME ConsoleTypeOK, EditorInBounds
  PROVE  /\ \A k \in 0 .. Word(e - w) : /\ Word(e - k) \in InputIndex
                                        /\ Word(Word(e - k) - r) = Word(e - r) - k
                                        /\ k = 0 => Word(e - k) = e
         /\ Word(e - r) < INPUT_BUF => /\ Word(e + 1) \in InputIndex
                                       /\ Word(Word(e + 1) - r) = Word(e - r) + 1
                                       /\ Word(e - r) + 1 = INPUT_BUF => Word(e + 1) = Word(r + INPUT_BUF)
<1>0. /\ r \in InputIndex /\ w \in InputIndex /\ e \in InputIndex
      /\ Word(e - w) = Word(e - r) - Word(w - r) /\ Word(w - r) \in Nat /\ Word(e - r) <= INPUT_BUF
  BY Zenon, Distances
<1>1. Word(e - r) = IF e >= r THEN e - r ELSE e - r + INPUTWORD
  BY Zenon, <1>0, InputWords
<1>2. ASSUME NEW k \in 0 .. Word(e - w)
      PROVE  /\ Word(e - k) \in InputIndex /\ Word(Word(e - k) - r) = Word(e - r) - k
             /\ k = 0 => Word(e - k) = e
  <2>1. k \in InputIndex
    BY <1>0, <1>1, InputConsts DEF InputIndex
  <2>2. Word(e - k) = IF e >= k THEN e - k ELSE e - k + INPUTWORD
    BY Zenon, <1>0, <2>1, InputWords
  <2>3. Word(e - k) \in InputIndex
    BY <1>0, <2>1, <2>2, InputConsts DEF InputIndex
  <2>4. Word(Word(e - k) - r) = IF Word(e - k) >= r THEN Word(e - k) - r ELSE Word(e - k) - r + INPUTWORD
    BY Zenon, <1>0, <2>3, InputWords
  <2>5. k <= Word(e - r)
    BY <1>0, <1>1, InputConsts DEF InputIndex
  <2> QED
    BY <1>0, <1>1, <2>1, <2>2, <2>3, <2>4, <2>5, InputConsts DEF InputIndex
<1>3. ASSUME Word(e - r) < INPUT_BUF
      PROVE  /\ Word(e + 1) \in InputIndex /\ Word(Word(e + 1) - r) = Word(e - r) + 1
             /\ Word(e - r) + 1 = INPUT_BUF => Word(e + 1) = Word(r + INPUT_BUF)
  <2>0. 1 \in 0 .. INPUTWORD /\ INPUT_BUF \in 0 .. INPUTWORD
    BY InputConsts
  <2>1. Word(e + 1) = IF e + 1 < INPUTWORD THEN e + 1 ELSE e + 1 - INPUTWORD
    BY Zenon, <1>0, <2>0, InputWords
  <2>2. Word(e + 1) \in InputIndex
    BY <1>0, <2>1, InputConsts DEF InputIndex
  <2>3. Word(Word(e + 1) - r) = IF Word(e + 1) >= r THEN Word(e + 1) - r ELSE Word(e + 1) - r + INPUTWORD
    BY Zenon, <1>0, <2>2, InputWords
  <2>4. Word(r + INPUT_BUF) = IF r + INPUT_BUF < INPUTWORD THEN r + INPUT_BUF ELSE r + INPUT_BUF - INPUTWORD
    BY Zenon, <1>0, <2>0, InputWords
  <2> QED
    BY <1>0, <1>1, <1>3, <2>1, <2>2, <2>3, <2>4, InputConsts DEF InputIndex
<1> QED
  BY Zenon, <1>2, <1>3

(* cgaputc keeps the cursor above the last row, so does erasing. *)
LEMMA CursorStays ==
  ASSUME NEW x \in 0 .. (ROWS - 1) * COLS - 1
  PROVE  /\ \A c : Cgaputc(x, c) \in 0 .. (ROWS - 1) * COLS - 1
         /\ \A k \in Nat : Erased(x, k) \in 0 .. (ROWS - 1) * COLS - 1
<1> DEFINE L == (ROWS - 1) * COLS
<1>0. COLS \in Nat \ {0} /\ ROWS \in Nat /\ ROWS > 1 /\ x \in Nat
  BY ConsoleAssumption
<1>1. L \in Nat /\ L >= COLS /\ x < L
  <2>1. (ROWS - 1) * COLS >= COLS
    BY <1>0
  <2> QED
    BY <1>0, <2>1
<1>2. ASSUME NEW y \in Nat PROVE y \div COLS >= ROWS - 1 <=> y >= L
  <2> DEFINE q == y \div COLS
  <2>1. q \in Int /\ y % COLS \in 0 .. COLS - 1 /\ y = COLS * q + (y % COLS)
    BY <1>0
  <2> HIDE DEF q
  <2>2. q >= ROWS - 1 => COLS * q >= (ROWS - 1) * COLS
    BY <1>0, <2>1
  <2>3. q <= ROWS - 2 => COLS * q <= (ROWS - 1) * COLS - COLS
    BY <1>0, <2>1
  <2>4. q >= ROWS - 1 <=> y >= L
    <3> DEFINE z == COLS * q
    <3>1. z \in Int
      BY <1>0, <2>1
    <3> HIDE DEF z, L
    <3>2. (q >= ROWS - 1 => z >= L) /\ (q <= ROWS - 2 => z <= L - COLS) /\ y = z + (y % COLS)
      BY Zenon, <2>1, <2>2, <2>3 DEF z, L
    <3> QED
      BY <1>0, <1>1, <2>1, <3>1, <3>2
  <2> QED
    BY Zenon, <2>4 DEF q
<1>3. x % COLS \in 0 .. COLS - 1 /\ x % COLS <= x
  BY <1>0
<1> HIDE DEF L
<1>4. ASSUME NEW c PROVE Cgaputc(x, c) \in 0 .. L - 1
  <2> DEFINE moved == CASE c = "\n" -> x + COLS - (x % COLS)
                        [] c = "BACKSPACE" -> IF x > 0 THEN x - 1 ELSE x
                        [] OTHER -> x + 1
  <2>1. moved \in Nat /\ (moved >= L => moved - COLS \in 0 .. L - 1)
    BY <1>0, <1>1, <1>3
  <2>2. Cgaputc(x, c) = IF moved \div COLS >= ROWS - 1 THEN moved - COLS ELSE moved
    BY Zenon DEF Cgaputc
  <2> HIDE DEF moved
  <2>3. moved \div COLS >= ROWS - 1 <=> moved >= L
    BY Zenon, <1>2, <2>1
  <2> QED
    BY <1>0, <1>1, <2>1, <2>2, <2>3
<1>5. ASSUME NEW k \in Nat PROVE Erased(x, k) \in 0 .. L - 1
  BY <1>0, <1>1 DEF Erased
<1> QED
  BY Zenon, <1>4, <1>5 DEF L

(* The line editor: what consoleintr does to the buffer. *)
LEMMA LinesAre ==
  ASSUME ConsoleTypeOK, EditorInBounds, LinesInOrder
  PROVE  /\ lines \in Seq(Char) /\ Len(lines) = Word(w - r)
         /\ \A i \in 1 .. Word(w - r) : lines[i] = buf[(r + i - 1) % INPUT_BUF]
<1>1. lines = [i \in 1 .. Word(w - r) |-> buf[(r + i - 1) % INPUT_BUF]]
  BY Zenon DEF LinesInOrder, Between, At
<1>2. Word(w - r) \in Nat /\ r \in InputIndex
  BY Zenon, Distances
<1>3. \A i \in Int : (r + i - 1) % INPUT_BUF \in 0 .. INPUT_BUF - 1
  BY <1>2, InputConsts DEF InputIndex
<1>4. \A i \in 1 .. Word(w - r) : buf[(r + i - 1) % INPUT_BUF] \in Char
  BY <1>2, <1>3 DEF ConsoleTypeOK
<1>5. lines \in [1 .. Word(w - r) -> Char]
  BY Zenon, <1>1, <1>4
<1> QED
  BY <1>1, <1>2, <1>5

LEMMA EraseKeeps ==
  ASSUME ConsoleInv, KillLine \/ Backspace, UNCHANGED <<r, clock, ilk>>
  PROVE  ConsoleTypeOK' /\ LinesInOrder' /\ EditorInBounds' /\ CursorOnScreen' /\ w' = w
<1>0. ConsoleTypeOK /\ LinesInOrder /\ EditorInBounds /\ CursorOnScreen
  BY Zenon DEF ConsoleInv
<1>1. PICK k \in 0 .. Word(e - w) : e' = Word(e - k) /\ UNCHANGED <<buf, w, lines>>
  <2>1. CASE KillLine
    BY Zenon, <2>1 DEF KillLine
  <2>2. CASE Backspace
    <3>1. Word(e - w) \in Nat /\ Word(e - w) # 0
      BY <1>0, <2>2, Distances DEF Backspace
    <3>2. 1 \in 0 .. Word(e - w)
      BY <3>1
    <3> QED
      BY Zenon, <2>2, <3>2 DEF Backspace
  <2> QED
    BY Zenon, <2>1, <2>2
<1>2. CursorOnScreen'
  <2>1. CASE KillLine
    <3>1. PICK i \in 0 .. Word(e - w) : pos' = Erased(pos, i)
      BY Zenon, <2>1 DEF KillLine
    <3>2. i \in Nat
      BY <1>0, Distances
    <3> QED
      BY Zenon, <1>0, <3>1, <3>2, CursorStays DEF CursorOnScreen
  <2>2. CASE Backspace
    BY Zenon, <1>0, <2>2, CursorStays DEF CursorOnScreen, Backspace
  <2> QED
    BY Zenon, <2>1, <2>2
<1>3. /\ e' \in InputIndex /\ Word(e' - r) = Word(e - r) - k /\ (k = 0 => e' = e)
  BY Zenon, <1>0, <1>1, EditMoves
<1>4. ConsoleTypeOK'
  BY Zenon, <1>0, <1>1, <1>3 DEF ConsoleTypeOK, InputIndex
<1>5. LinesInOrder'
  BY Zenon, <1>0, <1>1 DEF LinesInOrder, Between, Word, At
<1>6. EditorInBounds'
  <2>1. /\ Word(e - w) = Word(e - r) - Word(w - r) /\ Word(w - r) \in Nat /\ Word(e - r) \in Nat
        /\ Word(w - r) <= Word(e - r) /\ Word(e - r) <= INPUT_BUF
    BY Zenon, <1>0, Distances
  <2>2. Word(e - r) = INPUT_BUF => w = e
    BY Zenon, <1>0 DEF EditorInBounds
  <2>3. Word(w - r)' = Word(w - r) /\ Word(e - r)' = Word(e - r) - k
    BY Zenon, <1>1, <1>3 DEF Word
  <2> QED
    BY <1>1, <1>3, <2>1, <2>2, <2>3, InputConsts DEF EditorInBounds
<1> QED
  BY Zenon, <1>1, <1>2, <1>4, <1>5, <1>6

(* A character is stored at e, which no committed character occupies. *)
LEMMA InsertKeeps ==
  ASSUME ConsoleInv, NEW c \in Char, Insert(c), UNCHANGED <<r, clock, ilk>>
  PROVE  /\ ConsoleTypeOK' /\ LinesInOrder' /\ EditorInBounds' /\ CursorOnScreen'
         /\ ~Commits(c) => w' = w
<1> DEFINE dw == Word(w - r)
           de == Word(e - r)
           Ring(i) == (r + i) % INPUT_BUF
<1>0. ConsoleTypeOK /\ LinesInOrder /\ EditorInBounds /\ CursorOnScreen
  BY Zenon DEF ConsoleInv
<1>1. /\ r \in InputIndex /\ w \in InputIndex /\ e \in InputIndex /\ r \in Int
      /\ dw \in Nat /\ de \in Nat /\ Word(e - w) = de - dw /\ dw <= de /\ de < INPUT_BUF
      /\ w = Word(r + dw) /\ e = Word(r + de)
  BY <1>0, Distances DEF Insert, InputIndex
<1>2. /\ e' = Word(e + 1) /\ e' \in InputIndex /\ Word(e' - r) = de + 1
      /\ (de + 1 = INPUT_BUF => e' = Word(r + INPUT_BUF))
  BY Zenon, <1>0, <1>1, EditMoves DEF Insert
<1>3. buf' = [buf EXCEPT ![e % INPUT_BUF] = c] /\ r' = r
  BY Zenon DEF Insert
<1>4. \A i \in Int : Ring(i) \in 0 .. INPUT_BUF - 1
  BY <1>1, InputConsts
<1>5. e % INPUT_BUF = Ring(de)
  <2>1. r + de \in Int /\ 0 \in Int
    BY <1>1
  <2>2. (Word(r + de) + 0) % INPUT_BUF = (r + de + 0) % INPUT_BUF
    BY Zenon, <2>1, AtWord
  <2>3. e + 0 = e /\ r + de + 0 = r + de
    BY <1>1 DEF InputIndex
  <2> QED
    BY Zenon, <1>1, <2>2, <2>3
<1>6. ASSUME NEW i \in Nat, i < de PROVE Ring(i) # e % INPUT_BUF
  <2>1. r + i \in Int /\ r + de \in Int /\ r + i < r + de /\ r + de < r + i + INPUT_BUF
    BY <1>1, <1>6, InputConsts
  <2> QED
    BY Zenon, <1>5, <2>1, InputConsts, ModDistinct
<1>7. /\ buf' \in [0 .. INPUT_BUF - 1 -> Char] /\ buf'[Ring(de)] = c
      /\ \A i \in Nat : i < de => buf'[Ring(i)] = buf[Ring(i)]
  <2>0. buf \in [0 .. INPUT_BUF - 1 -> Char] /\ \A i \in Nat : i \in Int
    BY <1>0 DEF ConsoleTypeOK
  <2>1. buf \in [0 .. INPUT_BUF - 1 -> Char] /\ Ring(de) \in 0 .. INPUT_BUF - 1
    BY Zenon, <1>1, <1>4, <2>0
  <2>2. \A i \in Nat : Ring(i) \in 0 .. INPUT_BUF - 1
    BY Zenon, <1>4, <2>0
  <2> HIDE DEF Ring
  <2> QED
    BY Zenon, <1>3, <1>5, <1>6, <2>1, <2>2
<1>8. CursorOnScreen'
  BY Zenon, <1>0, CursorStays DEF CursorOnScreen, Insert
<1>9. /\ lines \in Seq(Char) /\ Len(lines) = dw
      /\ \A i \in 1 .. dw : lines[i] = buf[(r + i - 1) % INPUT_BUF]
  BY Zenon, <1>0, LinesAre
<1>10. \A i \in Int : (r + i - 1) % INPUT_BUF = Ring(i - 1)
  <2>1. \A i \in Int : r + i - 1 = r + (i - 1)
    BY Zenon, <1>1
  <2> QED
    BY Zenon, <2>1
<1>11. CASE ~Commits(c)
  <2>1. w' = w /\ lines' = lines
    BY <1>11 DEF Insert
  <2>2. \A i \in 1 .. dw : buf'[(r + i - 1) % INPUT_BUF] = lines[i]
    <3> SUFFICES ASSUME NEW i \in 1 .. dw PROVE buf'[(r + i - 1) % INPUT_BUF] = lines[i]
      BY Zenon
    <3>1. i - 1 \in Nat /\ i - 1 < de /\ i \in Int
      BY <1>1
    <3> HIDE DEF Ring, dw, de
    <3> QED
      BY Zenon, <1>7, <1>9, <1>10, <3>1
  <2>3. lines = [i \in 1 .. dw |-> lines[i]]
    BY <1>9
  <2>4. LinesInOrder'
    <3>1. Between(r, w)' = [i \in 1 .. dw |-> buf'[(r + i - 1) % INPUT_BUF]]
      BY <1>3, <2>1 DEF Between, At, Word
    <3> HIDE DEF dw
    <3> QED
      BY Zenon, <2>1, <2>2, <2>3, <3>1 DEF LinesInOrder
  <2>5. ConsoleTypeOK'
    BY Zenon, <1>0, <1>1, <1>2, <1>7, <2>1 DEF ConsoleTypeOK, InputIndex
  <2>6. EditorInBounds'
    <3>1. Word(w - r)' = dw /\ Word(e - r)' = de + 1
      BY Zenon, <1>2, <1>3, <2>1 DEF Word
    <3>2. de + 1 # INPUT_BUF
      BY Zenon, <1>2, <1>3, <1>11 DEF Commits
    <3> HIDE DEF dw, de
    <3> QED
      BY <1>1, <3>1, <3>2, InputConsts DEF EditorInBounds
  <2> QED
    BY Zenon, <1>8, <2>1, <2>4, <2>5, <2>6
<1>12. CASE Commits(c)
  <2>1. w' = e' /\ lines' = lines \o Append(Between(w, e), c)
    BY Zenon, <1>12 DEF Insert
  <2> DEFINE t == Between(w, e)
             tc == Append(t, c)
  <2>2. t = [i \in 1 .. de - dw |-> buf[(w + i - 1) % INPUT_BUF]]
    BY Zenon, <1>1 DEF Between, At
  <2>3. ASSUME NEW i \in 1 .. de - dw PROVE t[i] = buf[Ring(dw + i - 1)] /\ t[i] \in Char
    <3>1. r + dw \in Int /\ i - 1 \in Int /\ w + i - 1 = w + (i - 1) /\ r + dw + (i - 1) = r + (dw + i - 1)
          /\ dw + i - 1 \in Int
      BY <1>1 DEF InputIndex
    <3>2. (w + (i - 1)) % INPUT_BUF = (r + dw + (i - 1)) % INPUT_BUF
      BY Zenon, <1>1, <3>1, AtWord
    <3>3. t[i] = buf[Ring(dw + i - 1)]
      BY Zenon, <2>2, <3>1, <3>2
    <3>4. buf[Ring(dw + i - 1)] \in Char
      BY Zenon, <1>0, <1>4, <3>1 DEF ConsoleTypeOK
    <3> QED
      BY Zenon, <3>3, <3>4
  <2>4. t \in Seq(Char) /\ Len(t) = de - dw
    <3>1. t \in [1 .. de - dw -> Char] /\ de - dw \in Nat
      <4> HIDE DEF dw, de
      <4>1. de - dw \in Nat
        BY <1>1
      <4> QED
        BY Zenon, <2>2, <2>3, <4>1
    <3> HIDE DEF t, dw, de
    <3> QED
      BY <3>1
  <2> HIDE DEF t, dw, de, Ring
  <2>5. /\ tc \in Seq(Char) /\ Len(tc) = de - dw + 1 /\ tc[de - dw + 1] = c
        /\ \A i \in 1 .. de - dw : tc[i] = t[i]
    BY <1>1, <2>4
  <2> HIDE DEF tc
  <2>6. /\ lines' \in Seq(Char) /\ Len(lines') = de + 1
        /\ \A i \in 1 .. dw : lines'[i] = lines[i]
        /\ \A i \in 1 .. de - dw + 1 : lines'[dw + i] = tc[i]
    <3>1. lines' = lines \o tc
      BY <2>1 DEF tc, t
    <3>2. /\ lines \o tc \in Seq(Char) /\ Len(lines \o tc) = dw + (de - dw + 1)
          /\ \A i \in 1 .. dw + (de - dw + 1) :
               (lines \o tc)[i] = IF i <= dw THEN lines[i] ELSE tc[i - dw]
      <4>1. /\ lines \o tc \in Seq(Char) /\ Len(lines \o tc) = Len(lines) + Len(tc)
            /\ \A i \in 1 .. Len(lines) + Len(tc) :
                 (lines \o tc)[i] = IF i <= Len(lines) THEN lines[i] ELSE tc[i - Len(lines)]
        <5>1. lines \in Seq(Char) /\ tc \in Seq(Char)
          BY Zenon, <1>9, <2>5
        <5> QED
          BY <5>1, ConcatProperties, Zenon
      <4>2. Len(lines) = dw /\ Len(tc) = de - dw + 1
        BY Zenon, <1>9, <2>5
      <4> QED
        BY Zenon, <4>1, <4>2
    <3>3. dw + (de - dw + 1) = de + 1
      BY <1>1
    <3>4. \A i \in 1 .. dw : i \in 1 .. de + 1 /\ i <= dw
      BY <1>1
    <3>5. \A i \in 1 .. de - dw + 1 : dw + i \in 1 .. de + 1 /\ ~(dw + i <= dw) /\ dw + i - dw = i
      BY <1>1
    <3>6. lines' \in Seq(Char) /\ Len(lines') = de + 1
      BY Zenon, <3>1, <3>2, <3>3
    <3>7. \A i \in 1 .. de + 1 : lines'[i] = IF i <= dw THEN lines[i] ELSE tc[i - dw]
      BY Zenon, <3>1, <3>2, <3>3
    <3>8. \A i \in 1 .. dw : lines'[i] = lines[i]
      BY Zenon, <3>4, <3>7
    <3>9. ASSUME NEW i \in 1 .. de - dw + 1 PROVE lines'[dw + i] = tc[i]
      <4> DEFINE k == dw + i
      <4>1. k \in 1 .. de + 1 /\ ~(k <= dw) /\ k - dw = i
        BY <1>1
      <4> HIDE DEF k
      <4>2. lines'[k] = tc[k - dw]
        BY Zenon, <3>7, <4>1
      <4>3. lines'[k] = tc[i]
        BY Zenon, <4>1, <4>2
      <4> QED
        BY Zenon, <4>3 DEF k
    <3> QED
      BY Zenon, <3>6, <3>8, <3>9
  <2>7. ASSUME NEW i \in 1 .. de + 1 PROVE lines'[i] = buf'[(r + i - 1) % INPUT_BUF]
    <3>0. i \in Int /\ i - 1 \in Nat /\ dw \in Nat /\ de \in Nat /\ (r + i - 1) % INPUT_BUF = Ring(i - 1)
      BY <1>1, <1>10
    <3>1. CASE i <= dw
      <4>1. i \in 1 .. dw /\ i - 1 < de
        BY <1>1, <3>0, <3>1
      <4> QED
        BY Zenon, <1>7, <1>9, <2>6, <3>0, <4>1
    <3>2. CASE i > dw /\ i <= de
      <4> DEFINE j == i - dw
      <4>1. j \in 1 .. de - dw /\ j \in 1 .. de - dw + 1 /\ dw + j = i /\ dw + j - 1 = i - 1 /\ i - 1 < de
        BY <1>1, <3>0, <3>2
      <4> HIDE DEF j
      <4>2. lines'[i] = tc[j] /\ tc[j] = t[j]
        BY Zenon, <2>5, <2>6, <4>1
      <4>3. t[j] = buf[Ring(i - 1)]
        BY Zenon, <2>3, <4>1
      <4>4. buf'[Ring(i - 1)] = buf[Ring(i - 1)]
        BY Zenon, <1>7, <3>0, <4>1
      <4> QED
        BY Zenon, <3>0, <4>2, <4>3, <4>4
    <3>3. CASE i = de + 1
      <4>1. de - dw + 1 \in 1 .. de - dw + 1 /\ dw + (de - dw + 1) = i /\ i - 1 = de
        BY <1>1, <3>0, <3>3
      <4> QED
        BY Zenon, <1>7, <2>5, <2>6, <3>0, <4>1
    <3> QED
      BY <3>0, <3>1, <3>2, <3>3
  <2>8. LinesInOrder'
    <3>1. Between(r, w)' = [i \in 1 .. de + 1 |-> buf'[(r + i - 1) % INPUT_BUF]]
      BY <1>2, <1>3, <2>1 DEF Between, At, Word
    <3>2. lines' = [i \in 1 .. de + 1 |-> lines'[i]]
      BY <2>6
    <3> QED
      BY Zenon, <2>7, <3>1, <3>2 DEF LinesInOrder
  <2>9. ConsoleTypeOK'
    BY Zenon, <1>0, <1>1, <1>2, <1>7, <2>1 DEF ConsoleTypeOK, InputIndex
  <2>10. EditorInBounds'
    <3>1. Word(w - r)' = de + 1 /\ Word(e - r)' = de + 1
      BY Zenon, <1>2, <1>3, <2>1 DEF Word
    <3> QED
      BY <1>1, <2>1, <3>1, InputConsts DEF EditorInBounds
  <2> QED
    BY <1>8, <1>12, <2>8, <2>9, <2>10
<1> QED
  BY Zenon, <1>11, <1>12

LEMMA TailIs ==
  ASSUME NEW S, NEW s \in Seq(S), s # << >>
  PROVE  Tail(s) = [i \in 1 .. Len(s) - 1 |-> s[i + 1]]
<1> DEFINE t == Tail(s)
<1>1. t \in Seq(S) /\ Len(t) = Len(s) - 1 /\ \A i \in 1 .. Len(t) : t[i] = s[i + 1]
  BY Zenon, HeadTailProperties
<1> HIDE DEF t
<1>2. t = [i \in 1 .. Len(t) |-> t[i]]
  BY <1>1
<1>3. t = [i \in 1 .. Len(s) - 1 |-> s[i + 1]]
  BY Zenon, <1>1, <1>2
<1> QED
  BY Zenon, <1>3 DEF t

(* consoleread takes the first committed character. *)
LEMMA TakeKeeps ==
  ASSUME ConsoleInv, r # w, r' = Word(r + 1), lines' = Tail(lines), UNCHANGED <<buf, w, e>>
  PROVE  LinesInOrder' /\ EditorInBounds' /\ r' \in InputIndex
<1> DEFINE dw == Word(w - r)
           de == Word(e - r)
<1>0. ConsoleTypeOK /\ LinesInOrder /\ EditorInBounds
  BY DEF ConsoleInv
<1>1. /\ r \in InputIndex /\ w \in InputIndex /\ e \in InputIndex
      /\ dw \in Nat /\ de \in Nat /\ dw # 0 /\ dw <= de /\ de <= INPUT_BUF
  BY Zenon, <1>0, Distances
<1>3. r' = IF r + 1 < INPUTWORD THEN r + 1 ELSE r + 1 - INPUTWORD
  <2>1. 1 \in 0 .. INPUTWORD
    BY InputConsts
  <2> QED
    BY Zenon, <1>1, <2>1, InputWords
<1>4. r' \in InputIndex
  BY <1>1, <1>3, InputConsts DEF InputIndex
<1>5. Word(w - r') = dw - 1 /\ Word(e - r') = de - 1
  <2>1. ASSUME NEW x \in InputIndex, Word(x - r) \in Nat, Word(x - r) # 0
        PROVE  Word(x - r') = Word(x - r) - 1
    <3>1. /\ Word(x - r) = (IF x >= r THEN x - r ELSE x - r + INPUTWORD)
          /\ Word(x - r') = (IF x >= r' THEN x - r' ELSE x - r' + INPUTWORD)
      BY Zenon, <1>1, <1>4, InputWords
    <3>2. x # r
      BY <1>1, <2>1, <3>1 DEF InputIndex
    <3>3. INPUTWORD \in Nat \ {0} /\ x \in 0 .. INPUTWORD - 1 /\ r \in 0 .. INPUTWORD - 1
      BY Zenon, <1>1, InputConsts DEF InputIndex
    <3>4. (IF x >= r' THEN x - r' ELSE x - r' + INPUTWORD)
            = (IF x >= r THEN x - r ELSE x - r + INPUTWORD) - 1
      BY <1>3, <3>2, <3>3
    <3> QED
      BY Zenon, <3>1, <3>4
  <2>2. de # 0
    BY <1>1
  <2> QED
    BY Zenon, <1>1, <2>1, <2>2
<1>6. EditorInBounds'
  <2>1. Word(w - r)' = dw - 1 /\ Word(e - r)' = de - 1
    BY <1>5 DEF Word
  <2> HIDE DEF dw, de
  <2> QED
    BY <1>1, <2>1, InputConsts DEF EditorInBounds
<1>7. /\ lines \in Seq(Char) /\ Len(lines) = dw
      /\ \A i \in 1 .. dw : lines[i] = buf[(r + i - 1) % INPUT_BUF]
  BY Zenon, <1>0, LinesAre
<1>8. ASSUME NEW i \in 1 .. dw - 1 PROVE lines[i + 1] = buf[(r' + i - 1) % INPUT_BUF]
  <2>1. i + 1 \in 1 .. dw /\ r + 1 \in Int /\ i - 1 \in Int
        /\ r' + i - 1 = Word(r + 1) + (i - 1) /\ r + 1 + (i - 1) = r + (i + 1) - 1
    BY <1>1, <1>4 DEF InputIndex
  <2>2. (Word(r + 1) + (i - 1)) % INPUT_BUF = (r + 1 + (i - 1)) % INPUT_BUF
    BY Zenon, <2>1, AtWord
  <2> HIDE DEF dw
  <2> QED
    BY Zenon, <1>7, <2>1, <2>2
<1>9. lines' = [i \in 1 .. dw - 1 |-> lines[i + 1]]
  <2>1. lines # << >>
    BY Zenon, <1>1, <1>7
  <2>2. Tail(lines) = [i \in 1 .. Len(lines) - 1 |-> lines[i + 1]]
    BY Zenon, <1>7, <2>1, TailIs
  <2> HIDE DEF dw
  <2> QED
    BY Zenon, <1>7, <2>2
<1>10. LinesInOrder'
  <2>1. Between(r, w)' = [i \in 1 .. dw - 1 |-> buf[(r' + i - 1) % INPUT_BUF]]
    BY Zenon, <1>5 DEF Between, At, Word
  <2> HIDE DEF dw
  <2> QED
    BY Zenon, <1>8, <1>9, <2>1 DEF LinesInOrder
<1> QED
  BY Zenon, <1>4, <1>6, <1>10

(* Every step of the console keeps its invariant. *)
LEMMA ConsoleintrKeeps ==
  ASSUME ConsoleInv, Consoleintr
  PROVE  ConsoleInv'
<1>0. ConsoleTypeOK /\ ConsoleProcs /\ ConsoleSleeps /\ ConsoleLocks /\ ReaderNotForgotten
  BY Zenon DEF ConsoleInv
<1>1. clock = Nobody /\ UNCHANGED <<pc, killed, n, r, clock, ilk, target>>
  BY Zenon DEF Consoleintr
<1>2. /\ ConsoleTypeOK' /\ LinesInOrder' /\ EditorInBounds' /\ CursorOnScreen'
      /\ \/ UNCHANGED <<chan, w>>
         \/ chan' = Woken("input.r")
  <2>1. CASE (KillLine \/ Backspace) /\ UNCHANGED chan
    BY Zenon, <1>1, <2>1, EraseKeeps
  <2>2. ASSUME NEW c \in Char, Insert(c), IF Commits(c) THEN Wakeup("input.r") ELSE UNCHANGED chan
        PROVE  /\ ConsoleTypeOK' /\ LinesInOrder' /\ EditorInBounds' /\ CursorOnScreen'
               /\ \/ UNCHANGED <<chan, w>>
                  \/ chan' = Woken("input.r")
    BY Zenon, <1>1, <2>2, InsertKeeps DEF Wakeup
  <2> QED
    BY Zenon, <2>1, <2>2 DEF Consoleintr
<1>3. ConsoleProcs'
  BY Zenon, <1>0, <1>1, <1>2 DEF ConsoleProcs, Woken
<1>4. ConsoleSleeps' /\ ConsoleLocks'
  BY Zenon, <1>0, <1>1, BlockingAssumption DEF ConsoleSleeps, ConsoleLocks
<1>5. ReaderNotForgotten'
  BY Zenon, <1>0, <1>1, <1>2, BlockingAssumption DEF ReaderNotForgotten, Woken
<1> QED
  BY <1>2, <1>3, <1>4, <1>5 DEF ConsoleInv

LEMMA EditorKept ==
  ASSUME UNCHANGED editor
  PROVE  /\ LinesInOrder' = LinesInOrder /\ EditorInBounds' = EditorInBounds
  BY Zenon DEF editor, LinesInOrder, EditorInBounds, Between, At, Word

LEMMA ConsolereadKeeps ==
  ASSUME ConsoleInv, NEW p \in Proc, Consoleread(p)
  PROVE  ConsoleInv'
<1>0. /\ ConsoleTypeOK /\ ConsoleProcs /\ ConsoleSleeps /\ ConsoleLocks /\ ReaderNotForgotten
      /\ LinesInOrder /\ EditorInBounds /\ CursorOnScreen
  BY Zenon DEF ConsoleInv
<1>1. /\ pc[p] = "consoleread" /\ chan[p] = Nobody /\ clock \in {Nobody, p}
      /\ UNCHANGED <<chan, killed, buf, w, e, ilk, target, pos>> /\ n[p] \in Nat
  BY Zenon, <1>0 DEF Consoleread, Running, ConsoleProcs
<1>2. /\ \/ pc' = pc \/ pc' = [pc EXCEPT ![p] = "return"]
         \/ pc' = [pc EXCEPT ![p] = "consoleread_sleep"] /\ clock' = p /\ r = w /\ r' = r
      /\ clock' \in {Nobody, p} /\ n[p] > 0 /\ (n' = n \/ n' = [n EXCEPT ![p] = @ - 1])
  <2>1. CASE ConsolereadChar(p)
    BY Zenon, <2>1 DEF ConsolereadChar, Goto
  <2>2. CASE ConsolereadWait(p)
    BY Zenon, <2>2 DEF ConsolereadWait, Goto
  <2> QED
    BY Zenon, <2>1, <2>2 DEF Consoleread
<1>3. \/ UNCHANGED <<r, lines>>
      \/ r # w /\ r' = Word(r + 1) /\ lines' = Tail(lines)
  BY Zenon DEF Consoleread, ConsolereadChar, ConsolereadWait
<1>4. LinesInOrder' /\ EditorInBounds' /\ r' \in InputIndex
  <2>1. CASE UNCHANGED <<r, lines>>
    BY <1>0, <1>1, <2>1, EditorKept DEF editor, ConsoleTypeOK, InputIndex
  <2>2. CASE r # w /\ r' = Word(r + 1) /\ lines' = Tail(lines)
    BY Zenon, <1>1, <2>2, TakeKeeps
  <2> QED
    BY Zenon, <1>3, <2>1, <2>2
<1>5. ConsoleTypeOK' /\ CursorOnScreen'
  BY <1>0, <1>1, <1>2, <1>4 DEF ConsoleTypeOK, CursorOnScreen, InputIndex
<1>6. ConsoleProcs'
  <2>1. n[p] > 0 => n[p] - 1 \in Nat
    BY <1>1
  <2> QED
    BY <1>0, <1>1, <1>2, <2>1 DEF ConsoleProcs, ConsolePc
<1>7. ConsoleLocks'
  BY <1>0, <1>1, <1>2 DEF ConsoleLocks, ConsoleProcs
<1>8. ConsoleSleeps'
  <2>1. \A q \in Proc : q # p => pc'[q] = pc[q]
    BY Zenon, <1>0, <1>2 DEF ConsoleProcs
  <2>2. \A q \in Proc : q # p => pc[q] # "consoleread_sleep"
    BY <1>0, <1>1, BlockingAssumption DEF ConsoleSleeps
  <2>3. pc'[p] = "consoleread_sleep" => clock' = p /\ r' = w'
    BY Zenon, <1>0, <1>1, <1>2 DEF ConsoleProcs
  <2> QED
    BY Zenon, <2>1, <2>2, <2>3 DEF ConsoleSleeps
<1>9. ReaderNotForgotten'
  BY Zenon, <1>0, <1>1, <1>3 DEF ReaderNotForgotten
<1> QED
  BY <1>4, <1>5, <1>6, <1>7, <1>8, <1>9 DEF ConsoleInv

LEMMA ConsoleStepKeeps ==
  ASSUME ConsoleInv, NEW p \in Proc, NEW k \in 1 .. 2, NEW l \in {"read", "write"},
         \/ Ilock(p) \/ Iunlock(p) \/ ConsolereadSleep(p) \/ Consolewrite(p)
         \/ (Kill(p) /\ UNCHANGED consVars) \/ ConsoleCall(p, l, k)
  PROVE  ConsoleInv'
<1>0. /\ ConsoleTypeOK /\ ConsoleProcs /\ ConsoleSleeps /\ ConsoleLocks /\ ReaderNotForgotten
      /\ LinesInOrder /\ EditorInBounds /\ CursorOnScreen
  BY Zenon DEF ConsoleInv
<1>1. UNCHANGED editor /\ UNCHANGED <<r, w>>
  BY DEF Ilock, Iunlock, ConsolereadSleep, Consolewrite, Kill, ConsoleCall, consVars, editor
<1>2. LinesInOrder' /\ EditorInBounds'
  BY Zenon, <1>0, <1>1, EditorKept
<1>3. CursorOnScreen'
  <2>1. CASE Consolewrite(p)
    <3>1. PICK c \in {"\n", "x"} : pos' = Cgaputc(IF n[p] = 2 THEN Cgaputc(pos, "x") ELSE pos, c)
      BY Zenon, <2>1 DEF Consolewrite
    <3>2. (IF n[p] = 2 THEN Cgaputc(pos, "x") ELSE pos) \in 0 .. (ROWS - 1) * COLS - 1
      BY Zenon, <1>0, CursorStays DEF CursorOnScreen
    <3> QED
      BY Zenon, <3>1, <3>2, CursorStays DEF CursorOnScreen
  <2>2. CASE UNCHANGED pos
    BY Zenon, <1>0, <2>2 DEF CursorOnScreen
  <2> QED
    BY Zenon, <2>1, <2>2 DEF Ilock, Iunlock, ConsolereadSleep, Kill, ConsoleCall, consVars
<1>4. CASE Ilock(p)
  <2>0. PICK x \in {"read_locked", "write_locked", "iunlock"} : pc' = [pc EXCEPT ![p] = x]
    BY Zenon, <1>4 DEF Ilock, Goto
  <2>1. ConsoleTypeOK' /\ ConsoleProcs'
    BY Zenon, <1>0, <1>4, <2>0 DEF ConsoleTypeOK, ConsoleProcs, ConsolePc, Ilock, editor
  <2>2. ConsoleLocks'
    BY Zenon, <1>0, <1>4, BlockingAssumption DEF ConsoleLocks, ConsoleProcs, Ilock, Goto
  <2>3. ConsoleSleeps' /\ ReaderNotForgotten'
    BY <1>0, <1>1, <1>4 DEF ConsoleSleeps, ReaderNotForgotten, ConsoleProcs, Ilock, Goto
  <2> QED
    BY <1>2, <1>3, <2>1, <2>2, <2>3 DEF ConsoleInv
<1>5. CASE Iunlock(p)
  <2>0. /\ \E x \in {"user", "consoleread", "consolewrite"} : pc' = [pc EXCEPT ![p] = x]
        /\ n' = n \/ n' = [n EXCEPT ![p] = 0]
    BY Zenon, <1>5 DEF Iunlock, Goto
  <2>1. ConsoleTypeOK' /\ ConsoleProcs'
    <3>1. ConsoleTypeOK'
      BY Zenon, <1>0, <1>5 DEF ConsoleTypeOK, Iunlock, editor
    <3>2. chan' = chan
      BY Zenon, <1>5 DEF Iunlock
    <3> QED
      BY <1>0, <2>0, <3>1, <3>2 DEF ConsoleProcs, ConsolePc
  <2>2. /\ \A q \in Proc : pc'[q] = IF q = p THEN pc'[p] ELSE pc[q]
        /\ pc'[p] \in {"user", "consoleread", "consolewrite"}
        /\ pc[p] \in {"read_locked", "write_locked", "iunlock"} /\ ilk' = Nobody /\ UNCHANGED <<chan, clock>>
    BY Zenon, <1>0, <1>5, <2>0 DEF ConsoleProcs, Iunlock
  <2>3. ConsoleLocks' /\ ConsoleSleeps' /\ ReaderNotForgotten'
    <3> SUFFICES ASSUME NEW q \in Proc
                 PROVE  /\ ilk' = q <=> pc'[q] \in {"read_locked", "write_locked", "iunlock"}
                        /\ pc'[q] = "consoleread_sleep" => clock' = q /\ r' = w'
                        /\ chan'[q] = "input.r" => r' = w'
      BY Zenon DEF ConsoleLocks, ConsoleSleeps, ReaderNotForgotten
    <3>1. /\ ilk = q <=> pc[q] \in {"read_locked", "write_locked", "iunlock"}
          /\ ilk = p /\ Nobody # q
          /\ pc[q] = "consoleread_sleep" => clock = q /\ r = w
          /\ chan[q] = "input.r" => r = w
      BY Zenon, <1>0, <2>2, BlockingAssumption DEF ConsoleLocks, ConsoleSleeps, ReaderNotForgotten
    <3>2. pc'[q] = (IF q = p THEN pc'[p] ELSE pc[q]) /\ UNCHANGED <<chan, clock, r, w>>
      BY Zenon, <1>1, <2>2
    <3> QED
      BY <2>2, <3>1, <3>2
  <2> QED
    BY Zenon, <1>2, <1>3, <2>1, <2>3 DEF ConsoleInv
<1>6. CASE ConsolereadSleep(p)
  <2>1. ConsoleTypeOK' /\ ConsoleProcs'
    BY Zenon, <1>0, <1>6 DEF ConsoleTypeOK, ConsoleProcs, ConsolePc, ConsolereadSleep, Goto, SleepOn, editor
  <2>2. ConsoleLocks'
    BY Zenon, <1>0, <1>6 DEF ConsoleLocks, ConsoleProcs, ConsolereadSleep, Goto
  <2>3. ConsoleSleeps' /\ ReaderNotForgotten'
    <3> SUFFICES ASSUME NEW q \in Proc
                 PROVE  /\ pc'[q] = "consoleread_sleep" => clock' = q /\ r' = w'
                        /\ chan'[q] = "input.r" => r' = w'
      BY Zenon DEF ConsoleSleeps, ReaderNotForgotten
    <3>1. /\ pc[p] = "consoleread_sleep" /\ clock' = Nobody
          /\ pc' = [pc EXCEPT ![p] = "consoleread"] /\ chan' = [chan EXCEPT ![p] = "input.r"]
      BY Zenon, <1>6 DEF ConsolereadSleep, Goto, SleepOn
    <3>2. /\ pc'[q] = (IF q = p THEN "consoleread" ELSE pc[q])
          /\ chan'[q] = (IF q = p THEN "input.r" ELSE chan[q]) /\ UNCHANGED <<r, w>>
      BY Zenon, <1>0, <1>1, <3>1 DEF ConsoleProcs
    <3>3. /\ pc[p] = "consoleread_sleep" => clock = p /\ r = w
          /\ pc[q] = "consoleread_sleep" => clock = q /\ r = w
          /\ chan[q] = "input.r" => r = w
      BY Zenon, <1>0 DEF ConsoleSleeps, ReaderNotForgotten
    <3> QED
      BY <3>1, <3>2, <3>3
  <2> QED
    BY Zenon, <1>2, <1>3, <2>1, <2>2, <2>3 DEF ConsoleInv
<1>7. CASE Consolewrite(p)
  <2>1. ConsoleTypeOK' /\ ConsoleProcs'
    BY <1>0, <1>7 DEF ConsoleTypeOK, ConsoleProcs, ConsolePc, Consolewrite, Goto, editor
  <2>2. ConsoleLocks'
    BY Zenon, <1>0, <1>7 DEF ConsoleLocks, ConsoleProcs, Consolewrite, Goto
  <2>3. ConsoleSleeps' /\ ReaderNotForgotten'
    BY Zenon, <1>0, <1>1, <1>7 DEF ConsoleSleeps, ReaderNotForgotten, ConsoleProcs, Consolewrite, Goto
  <2> QED
    BY Zenon, <1>2, <1>3, <2>1, <2>2, <2>3 DEF ConsoleInv
<1>8. CASE Kill(p) /\ UNCHANGED consVars
  <2>1. ConsoleTypeOK' /\ ConsoleProcs'
    BY Zenon, <1>0, <1>8 DEF ConsoleTypeOK, ConsoleProcs, Kill, consVars
  <2>2. ConsoleLocks' /\ ConsoleSleeps' /\ ReaderNotForgotten'
    <3>1. UNCHANGED <<pc, ilk, clock, r, w>> /\ chan' = [chan EXCEPT ![p] = Nobody]
      BY Zenon, <1>1, <1>8 DEF Kill, consVars
    <3>2. ConsoleLocks' /\ ConsoleSleeps'
      BY Zenon, <1>0, <3>1 DEF ConsoleLocks, ConsoleSleeps
    <3>3. \A q \in Proc : chan'[q] = (IF q = p THEN Nobody ELSE chan[q]) /\ Nobody # "input.r"
      BY Zenon, <1>0, <3>1, BlockingAssumption DEF ConsoleProcs
    <3> QED
      BY Zenon, <1>0, <3>1, <3>2, <3>3 DEF ReaderNotForgotten
  <2> QED
    BY Zenon, <1>2, <1>3, <2>1, <2>2 DEF ConsoleInv
<1>9. CASE ConsoleCall(p, l, k)
  <2>1. ConsoleTypeOK' /\ ConsoleProcs'
    BY <1>0, <1>9 DEF ConsoleTypeOK, ConsoleProcs, ConsolePc, ConsoleCall, Goto, editor
  <2>2. ConsoleLocks'
    BY Zenon, <1>0, <1>9 DEF ConsoleLocks, ConsoleProcs, ConsoleCall, Goto, User
  <2>3. ConsoleSleeps' /\ ReaderNotForgotten'
    BY Zenon, <1>0, <1>1, <1>9 DEF ConsoleSleeps, ReaderNotForgotten, ConsoleProcs, ConsoleCall, Goto
  <2> QED
    BY Zenon, <1>2, <1>3, <2>1, <2>2, <2>3 DEF ConsoleInv
<1> QED
  BY Zenon, <1>4, <1>5, <1>6, <1>7, <1>8, <1>9

LEMMA ConsoleKeeps ==
  ASSUME ConsoleInv, ConsoleNext
  PROVE  ConsoleInv'
<1>1. 1 \in 1 .. 2 /\ "read" \in {"read", "write"}
  OBVIOUS
<1> QED
  BY Zenon, <1>1, ConsoleintrKeeps, ConsolereadKeeps, ConsoleStepKeeps DEF ConsoleNext, ConsoleStep

-----------------------------------------------------------------------------
(* The pipe: its ring. *)

LEMMA PipeConsts ==
  /\ PIPESIZE \in Nat \ {0} /\ PIPEWORD \in Nat \ {0} /\ PIPESIZE < PIPEWORD
  /\ PIPEWORD % PIPESIZE = 0 /\ PIPEWORD % PIPEWORD = 0
  BY PipeAssumption

(* The counters tell the number of bytes in the pipe: t were read, s stored. *)
LEMMA CounterFacts ==
  ASSUME NEW t \in Nat, NEW s \in Nat, t <= s, s <= t + PIPESIZE
  PROVE  /\ ((s % PIPEWORD) - (t % PIPEWORD)) % PIPEWORD = s - t
         /\ t % PIPEWORD = s % PIPEWORD <=> s = t
         /\ s % PIPEWORD = ((t % PIPEWORD) + PIPESIZE) % PIPEWORD <=> s = t + PIPESIZE
<1>1. t \in Int /\ s \in Int /\ t + PIPESIZE \in Int /\ PIPESIZE \in Int
  BY PipeConsts
<1>2. ((s % PIPEWORD) - (t % PIPEWORD)) % PIPEWORD = s - t
  <2>1. ((s % PIPEWORD) - (t % PIPEWORD)) % PIPEWORD = (s - t) % PIPEWORD
    BY Zenon, <1>1, PipeConsts, ModSub
  <2>2. (s - t) % PIPEWORD = s - t
    BY PipeConsts
  <2> QED
    BY Zenon, <2>1, <2>2
<1>3. t % PIPEWORD = s % PIPEWORD <=> s = t
  <2>1. ASSUME t < s PROVE t % PIPEWORD # s % PIPEWORD
    <3>1. s < t + PIPEWORD
      BY PipeConsts
    <3> QED
      BY Zenon, <1>1, <2>1, <3>1, PipeConsts, ModDistinct
  <2>2. t = s \/ t < s
    OBVIOUS
  <2> QED
    BY Zenon, <2>1, <2>2
<1>4. s % PIPEWORD = ((t % PIPEWORD) + PIPESIZE) % PIPEWORD <=> s = t + PIPESIZE
  <2>1. ((t % PIPEWORD) + PIPESIZE) % PIPEWORD = (t + PIPESIZE) % PIPEWORD
    BY Zenon, <1>1, PipeConsts, ModMod
  <2>2. ASSUME s < t + PIPESIZE PROVE s % PIPEWORD # (t + PIPESIZE) % PIPEWORD
    <3>1. t + PIPESIZE < s + PIPEWORD
      BY PipeConsts
    <3> QED
      BY Zenon, <1>1, <2>2, <3>1, PipeConsts, ModDistinct
  <2>3. s = t + PIPESIZE \/ s < t + PIPESIZE
    BY PipeConsts
  <2> QED
    BY Zenon, <2>1, <2>2, <2>3
<1> QED
  BY Zenon, <1>2, <1>3, <1>4

LEMMA PipeCounts ==
  ASSUME PipeRing, stored \in Nat
  PROVE  /\ Count = stored - Len(taken) /\ Len(taken) \in Nat
         /\ Empty <=> stored = Len(taken)
         /\ Full <=> stored = Len(taken) + PIPESIZE
<1>1. /\ Len(taken) \in Nat /\ Len(taken) <= stored /\ stored <= Len(taken) + PIPESIZE
      /\ nread = Len(taken) % PIPEWORD /\ nwrite = stored % PIPEWORD
  BY DEF PipeRing
<1> QED
  BY Zenon, <1>1, CounterFacts DEF Count, Empty, Full

(* The slots that nread and nwrite select are those of the bytes' numbers. *)
LEMMA PipeSlots ==
  ASSUME PipeRing, stored \in Nat, NEW i \in Int
  PROVE  /\ (nread + i - 1) % PIPESIZE = (Len(taken) + i - 1) % PIPESIZE
         /\ (nwrite + i - 1) % PIPESIZE = (stored + i - 1) % PIPESIZE
<1> DEFINE t == Len(taken)
<1>1. t \in Int /\ stored \in Int /\ nread = t % PIPEWORD /\ nwrite = stored % PIPEWORD
  BY DEF PipeRing
<1> HIDE DEF t
<1>2. /\ nread \in Int /\ nwrite \in Int /\ i - 1 \in Int
      /\ nread + i - 1 = nread + (i - 1) /\ nwrite + i - 1 = nwrite + (i - 1)
      /\ t + i - 1 = t + (i - 1) /\ stored + i - 1 = stored + (i - 1)
  <2>1. nread \in Int /\ nwrite \in Int
    BY <1>1, PipeConsts
  <2> QED
    BY <1>1, <2>1
<1>3. ASSUME NEW x \in Int, NEW j \in Int
      PROVE  ((x % PIPEWORD) + j) % PIPESIZE = (x + j) % PIPESIZE
  BY Zenon, PipeConsts, ModMod
<1>4. /\ (nread + (i - 1)) % PIPESIZE = (t + (i - 1)) % PIPESIZE
      /\ (nwrite + (i - 1)) % PIPESIZE = (stored + (i - 1)) % PIPESIZE
  BY Zenon, <1>1, <1>2, <1>3
<1> QED
  BY Zenon, <1>2, <1>4 DEF t

LEMMA MaxOfOne ==
  ASSUME NEW i \in Int
  PROVE  Max({i}) = i
  BY DEF Max

LEMMA MinOfTwo ==
  ASSUME NEW i \in Nat, NEW j \in Nat
  PROVE  Min({i, j}) \in Nat /\ Min({i, j}) <= i /\ Min({i, j}) <= j /\ Min({i, j}) \in {i, j}
<1>1. \E x \in {i, j} : \A y \in {i, j} : x <= y
  OBVIOUS
<1>2. Min({i, j}) \in {i, j} /\ \A y \in {i, j} : Min({i, j}) <= y
  BY Zenon, <1>1 DEF Min
<1> QED
  BY Zenon, <1>2

(* pipewrite stores bytes where none is that was not read. *)
LEMMA StoreKeeps ==
  ASSUME PipeRing, stored \in Nat, NEW p, NEW m \in Nat, m <= PIPESIZE - Count, PipewriteStore(p, m)
  PROVE  /\ PipeRing' /\ stored' = stored + m /\ stored' \in Nat /\ taken' = taken
         /\ nwrite' \in 0 .. PIPEWORD - 1 /\ nread' = nread
<1> DEFINE t == Len(taken)
           New(s) == {i \in 1 .. m : (nwrite + i - 1) % PIPESIZE = s}
<1>1. /\ t \in Nat /\ t <= stored /\ stored <= t + PIPESIZE /\ stored + m <= t + PIPESIZE
      /\ taken \in Seq(Nat) /\ data \in [0 .. PIPESIZE - 1 -> Nat]
      /\ nread = t % PIPEWORD /\ nwrite = stored % PIPEWORD
  <2>1. /\ t \in Nat /\ t <= stored /\ stored <= t + PIPESIZE
        /\ taken \in Seq(Nat) /\ data \in [0 .. PIPESIZE - 1 -> Nat]
        /\ nread = t % PIPEWORD /\ nwrite = stored % PIPEWORD
    BY DEF PipeRing
  <2>2. Count = stored - t
    BY Zenon, PipeCounts
  <2> QED
    BY <2>1, <2>2, PipeConsts
<1>2. /\ \A k \in 1 .. t : taken[k] = k
      /\ \A k \in Nat : t < k /\ k <= stored => data[(k - 1) % PIPESIZE] = k
  BY Zenon DEF PipeRing
<1>3. /\ data' = [s \in 0 .. PIPESIZE - 1 |-> IF New(s) = {} THEN data[s] ELSE stored + Max(New(s))]
      /\ nwrite' = (nwrite + m) % PIPEWORD /\ stored' = stored + m /\ UNCHANGED <<nread, taken>>
  BY Zenon, <1>1 DEF PipewriteStore
<1>4. \A i \in 1 .. m, s \in 0 .. PIPESIZE - 1 : i \in New(s) <=> (stored + i - 1) % PIPESIZE = s
  <2>1. \A i \in 1 .. m : i \in Int
    OBVIOUS
  <2> QED
    BY Zenon, <2>1, PipeSlots
<1>5. \A s \in 0 .. PIPESIZE - 1 : New(s) \subseteq 1 .. m
  OBVIOUS
<1> HIDE DEF t, New
<1>6. ASSUME NEW s \in 0 .. PIPESIZE - 1, NEW i \in New(s) PROVE New(s) = {i}
  <2> SUFFICES ASSUME NEW j \in New(s), j # i PROVE FALSE
    BY Zenon
  <2>1. i \in 1 .. m /\ j \in 1 .. m /\ (stored + i - 1) % PIPESIZE = (stored + j - 1) % PIPESIZE
    BY Zenon, <1>4, <1>5, <1>6
  <2>2. /\ stored + i - 1 \in Int /\ stored + j - 1 \in Int
        /\ \/ stored + i - 1 < stored + j - 1 /\ stored + j - 1 < stored + i - 1 + PIPESIZE
           \/ stored + j - 1 < stored + i - 1 /\ stored + i - 1 < stored + j - 1 + PIPESIZE
    BY <1>1, <2>1, PipeConsts
  <2> QED
    BY Zenon, <2>1, <2>2, PipeConsts, ModDistinct
<1>7. ASSUME NEW s \in 0 .. PIPESIZE - 1, NEW i \in New(s) PROVE data'[s] = stored + i /\ i \in 1 .. m
  <2>1. New(s) = {i} /\ i \in 1 .. m
    BY Zenon, <1>5, <1>6
  <2>2. Max(New(s)) = i
    BY <2>1, MaxOfOne
  <2> QED
    BY Zenon, <1>3, <2>1, <2>2
<1>8. data' \in [0 .. PIPESIZE - 1 -> Nat]
  <2> SUFFICES ASSUME NEW s \in 0 .. PIPESIZE - 1 PROVE data'[s] \in Nat
    BY Zenon, <1>3
  <2>1. CASE New(s) = {}
    BY Zenon, <1>1, <1>3, <2>1
  <2>2. ASSUME NEW i \in New(s) PROVE data'[s] \in Nat
    <3>1. data'[s] = stored + i /\ i \in 1 .. m
      BY Zenon, <1>7
    <3> QED
      BY <3>1
  <2> QED
    BY Zenon, <2>1, <2>2
<1>9. ASSUME NEW k \in Nat, t < k, k <= stored + m PROVE data'[(k - 1) % PIPESIZE] = k
  <2> DEFINE s == (k - 1) % PIPESIZE
  <2>1. s \in 0 .. PIPESIZE - 1 /\ k - 1 \in Int
    BY PipeConsts
  <2>2. CASE k <= stored
    <3>1. ASSUME NEW i \in New(s) PROVE FALSE
      <4>1. i \in 1 .. m /\ (stored + i - 1) % PIPESIZE = (k - 1) % PIPESIZE
        BY Zenon, <1>4, <1>5, <2>1
      <4>2. stored + i - 1 \in Int /\ k - 1 < stored + i - 1 /\ stored + i - 1 < k - 1 + PIPESIZE
        BY <1>1, <1>9, <2>2, <4>1, PipeConsts
      <4> QED
        BY Zenon, <2>1, <4>1, <4>2, PipeConsts, ModDistinct
    <3>2. data'[s] = data[s]
      BY Zenon, <1>3, <2>1, <3>1
    <3> QED
      BY Zenon, <1>2, <1>9, <2>2, <3>2
  <2>3. CASE k > stored
    <3> DEFINE i == k - stored
    <3>1. i \in 1 .. m /\ stored + i - 1 = k - 1 /\ stored + i = k
      BY <1>9, <2>3
    <3> HIDE DEF i
    <3>2. i \in New(s)
      BY Zenon, <1>4, <2>1, <3>1
    <3> HIDE DEF s
    <3>3. data'[s] = k
      BY Zenon, <1>7, <2>1, <3>1, <3>2
    <3> QED
      BY Zenon, <3>3 DEF s
  <2> QED
    BY <1>9, <2>2, <2>3
<1>10. nwrite' = (stored + m) % PIPEWORD /\ nwrite' \in 0 .. PIPEWORD - 1
  <2>1. stored \in Int /\ m \in Int /\ stored + m \in Int
    OBVIOUS
  <2>2. nwrite' = (stored + m) % PIPEWORD
    BY Zenon, <1>1, <1>3, <2>1, PipeConsts, ModMod
  <2> QED
    BY <2>1, <2>2, PipeConsts
<1>11. stored' \in Nat /\ t <= stored + m
  BY <1>1, <1>3
<1>12. Len(taken)' = t
  BY Zenon, <1>3 DEF t
<1>13. PipeRing'
  <2>1. Len(taken) = t
    BY Zenon DEF t
  <2> QED
    BY Zenon, <1>1, <1>2, <1>3, <1>8, <1>9, <1>10, <1>11, <1>12, <2>1 DEF PipeRing
<1> QED
  BY <1>3, <1>10, <1>11, <1>13

(* piperead takes the oldest bytes. *)
LEMMA CopyKeeps ==
  ASSUME PipeRing, stored \in Nat, NEW p \in Proc, n[p] \in Nat, PipereadCopy(p)
  PROVE  /\ PipeRing' /\ stored' = stored /\ nwrite' = nwrite /\ nread' \in 0 .. PIPEWORD - 1
<1> DEFINE t == Len(taken)
           m == Min({n[p], Count})
           got == [i \in 1 .. m |-> data[(nread + i - 1) % PIPESIZE]]
<1>1. /\ t \in Nat /\ t <= stored /\ stored <= t + PIPESIZE
      /\ taken \in Seq(Nat) /\ data \in [0 .. PIPESIZE - 1 -> Nat]
      /\ nread = t % PIPEWORD /\ nwrite = stored % PIPEWORD
  BY DEF PipeRing
<1>2. Count = stored - t /\ Count \in Nat
  <2>1. Count = stored - t
    BY Zenon, PipeCounts
  <2> QED
    BY <1>1, <2>1
<1>3. m \in Nat /\ m <= stored - t /\ m \in {n[p], Count}
  <2>1. m \in Nat /\ m <= Count /\ m \in {n[p], Count}
    BY Zenon, <1>2, MinOfTwo
  <2> QED
    BY Zenon, <1>2, <2>1
<1>4. /\ \A k \in 1 .. t : taken[k] = k
      /\ \A k \in Nat : t < k /\ k <= stored => data[(k - 1) % PIPESIZE] = k
  BY DEF PipeRing
<1>5. /\ taken' = taken \o got /\ nread' = (nread + m) % PIPEWORD /\ UNCHANGED <<data, nwrite, stored>>
  BY Zenon DEF PipereadCopy
<1> HIDE DEF t, m
<1>6. ASSUME NEW i \in 1 .. m PROVE data[(nread + i - 1) % PIPESIZE] = t + i
  <2>1. i \in Int /\ t + i \in Nat /\ t < t + i /\ t + i <= stored /\ t + i - 1 = (t + i) - 1
    BY <1>1, <1>3
  <2>2. (nread + i - 1) % PIPESIZE = ((t + i) - 1) % PIPESIZE
    BY Zenon, <2>1, PipeSlots DEF t
  <2> QED
    BY Zenon, <1>4, <2>1, <2>2
<1>7. got = [i \in 1 .. m |-> t + i]
  BY Zenon, <1>6
<1> HIDE DEF got
<1>8. got \in Seq(Nat) /\ Len(got) = m /\ \A i \in 1 .. m : got[i] = t + i
  <2>1. got \in [1 .. m -> Nat]
    BY <1>1, <1>3, <1>7
  <2> QED
    BY <1>3, <1>7, <2>1
<1>9. /\ taken \o got \in Seq(Nat) /\ Len(taken \o got) = t + m
      /\ \A k \in 1 .. t + m : (taken \o got)[k] = IF k <= t THEN taken[k] ELSE got[k - t]
  <2>1. Len(taken) = t
    BY DEF t
  <2>2. /\ taken \o got \in Seq(Nat) /\ Len(taken \o got) = Len(taken) + Len(got)
        /\ \A k \in 1 .. Len(taken) + Len(got) :
             (taken \o got)[k] = IF k <= Len(taken) THEN taken[k] ELSE got[k - Len(taken)]
    BY Zenon, <1>1, <1>8, ConcatProperties
  <2> QED
    BY Zenon, <1>8, <2>1, <2>2
<1>10. ASSUME NEW k \in 1 .. t + m PROVE (taken \o got)[k] = k
  <2>1. CASE k <= t
    <3>1. k \in 1 .. t
      BY <1>1, <2>1
    <3> QED
      BY Zenon, <1>4, <1>9, <2>1, <3>1
  <2>2. CASE ~(k <= t)
    <3>1. k - t \in 1 .. m /\ t + (k - t) = k
      BY <1>1, <1>3, <2>2
    <3> QED
      BY Zenon, <1>8, <1>9, <2>2, <3>1
  <2> QED
    BY Zenon, <2>1, <2>2
<1>11. nread' = (t + m) % PIPEWORD /\ nread' \in 0 .. PIPEWORD - 1
  <2>1. t \in Int /\ m \in Int /\ t + m \in Int
    BY <1>1, <1>3
  <2>2. nread' = (t + m) % PIPEWORD
    BY Zenon, <1>1, <1>5, <2>1, PipeConsts, ModMod
  <2> QED
    BY <2>1, <2>2, PipeConsts
<1>12. PipeRing'
  <2>1. Len(taken') = t + m /\ taken' \in Seq(Nat) /\ \A k \in 1 .. t + m : taken'[k] = k
    BY Zenon, <1>5, <1>9, <1>10
  <2>2. t + m <= stored /\ stored <= t + m + PIPESIZE
    BY <1>1, <1>3, PipeConsts
  <2>3. \A k \in Nat : t + m < k /\ k <= stored => data[(k - 1) % PIPESIZE] = k
    <3>1. \A k \in Nat : t + m < k => t < k
      BY <1>1, <1>3
    <3> QED
      BY Zenon, <1>4, <3>1
  <2> QED
    BY Zenon, <1>1, <1>5, <1>11, <2>1, <2>2, <2>3 DEF PipeRing
<1> QED
  BY Zenon, <1>5, <1>11, <1>12

(* So the bytes read and those in the ring are the bytes stored, in order. *)
LEMMA RingIsFifo ==
  ASSUME PipeRing, stored \in Nat
  PROVE  PipeFifo
<1> DEFINE t == Len(taken)
           got == [i \in 1 .. Count |-> data[(nread + i - 1) % PIPESIZE]]
<1>1. /\ t \in Nat /\ t <= stored /\ taken \in Seq(Nat)
      /\ \A k \in 1 .. t : taken[k] = k
      /\ \A k \in Nat : t < k /\ k <= stored => data[(k - 1) % PIPESIZE] = k
  BY DEF PipeRing
<1>2. Count = stored - t
  BY Zenon, PipeCounts
<1> HIDE DEF t
<1>3. ASSUME NEW i \in 1 .. stored - t PROVE data[(nread + i - 1) % PIPESIZE] = t + i
  <2>1. i \in Int /\ t + i \in Nat /\ t < t + i /\ t + i <= stored /\ t + i - 1 = (t + i) - 1
    BY <1>1
  <2>2. (nread + i - 1) % PIPESIZE = ((t + i) - 1) % PIPESIZE
    BY Zenon, <2>1, PipeSlots DEF t
  <2> QED
    BY Zenon, <1>1, <2>1, <2>2
<1>4. got = [i \in 1 .. stored - t |-> t + i]
  BY Zenon, <1>2, <1>3
<1> HIDE DEF got
<1>5. got \in Seq(Nat) /\ Len(got) = stored - t /\ \A i \in 1 .. stored - t : got[i] = t + i
  <2>1. got \in [1 .. stored - t -> Nat]
    BY <1>1, <1>4
  <2> QED
    BY <1>1, <1>4, <2>1
<1>6. /\ taken \o got \in Seq(Nat) /\ Len(taken \o got) = t + (stored - t)
      /\ \A k \in 1 .. t + (stored - t) : (taken \o got)[k] = IF k <= t THEN taken[k] ELSE got[k - t]
  <2>1. Len(taken) = t
    BY DEF t
  <2>2. /\ taken \o got \in Seq(Nat) /\ Len(taken \o got) = Len(taken) + Len(got)
        /\ \A k \in 1 .. Len(taken) + Len(got) :
             (taken \o got)[k] = IF k <= Len(taken) THEN taken[k] ELSE got[k - Len(taken)]
    BY Zenon, <1>1, <1>5, ConcatProperties
  <2> QED
    BY Zenon, <1>5, <2>1, <2>2
<1>7. t + (stored - t) = stored
  BY <1>1
<1>8. ASSUME NEW k \in 1 .. stored PROVE (taken \o got)[k] = k
  <2>1. CASE k <= t
    <3>1. k \in 1 .. t
      BY <1>1, <2>1
    <3> QED
      BY Zenon, <1>1, <1>6, <1>7, <2>1, <3>1
  <2>2. CASE ~(k <= t)
    <3>1. k - t \in 1 .. stored - t /\ t + (k - t) = k
      BY <1>1, <2>2
    <3> QED
      BY Zenon, <1>5, <1>6, <1>7, <2>2, <3>1
  <2> QED
    BY Zenon, <2>1, <2>2
<1>9. taken \o got = [k \in 1 .. stored |-> k]
  <2> DEFINE s == taken \o got
  <2>1. s \in Seq(Nat) /\ Len(s) = stored
    BY Zenon, <1>6, <1>7
  <2> HIDE DEF s
  <2>2. s = [k \in 1 .. stored |-> s[k]]
    BY <2>1
  <2> QED
    BY Zenon, <1>8, <2>2 DEF s
<1> QED
  BY Zenon, <1>9 DEF PipeFifo, got

(* The calls on a pipe keep who has its ends, and what sleepers rely on. *)
LEMMA RingUnchanged ==
  ASSUME UNCHANGED ring
  PROVE  /\ PipeRing' = PipeRing /\ Empty' = Empty /\ Full' = Full
         /\ UNCHANGED <<nread, nwrite, stored>>
  BY Zenon DEF ring, PipeRing, Empty, Full

(* A process that returns from a call or goes to close its end. *)
LEMMA ProcsMove ==
  ASSUME PipeProcs, NEW p \in Proc, NEW l \in {"user", "pipeclose_read", "pipeclose_write"},
         pc' = [pc EXCEPT ![p] = l], chan' \in [Proc -> {Nobody, "nread", "nwrite"}], UNCHANGED <<n, killed>>
  PROVE  PipeProcs'
<1>1. l \in PipePc /\ l \notin {"pipewrite", "pipewrite_sleep"}
  BY DEF PipePc
<1>2. pc' \in [Proc -> PipePc] /\ \A q \in Proc : pc'[q] = IF q = p THEN l ELSE pc[q]
  BY Zenon, <1>1 DEF PipeProcs
<1>3. ASSUME NEW q \in Proc, Writing(q)' PROVE n'[q] > 0
  <2>1. q # p /\ Writing(q)
    BY Zenon, <1>1, <1>2, <1>3 DEF Writing
  <2> QED
    BY Zenon, <2>1 DEF PipeProcs
<1> QED
  BY Zenon, <1>2, <1>3 DEF PipeProcs

(* A process that closes no end keeps its own. *)
LEMMA EndsKept ==
  ASSUME PipeEndsInv, NEW p \in Proc, UNCHANGED ends,
         \A q \in Proc : q # p => pc'[q] = pc[q],
         pc'[p] \in {"user", "piperead", "piperead_sleep", "pipewrite", "pipewrite_sleep"},
         Reading(p)' => Reading(p) \/ p \in rend, Writing(p)' => Writing(p) \/ p \in wend
  PROVE  PipeEndsInv'
<1>1. UNCHANGED <<readopen, writeopen, rend, wend, pfreed>> /\ EndsAt(p)
  BY Zenon DEF ends, PipeEndsInv
<1>2. EndsAt(p)' /\ ~Closing(p)'
  BY <1>1 DEF EndsAt, Closing
<1>3. ASSUME NEW q \in Proc, q # p PROVE EndsAt(q)' /\ Closing(q)' = Closing(q)
  <2>1. EndsAt(q) /\ pc'[q] = pc[q]
    BY Zenon, <1>3 DEF PipeEndsInv
  <2> QED
    BY <1>1, <2>1 DEF EndsAt, Reading, Writing, Closing
<1>4. ASSUME NEW q \in Proc, NEW x \in Proc, pc'[q] = pc'[x], Closing(q)' PROVE q = x
  <2>1. Closing(x)'
    BY Zenon, <1>4 DEF Closing
  <2>2. q # p /\ x # p
    BY Zenon, <1>2, <1>4, <2>1
  <2> QED
    BY Zenon, <1>3, <1>4, <2>2 DEF PipeEndsInv
<1>5. \A q \in Proc : EndsAt(q)'
  BY Zenon, <1>2, <1>3
<1>6. /\ (rend' # {} => readopen') /\ (wend' # {} => writeopen')
      /\ pfreed' = (IF readopen' \/ writeopen' THEN 0 ELSE 1)
  BY Zenon, <1>1 DEF PipeEndsInv
<1> QED
  BY Zenon, <1>4, <1>5, <1>6 DEF PipeEndsInv

LEMMA PipereadKeeps ==
  ASSUME PipeInv, NEW p \in Proc, Piperead(p)
  PROVE  PipeInv'
<1>0. PipeTypeOK /\ PipeProcs /\ PipeRing /\ PipeEndsInv /\ PipeSleeps
  BY Zenon DEF PipeInv
<1>1. pc[p] = "piperead" /\ chan[p] = Nobody /\ plock = Nobody /\ UNCHANGED <<killed, ends>>
  BY Zenon DEF Piperead, Running
<1>2. CASE PipereadCopy(p)
  <2>1. stored \in Nat /\ n[p] \in Nat
    BY <1>0 DEF PipeTypeOK, PipeProcs
  <2>2. PipeRing' /\ stored' = stored /\ nwrite' = nwrite /\ nread' \in 0 .. PIPEWORD - 1
    BY Zenon, <1>0, <1>2, <2>1, CopyKeeps
  <2>3. /\ ~(Empty /\ writeopen) /\ chan' = Woken("nwrite") /\ n' = [n EXCEPT ![p] = 0]
        /\ pc' = [pc EXCEPT ![p] = "user"] /\ plock' = plock
    BY Zenon, <1>2 DEF PipereadCopy, Wakeup, Goto
  <2>4. PipeTypeOK'
    BY <1>0, <1>1, <2>2, <2>3 DEF PipeTypeOK, ends
  <2>5. PipeProcs'
    BY <1>0, <1>1, <2>3 DEF PipeProcs, PipePc, Writing, Woken
  <2>30. \A q \in Proc : pc'[q] = IF q = p THEN "user" ELSE pc[q]
    BY Zenon, <1>0, <2>3 DEF PipeProcs
  <2>6. PipeEndsInv'
    BY Zenon, <1>0, <1>1, <2>30, EndsKept DEF Reading, Writing
  <2>7. ASSUME NEW q \in Proc PROVE SleepsAt(q)'
    <3>1. SleepsAt(q) /\ UNCHANGED <<readopen, writeopen, SomeKilled>>
      BY Zenon, <1>0, <1>1 DEF PipeSleeps, SomeKilled, ends
    <3>2. chan'[q] = IF chan[q] = "nwrite" THEN Nobody ELSE chan[q]
      BY Zenon, <2>3 DEF Woken
    <3>3. Nobody \notin {"nread", "nwrite"} /\ Nobody # q
      BY Zenon, BlockingAssumption
    <3>4. plock' = Nobody /\ pc'[q] = (IF q = p THEN "user" ELSE pc[q]) /\ ~(Empty /\ writeopen)
      BY Zenon, <1>1, <2>3, <2>30
    <3> QED
      BY <1>1, <3>1, <3>2, <3>3, <3>4 DEF SleepsAt
  <2> QED
    BY Zenon, <2>2, <2>4, <2>5, <2>6, <2>7 DEF PipeInv, PipeSleeps
<1>3. CASE PipereadWait(p)
  <2>1. /\ PipeRing' /\ Empty' = Empty /\ Full' = Full /\ Empty /\ writeopen
        /\ UNCHANGED <<nread, nwrite, stored, chan>>
    BY Zenon, <1>0, <1>3, RingUnchanged DEF PipereadWait
  <2>2. \/ pc' = [pc EXCEPT ![p] = "user"] /\ n' = [n EXCEPT ![p] = 0] /\ plock' = plock
        \/ pc' = [pc EXCEPT ![p] = "piperead_sleep"] /\ n' = n /\ plock' = p
    BY Zenon, <1>3 DEF PipereadWait, Goto
  <2>3. PipeTypeOK'
    BY Zenon, <1>0, <1>1, <2>1, <2>2 DEF PipeTypeOK, ends
  <2>4. PipeProcs'
    BY <1>0, <1>1, <2>1, <2>2 DEF PipeProcs, PipePc, Writing
  <2>20. /\ \A q \in Proc : q # p => pc'[q] = pc[q]
         /\ \/ pc'[p] = "user" /\ plock' = plock
            \/ pc'[p] = "piperead_sleep" /\ plock' = p
    BY Zenon, <1>0, <2>2 DEF PipeProcs
  <2>5. PipeEndsInv'
    <3>1. Reading(p) /\ ~Writing(p)'
      BY Zenon, <1>1, <2>20 DEF Reading, Writing
    <3> QED
      BY Zenon, <1>0, <1>1, <2>20, <3>1, EndsKept
  <2>6. ASSUME NEW q \in Proc PROVE SleepsAt(q)'
    <3>1. SleepsAt(q) /\ UNCHANGED <<readopen, writeopen, SomeKilled>>
      BY Zenon, <1>0, <1>1 DEF PipeSleeps, SomeKilled, ends
    <3>2. chan'[q] = chan[q] /\ Nobody \notin {"nread", "nwrite"} /\ Nobody # q
      BY Zenon, <2>1, BlockingAssumption
    <3> QED
      BY <1>1, <2>1, <2>20, <3>1, <3>2 DEF SleepsAt
  <2> QED
    BY Zenon, <2>1, <2>3, <2>4, <2>5, <2>6 DEF PipeInv, PipeSleeps
<1> QED
  BY Zenon, <1>2, <1>3 DEF Piperead

LEMMA PipewriteKeeps ==
  ASSUME PipeInv, NEW p \in Proc, Pipewrite(p)
  PROVE  PipeInv'
<1>0. PipeTypeOK /\ PipeProcs /\ PipeRing /\ PipeEndsInv /\ PipeSleeps
  BY Zenon DEF PipeInv
<1>1. /\ pc[p] = "pipewrite" /\ chan[p] = Nobody /\ plock = Nobody /\ UNCHANGED <<killed, ends>>
      /\ n[p] \in Nat /\ n[p] > 0 /\ stored \in Nat
  BY Zenon, <1>0 DEF Pipewrite, Running, PipeProcs, PipeTypeOK, Writing
<1>2. /\ Count = stored - Len(taken) /\ Len(taken) \in Nat /\ Count \in 0 .. PIPESIZE
      /\ Full <=> stored = Len(taken) + PIPESIZE
  <2>1. /\ Count = stored - Len(taken) /\ Len(taken) \in Nat
        /\ Full <=> stored = Len(taken) + PIPESIZE
    BY Zenon, <1>0, <1>1, PipeCounts
  <2>2. Len(taken) <= stored /\ stored <= Len(taken) + PIPESIZE
    BY Zenon, <1>0 DEF PipeRing
  <2> QED
    BY <1>1, <2>1, <2>2, PipeConsts
<1>3. CASE PipewriteDone(p)
  <2>1. /\ n[p] <= PIPESIZE - Count /\ PipewriteStore(p, n[p]) /\ chan' = Woken("nread")
        /\ n' = [n EXCEPT ![p] = 0] /\ pc' = [pc EXCEPT ![p] = "user"] /\ plock' = plock
    BY Zenon, <1>3 DEF PipewriteDone, Wakeup, Goto
  <2>2. PipeRing' /\ stored' \in Nat /\ nwrite' \in 0 .. PIPEWORD - 1 /\ nread' = nread
    BY Zenon, <1>0, <1>1, <2>1, StoreKeeps
  <2>3. ~Full
    <3>1. /\ n[p] <= PIPESIZE - Count /\ n[p] \in Nat /\ n[p] > 0 /\ Count = stored - Len(taken)
          /\ stored \in Nat /\ Len(taken) \in Nat /\ PIPESIZE \in Nat
          /\ Full => stored = Len(taken) + PIPESIZE
      BY Zenon, <1>1, <1>2, <2>1, PipeConsts
    <3> QED
      BY <3>1
  <2>4. PipeTypeOK'
    BY <1>0, <1>1, <2>1, <2>2 DEF PipeTypeOK, ends
  <2>5. PipeProcs'
    BY <1>0, <1>1, <2>1 DEF PipeProcs, PipePc, Writing, Woken
  <2>30. \A q \in Proc : pc'[q] = IF q = p THEN "user" ELSE pc[q]
    BY Zenon, <1>0, <2>1 DEF PipeProcs
  <2>6. PipeEndsInv'
    BY Zenon, <1>0, <1>1, <2>30, EndsKept DEF Reading, Writing
  <2>7. ASSUME NEW q \in Proc PROVE SleepsAt(q)'
    <3>1. SleepsAt(q) /\ plock' = Nobody
      BY Zenon, <1>0, <1>1, <2>1 DEF PipeSleeps
    <3>2. chan'[q] = IF chan[q] = "nread" THEN Nobody ELSE chan[q]
      BY Zenon, <2>1 DEF Woken
    <3>3. Nobody \notin {"nread", "nwrite"} /\ Nobody # q
      BY Zenon, BlockingAssumption
    <3>4. pc'[q] = IF q = p THEN "user" ELSE pc[q]
      BY Zenon, <2>30
    <3> QED
      BY <1>1, <2>3, <3>1, <3>2, <3>3, <3>4 DEF SleepsAt
  <2> QED
    BY Zenon, <2>2, <2>4, <2>5, <2>6, <2>7 DEF PipeInv, PipeSleeps
<1>4. CASE PipewriteFull(p)
  <2> DEFINE m == PIPESIZE - Count
  <2>1. /\ n[p] > m /\ PipewriteStore(p, m)
        /\ \/ /\ ~readopen \/ killed[p]
              /\ pc' = [pc EXCEPT ![p] = "user"] /\ n' = [n EXCEPT ![p] = 0] /\ UNCHANGED <<chan, plock>>
           \/ /\ readopen /\ chan' = Woken("nread") /\ n' = [n EXCEPT ![p] = @ - m]
              /\ pc' = [pc EXCEPT ![p] = "pipewrite_sleep"] /\ plock' = p
    BY Zenon, <1>4 DEF PipewriteFull, Wakeup, Goto
  <2>2. m \in Nat /\ m <= PIPESIZE - Count /\ stored + m = Len(taken) + PIPESIZE
    BY <1>1, <1>2, PipeConsts
  <2> HIDE DEF m
  <2>3. /\ PipeRing' /\ stored' = stored + m /\ stored' \in Nat /\ nwrite' \in 0 .. PIPEWORD - 1
        /\ nread' = nread /\ taken' = taken
    BY Zenon, <1>0, <1>1, <2>1, <2>2, StoreKeeps
  <2>4. Full'
    <3>1. nread' = Len(taken) % PIPEWORD /\ nwrite' = (Len(taken) + PIPESIZE) % PIPEWORD
      BY Zenon, <2>2, <2>3 DEF PipeRing
    <3>2. /\ Len(taken) + PIPESIZE \in Nat /\ Len(taken) <= Len(taken) + PIPESIZE
          /\ Len(taken) + PIPESIZE <= Len(taken) + PIPESIZE
      BY <1>2, PipeConsts
    <3> QED
      BY Zenon, <1>2, <3>1, <3>2, CounterFacts DEF Full
  <2>5. PipeTypeOK'
    BY Zenon, <1>0, <1>1, <2>1, <2>3 DEF PipeTypeOK, ends
  <2>6. PipeProcs'
    <3>0. n[p] > m
      BY Zenon, <2>1
    <3>1. n[p] - m \in Nat /\ n[p] - m > 0
      BY <1>1, <2>2, <3>0
    <3>2. n' \in [Proc -> Nat]
      BY <1>0, <2>1, <3>1 DEF PipeProcs
    <3> QED
      BY <1>0, <1>1, <2>1, <3>1, <3>2 DEF PipeProcs, PipePc, Writing, Woken
  <2>70. /\ \A q \in Proc : q # p => pc'[q] = pc[q]
         /\ pc'[p] \in {"user", "pipewrite_sleep"}
    BY Zenon, <1>0, <2>1 DEF PipeProcs
  <2>7. PipeEndsInv'
    <3>1. Writing(p) /\ ~Reading(p)'
      BY Zenon, <1>1, <2>70 DEF Reading, Writing
    <3> QED
      BY Zenon, <1>0, <1>1, <2>70, <3>1, EndsKept
  <2>8. ASSUME NEW q \in Proc
        PROVE  /\ SleepsAt(q) /\ UNCHANGED <<readopen, writeopen, SomeKilled>>
               /\ Nobody \notin {"nread", "nwrite"} /\ Nobody # q
               /\ pc[q] = "piperead" => readopen
    <3>1. SleepsAt(q) /\ EndsAt(q) /\ UNCHANGED <<readopen, writeopen, SomeKilled>>
      BY Zenon, <1>0, <1>1 DEF PipeSleeps, PipeEndsInv, SomeKilled, ends
    <3>2. rend # {} => readopen
      BY Zenon, <1>0 DEF PipeEndsInv
    <3>3. pc[q] = "piperead" => q \in rend
      BY Zenon, <3>1 DEF EndsAt, Reading
    <3> QED
      BY Zenon, <3>1, <3>2, <3>3, BlockingAssumption
  <2>9. ASSUME ~readopen \/ killed[p], pc' = [pc EXCEPT ![p] = "user"], UNCHANGED <<chan, plock>>,
               NEW q \in Proc
        PROVE  SleepsAt(q)'
    <3>1. readopen => SomeKilled
      BY Zenon, <2>9 DEF SomeKilled
    <3>2. pc'[q] = (IF q = p THEN "user" ELSE pc[q]) /\ chan'[q] = chan[q] /\ plock' = Nobody
      BY Zenon, <1>0, <1>1, <2>9 DEF PipeProcs
    <3> QED
      BY <1>1, <2>4, <2>8, <3>1, <3>2 DEF SleepsAt
  <2>10. ASSUME readopen, chan' = Woken("nread"), pc' = [pc EXCEPT ![p] = "pipewrite_sleep"], plock' = p,
                NEW q \in Proc
         PROVE  SleepsAt(q)'
    <3>1. /\ pc'[q] = IF q = p THEN "pipewrite_sleep" ELSE pc[q]
          /\ chan'[q] = IF chan[q] = "nread" THEN Nobody ELSE chan[q]
      BY Zenon, <1>0, <2>10 DEF PipeProcs, Woken
    <3>2. /\ SleepsAt(q) /\ UNCHANGED <<readopen, writeopen>> /\ readopen /\ plock' = p
          /\ Nobody \notin {"nread", "nwrite"} /\ Nobody # q
      BY Zenon, <2>8, <2>10
    <3>3. CASE q = p
      <4>1. pc[p] = "pipewrite" /\ plock = Nobody /\ Full' /\ chan[p] = Nobody
        BY Zenon, <1>1, <2>4
      <4> QED
        BY <3>1, <3>2, <3>3, <4>1 DEF SleepsAt
    <3>4. CASE q # p
      <4>1. pc[p] = "pipewrite" /\ plock = Nobody /\ Full'
        BY Zenon, <1>1, <2>4
      <4> QED
        BY <3>1, <3>2, <3>4, <4>1 DEF SleepsAt
    <3> QED
      BY Zenon, <3>3, <3>4
  <2>11. PipeSleeps'
    BY Zenon, <2>1, <2>9, <2>10 DEF PipeSleeps
  <2> QED
    BY Zenon, <2>3, <2>5, <2>6, <2>7, <2>11 DEF PipeInv
<1> QED
  BY Zenon, <1>3, <1>4 DEF Pipewrite

LEMMA PipeSleepKeeps ==
  ASSUME PipeInv, NEW p \in Proc, NEW k \in {1, PIPESIZE + 1},
         PipereadSleep(p) \/ PipewriteSleep(p) \/ PipereadCall(p, k) \/ PipewriteCall(p, k)
                          \/ (Kill(p) /\ UNCHANGED pipeVars)
  PROVE  PipeInv'
<1>0. PipeTypeOK /\ PipeProcs /\ PipeRing /\ PipeEndsInv /\ PipeSleeps
  BY Zenon DEF PipeInv
<1>1. UNCHANGED ring /\ UNCHANGED ends
  BY Zenon DEF PipereadSleep, PipewriteSleep, PipereadCall, PipewriteCall, pipeVars, ring, ends
<1>10. ASSUME NEW q \in Proc
       PROVE  /\ SleepsAt(q) /\ SleepsAt(p) /\ UNCHANGED <<readopen, writeopen>>
              /\ Nobody \notin {"nread", "nwrite"} /\ Nobody # q
  BY Zenon, <1>0, <1>1, BlockingAssumption DEF PipeSleeps, ends
<1>2. PipeRing' /\ Empty' = Empty /\ Full' = Full /\ UNCHANGED <<nread, nwrite, stored>>
  BY Zenon, <1>0, <1>1, RingUnchanged
<1>3. PipeTypeOK'
  <2>1. plock' \in Proc \cup {Nobody}
    BY Zenon, <1>0 DEF PipeTypeOK, PipereadSleep, PipewriteSleep, PipereadCall, PipewriteCall, pipeVars
  <2> QED
    BY Zenon, <1>0, <1>1, <1>2, <2>1 DEF PipeTypeOK, ends
<1>4. k \in Nat /\ k > 0
  BY PipeConsts
<1>5. CASE PipereadSleep(p)
  <2>1. PipeProcs'
    BY Zenon, <1>0, <1>5 DEF PipeProcs, PipePc, PipereadSleep, SleepOn, Goto, Writing
  <2>0. /\ pc[p] = "piperead_sleep" /\ plock' = Nobody /\ killed' = killed
        /\ \A q \in Proc : /\ pc'[q] = IF q = p THEN "piperead" ELSE pc[q]
                           /\ chan'[q] = IF q = p THEN "nread" ELSE chan[q]
    BY Zenon, <1>0, <1>5 DEF PipeProcs, PipereadSleep, SleepOn, Goto
  <2>2. PipeEndsInv'
    <3>1. Reading(p) /\ ~Writing(p)'
      BY Zenon, <2>0 DEF Reading, Writing
    <3> QED
      BY Zenon, <1>0, <1>1, <2>0, <3>1, EndsKept
  <2>3. ASSUME NEW q \in Proc PROVE SleepsAt(q)'
    <3>1. SomeKilled' = SomeKilled
      BY Zenon, <2>0 DEF SomeKilled
    <3> QED
      BY <1>2, <1>10, <2>0, <3>1 DEF SleepsAt
  <2> QED
    BY Zenon, <1>2, <1>3, <2>1, <2>2, <2>3 DEF PipeInv, PipeSleeps
<1>6. CASE PipewriteSleep(p)
  <2>1. PipeProcs'
    BY Zenon, <1>0, <1>6 DEF PipeProcs, PipePc, PipewriteSleep, SleepOn, Goto, Writing
  <2>0. /\ pc[p] = "pipewrite_sleep" /\ plock' = Nobody /\ killed' = killed
        /\ \A q \in Proc : /\ pc'[q] = IF q = p THEN "pipewrite" ELSE pc[q]
                           /\ chan'[q] = IF q = p THEN "nwrite" ELSE chan[q]
    BY Zenon, <1>0, <1>6 DEF PipeProcs, PipewriteSleep, SleepOn, Goto
  <2>2. PipeEndsInv'
    <3>1. Writing(p) /\ ~Reading(p)'
      BY Zenon, <2>0 DEF Reading, Writing
    <3> QED
      BY Zenon, <1>0, <1>1, <2>0, <3>1, EndsKept
  <2>3. ASSUME NEW q \in Proc PROVE SleepsAt(q)'
    <3>1. SomeKilled' = SomeKilled
      BY Zenon, <2>0 DEF SomeKilled
    <3> QED
      BY <1>2, <1>10, <2>0, <3>1 DEF SleepsAt
  <2> QED
    BY Zenon, <1>2, <1>3, <2>1, <2>2, <2>3 DEF PipeInv, PipeSleeps
<1>7. CASE PipereadCall(p, k)
  <2>0. /\ pc[p] = "user" /\ p \in rend /\ n' = [n EXCEPT ![p] = k]
        /\ pc' = [pc EXCEPT ![p] = "piperead"] /\ UNCHANGED <<chan, killed, plock>>
    BY Zenon, <1>7 DEF PipereadCall, User, Goto, pipeVars
  <2>1. PipeProcs'
    BY <1>0, <1>4, <2>0 DEF PipeProcs, PipePc, Writing
  <2>10. \A q \in Proc : pc'[q] = IF q = p THEN "piperead" ELSE pc[q]
    BY Zenon, <1>0, <2>0 DEF PipeProcs
  <2>2. PipeEndsInv'
    <3>1. ~Writing(p)'
      BY Zenon, <2>10 DEF Writing
    <3> QED
      BY Zenon, <1>0, <1>1, <2>0, <2>10, <3>1, EndsKept
  <2>3. ASSUME NEW q \in Proc PROVE SleepsAt(q)'
    <3>1. SomeKilled' = SomeKilled /\ chan'[q] = chan[q] /\ plock' = plock /\ pc[p] = "user"
      BY Zenon, <2>0 DEF SomeKilled
    <3> QED
      BY <1>2, <1>10, <2>10, <3>1 DEF SleepsAt
  <2> QED
    BY Zenon, <1>2, <1>3, <2>1, <2>2, <2>3 DEF PipeInv, PipeSleeps
<1>8. CASE PipewriteCall(p, k)
  <2>0. /\ pc[p] = "user" /\ p \in wend /\ n' = [n EXCEPT ![p] = k]
        /\ pc' = [pc EXCEPT ![p] = "pipewrite"] /\ UNCHANGED <<chan, killed, plock>>
    BY Zenon, <1>8 DEF PipewriteCall, User, Goto, pipeVars
  <2>1. PipeProcs'
    BY <1>0, <1>4, <2>0 DEF PipeProcs, PipePc, Writing
  <2>10. \A q \in Proc : pc'[q] = IF q = p THEN "pipewrite" ELSE pc[q]
    BY Zenon, <1>0, <2>0 DEF PipeProcs
  <2>2. PipeEndsInv'
    <3>1. ~Reading(p)'
      BY Zenon, <2>10 DEF Reading
    <3> QED
      BY Zenon, <1>0, <1>1, <2>0, <2>10, <3>1, EndsKept
  <2>3. ASSUME NEW q \in Proc PROVE SleepsAt(q)'
    <3>1. SomeKilled' = SomeKilled /\ chan'[q] = chan[q] /\ plock' = plock /\ pc[p] = "user"
      BY Zenon, <2>0 DEF SomeKilled
    <3> QED
      BY <1>2, <1>10, <2>10, <3>1 DEF SleepsAt
  <2> QED
    BY Zenon, <1>2, <1>3, <2>1, <2>2, <2>3 DEF PipeInv, PipeSleeps
<1>9. CASE Kill(p) /\ UNCHANGED pipeVars
  <2>0. /\ killed' = [killed EXCEPT ![p] = TRUE] /\ chan' = [chan EXCEPT ![p] = Nobody]
        /\ UNCHANGED <<pc, n, plock>>
    BY Zenon, <1>9 DEF Kill, pipeVars
  <2>1. PipeProcs'
    BY Zenon, <1>0, <2>0 DEF PipeProcs, Writing
  <2>2. PipeEndsInv'
    BY Zenon, <1>0, <1>1, <2>0 DEF PipeEndsInv, EndsAt, Reading, Writing, Closing, ends
  <2>3. SomeKilled'
    BY Zenon, <1>0, <2>0 DEF PipeProcs, SomeKilled
  <2>4. ASSUME NEW q \in Proc PROVE SleepsAt(q)'
    <3>1. pc' = pc /\ plock' = plock /\ chan'[q] \in {chan[q], Nobody}
      BY Zenon, <1>0, <2>0 DEF PipeProcs
    <3> QED
      BY <1>2, <1>10, <2>3, <3>1 DEF SleepsAt
  <2> QED
    BY Zenon, <1>2, <1>3, <2>1, <2>2, <2>4 DEF PipeInv, PipeSleeps
<1> QED
  BY Zenon, <1>5, <1>6, <1>7, <1>8, <1>9

LEMMA PipeEndsKeeps ==
  ASSUME PipeInv, NEW p \in Proc, NEW q \in Proc, Fileclose(p) \/ Pipeclose(p) \/ PipeFork(p, q)
  PROVE  PipeInv'
<1>0. PipeTypeOK /\ PipeProcs /\ PipeRing /\ PipeEndsInv /\ PipeSleeps
  BY Zenon DEF PipeInv
<1>1. UNCHANGED ring /\ UNCHANGED <<killed, n, plock>>
  BY Zenon DEF Fileclose, Pipeclose, PipeFork, ring
<1>2. PipeRing' /\ Empty' = Empty /\ Full' = Full /\ UNCHANGED <<nread, nwrite, stored>>
  BY Zenon, <1>0, <1>1, RingUnchanged
<1>10. ASSUME NEW x \in Proc
       PROVE  /\ SleepsAt(x) /\ SleepsAt(p) /\ EndsAt(x) /\ EndsAt(p)
              /\ Nobody \notin {"nread", "nwrite"} /\ Nobody # x
  BY Zenon, <1>0, BlockingAssumption DEF PipeSleeps, PipeEndsInv
<1>11. SomeKilled' = SomeKilled /\ plock' = plock
  BY Zenon, <1>1 DEF SomeKilled
<1>12. /\ \A x, y \in Proc : pc[x] = pc[y] /\ Closing(x) => x = y
       /\ (rend # {} => readopen) /\ (wend # {} => writeopen)
       /\ pfreed = (IF readopen \/ writeopen THEN 0 ELSE 1)
  BY Zenon, <1>0 DEF PipeEndsInv
<1>3. CASE Fileclose(p)
  <2>0. /\ pc[p] = "user" /\ UNCHANGED <<chan, readopen, writeopen, pfreed>>
        /\ \A x \in Proc : x # p => pc'[x] = pc[x]
        /\ \/ /\ p \in rend /\ rend' = rend \ {p} /\ wend' = wend
              /\ pc'[p] = IF rend' = {} THEN "pipeclose_read" ELSE "user"
           \/ /\ p \in wend /\ wend' = wend \ {p} /\ rend' = rend
              /\ pc'[p] = IF wend' = {} THEN "pipeclose_write" ELSE "user"
    <3>1. pc[p] = "user" /\ UNCHANGED <<chan, readopen, writeopen, pfreed>>
      BY Zenon, <1>3 DEF Fileclose
    <3>2. \A x \in Proc : x # p => pc'[x] = pc[x]
      BY Zenon, <1>0, <1>3 DEF Fileclose, PipeProcs, Goto
    <3>3. \/ /\ p \in rend /\ rend' = rend \ {p} /\ wend' = wend
             /\ pc'[p] = IF rend' = {} THEN "pipeclose_read" ELSE "user"
          \/ /\ p \in wend /\ wend' = wend \ {p} /\ rend' = rend
             /\ pc'[p] = IF wend' = {} THEN "pipeclose_write" ELSE "user"
      BY Zenon, <1>0, <1>3, <3>1 DEF Fileclose, PipeProcs, Goto
    <3> QED
      BY Zenon, <3>1, <3>2, <3>3
  <2>1. PipeTypeOK'
    BY Zenon, <1>0, <1>1, <1>2, <1>3 DEF PipeTypeOK, Fileclose
  <2>2. PipeProcs'
    <3>1. \E l \in {"user", "pipeclose_read", "pipeclose_write"} : pc' = [pc EXCEPT ![p] = l]
      BY Zenon, <1>0, <1>3 DEF Fileclose, PipeProcs, Goto
    <3> QED
      BY Zenon, <1>0, <1>1, <2>0, <3>1, ProcsMove DEF PipeProcs
  <2>3. ASSUME NEW x \in Proc PROVE EndsAt(x)'
    BY <1>10, <1>12, <2>0 DEF EndsAt, Reading, Writing
  <2>4. ASSUME NEW x \in Proc, NEW y \in Proc, pc'[x] = pc'[y], Closing(x)' PROVE x = y
    <3>1. CASE x # p /\ y # p
      BY Zenon, <1>12, <2>0, <2>4, <3>1 DEF Closing
    <3>2. ASSUME NEW z \in Proc, z # p, pc'[z] = pc'[p], Closing(z)' PROVE FALSE
      BY <1>10, <2>0, <3>2 DEF EndsAt, Closing
    <3>3. Closing(y)'
      BY Zenon, <2>4 DEF Closing
    <3> QED
      BY Zenon, <2>4, <3>1, <3>2, <3>3
  <2>5. PipeEndsInv'
    <3>1. (rend' # {} => readopen') /\ (wend' # {} => writeopen')
      BY Zenon, <1>12, <2>0
    <3>2. pfreed' = (IF readopen' \/ writeopen' THEN 0 ELSE 1)
      BY Zenon, <1>12, <2>0
    <3> QED
      BY Zenon, <2>3, <2>4, <3>1, <3>2 DEF PipeEndsInv
  <2>6. ASSUME NEW x \in Proc PROVE SleepsAt(x)'
    <3>1. /\ pc[p] = "user" /\ UNCHANGED <<readopen, writeopen>> /\ chan'[x] = chan[x]
          /\ x # p => pc'[x] = pc[x]
          /\ pc'[p] \in {"user", "pipeclose_read", "pipeclose_write"}
      BY Zenon, <2>0
    <3> QED
      BY <1>2, <1>10, <1>11, <3>1 DEF SleepsAt
  <2> QED
    BY Zenon, <1>2, <2>1, <2>2, <2>5, <2>6 DEF PipeInv, PipeSleeps
<1>4. CASE Pipeclose(p)
  <2>0. /\ plock = Nobody /\ UNCHANGED <<rend, wend>>
        /\ \A x \in Proc : pc'[x] = IF x = p THEN "user" ELSE pc[x]
        /\ pfreed' = (IF readopen' \/ writeopen' THEN pfreed ELSE pfreed + 1)
        /\ \/ pc[p] = "pipeclose_write" /\ writeopen' = FALSE /\ chan' = Woken("nread") /\ readopen' = readopen
           \/ pc[p] = "pipeclose_read" /\ readopen' = FALSE /\ chan' = Woken("nwrite") /\ writeopen' = writeopen
    BY Zenon, <1>0, <1>4 DEF Pipeclose, PipeProcs, Goto, Wakeup
  <2>1. PipeTypeOK'
    BY Zenon, <1>0, <1>1, <1>2, <1>4 DEF PipeTypeOK, Pipeclose
  <2>2. PipeProcs'
    <3>1. pc' = [pc EXCEPT ![p] = "user"]
      BY Zenon, <1>4 DEF Pipeclose, Goto
    <3>2. chan' \in [Proc -> {Nobody, "nread", "nwrite"}]
      BY Zenon, <1>0, <2>0 DEF PipeProcs, Woken
    <3> QED
      BY Zenon, <1>0, <1>1, <3>1, <3>2, ProcsMove
  <2>3. ASSUME NEW x \in Proc PROVE EndsAt(x)' /\ (Closing(x)' => x # p)
    <3>1. /\ pc'[x] = (IF x = p THEN "user" ELSE pc[x]) /\ UNCHANGED <<rend, wend>>
          /\ \/ pc[p] = "pipeclose_write" /\ readopen' = readopen
             \/ pc[p] = "pipeclose_read" /\ writeopen' = writeopen
      BY Zenon, <2>0
    <3>2. pc[x] = pc[p] /\ Closing(p) => x = p
      BY Zenon, <1>12
    <3> QED
      BY <1>10, <3>1, <3>2 DEF EndsAt, Reading, Writing, Closing
  <2>4. ASSUME NEW x \in Proc, NEW y \in Proc, pc'[x] = pc'[y], Closing(x)' PROVE x = y
    <3>1. Closing(y)'
      BY Zenon, <2>4 DEF Closing
    <3>2. x # p /\ y # p
      BY Zenon, <2>3, <2>4, <3>1
    <3> QED
      BY Zenon, <1>12, <2>0, <2>4, <3>2 DEF Closing
  <2>5. PipeEndsInv'
    <3>1. /\ (rend' # {} => readopen') /\ (wend' # {} => writeopen')
          /\ pfreed' = (IF readopen' \/ writeopen' THEN 0 ELSE 1)
      <4>1. /\ readopen \in BOOLEAN /\ writeopen \in BOOLEAN
            /\ pc[p] = "pipeclose_write" => wend = {} /\ writeopen
            /\ pc[p] = "pipeclose_read" => rend = {} /\ readopen
        BY Zenon, <1>0, <1>10 DEF PipeTypeOK, EndsAt
      <4>2. /\ pfreed' = (IF readopen' \/ writeopen' THEN pfreed ELSE pfreed + 1) /\ UNCHANGED <<rend, wend>>
            /\ \/ pc[p] = "pipeclose_write" /\ writeopen' = FALSE /\ readopen' = readopen
               \/ pc[p] = "pipeclose_read" /\ readopen' = FALSE /\ writeopen' = writeopen
        BY Zenon, <2>0
      <4>3. pfreed = 0
        BY Zenon, <1>12, <4>1, <4>2
      <4> QED
        BY <1>12, <4>1, <4>2, <4>3
    <3> QED
      BY Zenon, <2>3, <2>4, <3>1 DEF PipeEndsInv
  <2>6. ASSUME NEW x \in Proc PROVE SleepsAt(x)'
    <3>1. /\ plock = Nobody /\ pc'[x] = IF x = p THEN "user" ELSE pc[x]
          /\ \/ /\ pc[p] = "pipeclose_write" /\ readopen' = readopen
                /\ chan'[x] = IF chan[x] = "nread" THEN Nobody ELSE chan[x]
             \/ /\ pc[p] = "pipeclose_read" /\ writeopen' = writeopen
                /\ chan'[x] = IF chan[x] = "nwrite" THEN Nobody ELSE chan[x]
      BY Zenon, <2>0 DEF Woken
    <3> QED
      BY <1>2, <1>10, <1>11, <3>1 DEF SleepsAt
  <2> QED
    BY Zenon, <1>2, <2>1, <2>2, <2>5, <2>6 DEF PipeInv, PipeSleeps
<1>5. CASE PipeFork(p, q)
  <2>0. /\ pc[p] = "user" /\ pc[q] = "unborn" /\ UNCHANGED <<chan, readopen, writeopen, pfreed>>
        /\ rend' = (IF p \in rend THEN rend \cup {q} ELSE rend)
        /\ wend' = (IF p \in wend THEN wend \cup {q} ELSE wend)
        /\ \A x \in Proc : pc'[x] = IF x = q THEN "user" ELSE pc[x]
    BY Zenon, <1>0, <1>5 DEF PipeFork, User, Goto, PipeProcs
  <2>1. PipeTypeOK'
    BY Zenon, <1>0, <1>1, <1>2, <2>0 DEF PipeTypeOK
  <2>2. PipeProcs'
    <3>1. pc' = [pc EXCEPT ![q] = "user"] /\ q \in Proc
      BY Zenon, <1>5 DEF PipeFork, Goto
    <3> QED
      BY Zenon, <1>0, <1>1, <2>0, <3>1, ProcsMove DEF PipeProcs
  <2>3. ASSUME NEW x \in Proc PROVE EndsAt(x)' /\ (Closing(x)' => x # q)
    BY <1>10, <2>0 DEF EndsAt, Reading, Writing, Closing
  <2>4. ASSUME NEW x \in Proc, NEW y \in Proc, pc'[x] = pc'[y], Closing(x)' PROVE x = y
    <3>1. Closing(y)'
      BY Zenon, <2>4 DEF Closing
    <3>2. x # q /\ y # q
      BY Zenon, <2>3, <2>4, <3>1
    <3> QED
      BY Zenon, <1>12, <2>0, <2>4, <3>2 DEF Closing
  <2>5. PipeEndsInv'
    <3>1. (rend' # {} => readopen') /\ (wend' # {} => writeopen')
      BY Zenon, <1>12, <2>0
    <3>2. pfreed' = (IF readopen' \/ writeopen' THEN 0 ELSE 1)
      BY Zenon, <1>12, <2>0
    <3> QED
      BY Zenon, <2>3, <2>4, <3>1, <3>2 DEF PipeEndsInv
  <2>6. ASSUME NEW x \in Proc PROVE SleepsAt(x)'
    <3>1. /\ pc[q] = "unborn" /\ UNCHANGED <<readopen, writeopen>> /\ chan'[x] = chan[x]
          /\ pc'[x] = IF x = q THEN "user" ELSE pc[x]
      BY Zenon, <2>0
    <3> QED
      BY <1>2, <1>10, <1>11, <3>1 DEF SleepsAt
  <2> QED
    BY Zenon, <1>2, <2>1, <2>2, <2>5, <2>6 DEF PipeInv, PipeSleeps
<1> QED
  BY Zenon, <1>3, <1>4, <1>5

LEMMA PipeKeeps ==
  ASSUME PipeInv, PipeNext
  PROVE  PipeInv'
<1>1. 1 \in {1, PIPESIZE + 1}
  OBVIOUS
<1> QED
  BY Zenon, <1>1, PipereadKeeps, PipewriteKeeps, PipeSleepKeeps, PipeEndsKeeps DEF PipeNext, PipeStep

-----------------------------------------------------------------------------
(* The whole. *)

(* A device that does not move is as it was initially, and sound. *)
LEMMA IdleIsSound ==
  /\ PipeInit => PipeTypeOK /\ PipeRing /\ stored \in Nat /\ pfreed = 0
  /\ ConsoleInit => ConsoleTypeOK /\ LinesInOrder /\ EditorInBounds /\ CursorOnScreen /\ ilk = Nobody
  /\ ClockInit => ClockTypeOK
<1>1. ASSUME PipeInit PROVE PipeTypeOK /\ PipeRing /\ stored \in Nat /\ pfreed = 0
  <2>1. PipeTypeOK /\ pfreed = 0
    BY <1>1, PipeAssumption DEF PipeInit, PipeTypeOK
  <2>2. PipeRing
    <3>1. 0 % PIPEWORD = 0 /\ taken = << >> /\ Len(<< >>) = 0 /\ << >> \in Seq(Nat)
      BY <1>1, PipeConsts DEF PipeInit
    <3> QED
      BY <1>1, <3>1, PipeConsts DEF PipeInit, PipeRing
  <2> QED
    BY <2>1, <2>2 DEF PipeTypeOK
<1>2. ASSUME ConsoleInit
      PROVE  ConsoleTypeOK /\ LinesInOrder /\ EditorInBounds /\ CursorOnScreen /\ ilk = Nobody
  <2>1. ConsoleTypeOK /\ ilk = Nobody
    BY <1>2, InputConsts DEF ConsoleInit, ConsoleTypeOK, Char
  <2>3. Word(w - r) = 0 /\ Word(e - r) = 0
    BY <1>2, InputConsts DEF ConsoleInit, Word
  <2>4. EditorInBounds
    BY <1>2, <2>3, InputConsts DEF ConsoleInit, EditorInBounds
  <2>5. LinesInOrder
    <3>1. Between(r, w) = [i \in 1 .. 0 |-> At(r + i - 1)]
      BY Zenon, <2>3 DEF Between
    <3>2. [i \in 1 .. 0 |-> At(r + i - 1)] = << >>
      OBVIOUS
    <3> QED
      BY Zenon, <1>2, <3>1, <3>2 DEF ConsoleInit, LinesInOrder
  <2>6. CursorOnScreen
    <3>1. ROWS - 1 \in Nat /\ ROWS - 1 >= 1 /\ COLS \in Nat /\ COLS >= 1
      BY ConsoleAssumption
    <3>2. (ROWS - 1) * COLS >= 1 /\ (ROWS - 1) * COLS \in Nat
      BY <3>1
    <3>3. pos = 0 \/ pos = (ROWS - 1) * COLS - 1
      BY Zenon, <1>2 DEF ConsoleInit
    <3> DEFINE L == (ROWS - 1) * COLS
    <3> HIDE DEF L
    <3>4. pos \in 0 .. L - 1
      BY <3>2, <3>3 DEF L
    <3> QED
      BY Zenon, <3>4 DEF CursorOnScreen, L
  <2> QED
    BY Zenon, <2>1, <2>4, <2>5, <2>6
<1>3. ASSUME ClockInit PROVE ClockTypeOK
  BY <1>3, ClockAssumption DEF ClockInit, ClockTypeOK
<1> QED
  BY Zenon, <1>1, <1>2, <1>3

LEMMA DevInitInv == DevInit => DevInv
<1> SUFFICES ASSUME DevInit PROVE DevInv
  OBVIOUS
<1>1. /\ part \in {"pipe", "console", "clock"} /\ PipeInit /\ ConsoleInit /\ ClockInit
      /\ pc \in [Proc -> {"user", "unborn"}] /\ chan = [p \in Proc |-> Nobody]
      /\ killed = [p \in Proc |-> FALSE] /\ n = [p \in Proc |-> 0]
  BY Zenon DEF DevInit
<1>2. CASE part = "pipe"
  <2>1. PipeTypeOK /\ PipeRing
    BY Zenon, <1>1, IdleIsSound
  <2>2. PipeProcs
    BY Zenon, <1>1 DEF PipeProcs, PipePc, Writing
  <2>3. PipeEndsInv
    <3>1. \A p \in Proc : pc[p] = IF p = Creator THEN "user" ELSE "unborn"
      BY Zenon, <1>2 DEF DevInit
    <3> QED
      BY Zenon, <1>1, <3>1 DEF PipeInit, PipeEndsInv, EndsAt, Reading, Writing, Closing
  <2>4. PipeSleeps
    BY Zenon, <1>1, BlockingAssumption DEF PipeInit, PipeSleeps, SleepsAt
  <2> QED
    BY Zenon, <1>1, <1>2, <2>1, <2>2, <2>3, <2>4 DEF DevInv, PipeInv
<1>3. CASE part = "console"
  <2>1. ConsoleTypeOK /\ LinesInOrder /\ EditorInBounds /\ CursorOnScreen
    BY Zenon, <1>1, IdleIsSound
  <2>2. ConsoleProcs
    BY Zenon, <1>1 DEF ConsoleProcs, ConsolePc
  <2>3. ConsoleSleeps /\ ConsoleLocks /\ ReaderNotForgotten
    BY Zenon, <1>1, BlockingAssumption DEF ConsoleInit, ConsoleSleeps, ConsoleLocks, ReaderNotForgotten
  <2> QED
    BY <1>1, <1>3, <2>1, <2>2, <2>3 DEF DevInv, ConsoleInv
<1>4. CASE part = "clock"
  <2>1. ClockTypeOK /\ ClockProcs
    BY <1>1, IdleIsSound, ClockAssumption DEF ClockProcs, ClockPc
  <2>2. ClockCounts /\ SleepsLongEnough
    BY Zenon, <1>1 DEF ClockCounts, SleepsLongEnough
  <2>3. ClockSleeps /\ SleeperNotForgotten
    BY Zenon, <1>1, BlockingAssumption DEF ClockInit, ClockSleeps, SleeperNotForgotten
  <2> QED
    BY Zenon, <1>1, <1>4, <2>1, <2>2, <2>3 DEF DevInv, ClockInv
<1> QED
  BY Zenon, <1>1, <1>2, <1>3, <1>4

LEMMA DevStepInv == DevInv /\ [PipeMoves \/ ConsoleMoves \/ ClockMoves]_devVars => DevInv'
<1> SUFFICES ASSUME DevInv, [PipeMoves \/ ConsoleMoves \/ ClockMoves]_devVars PROVE DevInv'
  OBVIOUS
<1>1. ASSUME UNCHANGED <<part, consVars, clockVars>>, part = "pipe", PipeInv' PROVE DevInv'
  <2>1. ConsoleInit /\ ClockInit
    BY Zenon, <1>1 DEF DevInv
  <2>2. ConsoleInit' /\ ClockInit'
    BY Zenon, <1>1, <2>1 DEF ConsoleInit, ClockInit, consVars, clockVars
  <2> QED
    BY Zenon, <1>1, <2>2 DEF DevInv
<1>2. ASSUME UNCHANGED <<part, pipeVars, clockVars>>, part = "console", ConsoleInv' PROVE DevInv'
  <2>1. PipeInit /\ ClockInit
    BY Zenon, <1>2 DEF DevInv
  <2>2. PipeInit' /\ ClockInit'
    BY Zenon, <1>2, <2>1 DEF PipeInit, ClockInit, pipeVars, clockVars
  <2> QED
    BY Zenon, <1>2, <2>2 DEF DevInv
<1>3. ASSUME UNCHANGED <<part, pipeVars, consVars>>, part = "clock", ClockInv' PROVE DevInv'
  <2>1. PipeInit /\ ConsoleInit
    BY Zenon, <1>3 DEF DevInv
  <2>2. PipeInit' /\ ConsoleInit'
    BY <1>3, <2>1 DEF PipeInit, ConsoleInit, pipeVars, consVars
  <2> QED
    BY Zenon, <1>3, <2>2 DEF DevInv
<1>4. CASE PipeMoves
  <2>1. PipeInv
    BY <1>4 DEF PipeMoves, DevInv
  <2> QED
    BY Zenon, <1>1, <1>4, <2>1, PipeKeeps DEF PipeMoves
<1>5. CASE ConsoleMoves
  <2>1. ConsoleInv
    BY Zenon, <1>5 DEF ConsoleMoves, DevInv
  <2> QED
    BY Zenon, <1>2, <1>5, <2>1, ConsoleKeeps DEF ConsoleMoves
<1>6. CASE ClockMoves
  <2>1. ClockInv
    BY Zenon, <1>6 DEF ClockMoves, DevInv
  <2> QED
    BY Zenon, <1>3, <1>6, <2>1, ClockKeeps DEF ClockMoves
<1>7. CASE UNCHANGED devVars
  <2>1. UNCHANGED <<pc, chan, killed, n>> /\ UNCHANGED part
        /\ UNCHANGED pipeVars /\ UNCHANGED consVars /\ UNCHANGED clockVars
    BY Zenon, <1>7 DEF devVars, procVars
  <2>2. CASE part = "pipe"
    <3>1. PipeInv
      BY <2>2 DEF DevInv
    <3>2. PipeInv'
      <4>1. PipeTypeOK' /\ PipeProcs' /\ PipeRing'
        BY Zenon, <2>1, <3>1 DEF PipeInv, PipeTypeOK, PipeProcs, PipeRing, pipeVars, Writing
      <4>2. PipeEndsInv'
        BY Zenon, <2>1, <3>1 DEF PipeInv, PipeEndsInv, EndsAt, pipeVars, Writing, Reading, Closing
      <4>3. PipeSleeps'
        BY Zenon, <2>1, <3>1 DEF PipeInv, PipeSleeps, SleepsAt, SomeKilled, pipeVars, Empty, Full
      <4> QED
        BY Zenon, <4>1, <4>2, <4>3 DEF PipeInv
    <3> QED
      BY Zenon, <1>1, <2>1, <2>2, <3>2
  <2>3. CASE part = "console"
    <3>1. ConsoleInv
      BY <2>3 DEF DevInv
    <3>2. ConsoleInv'
      BY Zenon, <2>1, <3>1 DEF ConsoleInv, ConsoleTypeOK, ConsoleProcs, ConsoleSleeps, ConsoleLocks,
         ReaderNotForgotten, LinesInOrder, EditorInBounds, CursorOnScreen, Between, At, Word, consVars
    <3> QED
      BY Zenon, <1>2, <2>1, <2>3, <3>2
  <2>4. CASE part = "clock"
    <3>1. ClockInv
      BY <2>4 DEF DevInv
    <3>2. ClockInv'
      BY Zenon, <2>1, <3>1 DEF ClockInv, ClockTypeOK, ClockProcs, ClockCounts, ClockSleeps,
         SleepsLongEnough, SleeperNotForgotten, Ticked, clockVars
    <3> QED
      BY Zenon, <1>3, <2>1, <2>4, <3>2
  <2> QED
    BY <2>2, <2>3, <2>4 DEF DevInv
<1> QED
  BY Zenon, <1>4, <1>5, <1>6, <1>7

LEMMA DevInvSound == DevInv => PipeSound /\ ConsoleSound /\ ClockSound /\ NobodyForgotten
<1> SUFFICES ASSUME DevInv PROVE PipeSound /\ ConsoleSound /\ ClockSound /\ NobodyForgotten
  OBVIOUS
<1>1. PipeTypeOK /\ PipeRing /\ stored \in Nat
  BY IdleIsSound DEF DevInv, PipeInv, PipeTypeOK
<1>2. PipeFifo
  BY Zenon, <1>1, RingIsFifo
<1>3. PipeFreedLast
  <2>1. CASE part = "pipe"
    <3>1. /\ rend \subseteq Proc /\ wend \subseteq Proc /\ \A p \in Proc : EndsAt(p)
          /\ (rend # {} => readopen) /\ (wend # {} => writeopen)
          /\ pfreed = (IF readopen \/ writeopen THEN 0 ELSE 1)
      BY Zenon, <2>1 DEF DevInv, PipeInv, PipeEndsInv, PipeTypeOK
    <3>2. pfreed <= 1 /\ (pfreed = 1 => ~readopen /\ ~writeopen)
      BY <3>1
    <3>3. ASSUME pfreed = 1, NEW p \in Proc PROVE ~(Reading(p) \/ Writing(p) \/ Closing(p))
      BY Zenon, <3>1, <3>2, <3>3 DEF EndsAt, Closing
    <3> QED
      BY Zenon, <3>2, <3>3 DEF PipeFreedLast
  <2>2. CASE part # "pipe"
    BY <2>2, IdleIsSound DEF DevInv, PipeFreedLast
  <2> QED
    BY Zenon, <2>1, <2>2
<1>4. ConsoleTypeOK /\ LinesInOrder /\ EditorInBounds /\ CursorOnScreen /\ InodeLockIsBrief
  <2>1. CASE part = "console"
    BY Zenon, <2>1 DEF DevInv, ConsoleInv, ConsoleTypeOK, ConsoleLocks, InodeLockIsBrief
  <2>2. CASE part # "console"
    BY <2>2, IdleIsSound DEF DevInv, InodeLockIsBrief
  <2> QED
    BY Zenon, <2>1, <2>2
<1>5. \/ part = "pipe" /\ PipeProcs /\ PipeSleeps
      \/ part = "console" /\ ConsoleProcs /\ ReaderNotForgotten
      \/ part = "clock" /\ ClockProcs /\ SleepsLongEnough /\ SleeperNotForgotten
  BY Zenon DEF DevInv, PipeInv, ConsoleInv, ClockInv
<1>6. ClockTypeOK /\ SleepsLongEnough
  <2>1. ClockTypeOK
    BY Zenon, IdleIsSound DEF DevInv, ClockInv
  <2>2. SleepsLongEnough
    BY <1>5 DEF PipeProcs, PipePc, ConsoleProcs, ConsolePc, SleepsLongEnough
  <2> QED
    BY Zenon, <2>1, <2>2
<1>7. PipeNoMissedWakeup
  <2>1. CASE part = "pipe" /\ PipeSleeps
    BY Zenon, <2>1 DEF PipeSleeps, SleepsAt, SomeKilled, PipeNoMissedWakeup
  <2>2. CASE ConsoleProcs \/ ClockProcs
    BY Zenon, <2>2, BlockingAssumption DEF ConsoleProcs, ClockProcs, PipeNoMissedWakeup
  <2> QED
    BY Zenon, <1>5, <2>1, <2>2
<1>8. ReaderNotForgotten
  BY Zenon, <1>5, BlockingAssumption DEF PipeProcs, ClockProcs, ReaderNotForgotten
<1>9. SleeperNotForgotten
  BY Zenon, <1>5, BlockingAssumption DEF PipeProcs, ConsoleProcs, SleeperNotForgotten
<1> QED
  BY Zenon, <1>1, <1>2, <1>3, <1>4, <1>6, <1>7, <1>8, <1>9 DEF PipeSound, ConsoleSound, ClockSound, NobodyForgotten

(* The devices keep their invariants whatever the order of interrupts,      *)
(* calls, kills and closes.                                                 *)
THEOREM DeviceInvariance == DevSpec => []DevInv
<1>1. DevInit => DevInv
  BY DevInitInv
<1>2. DevInv /\ [PipeMoves \/ ConsoleMoves \/ ClockMoves]_devVars => DevInv'
  BY DevStepInv
<1> QED
  BY <1>1, <1>2, PTL DEF DevSpec

(* pipewrite, piperead and pipeclose keep every byte, in order, across the  *)
(* wrap-around of nread and nwrite, and free the page once, last.           *)
THEOREM PipesAreSound == DevSpec => []PipeSound
<1>1. DevInv => PipeSound
  BY DevInvSound
<1> QED
  BY <1>1, DeviceInvariance, PTL

(* consoleintr and consoleread keep the committed lines in order, r, w and  *)
(* e within the buffer, the cursor on the screen, and the inode available.  *)
THEOREM ConsoleIsSound == DevSpec => []ConsoleSound
<1>1. DevInv => ConsoleSound
  BY Zenon, DevInvSound
<1> QED
  BY <1>1, DeviceInvariance, PTL

(* sys_sleep returns only after the interrupts it was asked to wait for,    *)
(* although ticks wraps around.                                             *)
THEOREM SleepsAreLongEnough == DevSpec => []ClockSound
<1>1. DevInv => ClockSound
  BY DevInvSound
<1> QED
  BY <1>1, DeviceInvariance, PTL

(* No process sleeps past what it waits for: the lock kept from the test to *)
(* sleep leaves no room for a missed wakeup.                                *)
THEOREM NobodyIsForgotten == DevSpec => []NobodyForgotten
<1>1. DevInv => NobodyForgotten
  BY Zenon, DevInvSound
<1> QED
  BY <1>1, DeviceInvariance, PTL
=============================================================================
