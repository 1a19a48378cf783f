-------------------------------- MODULE Clock --------------------------------
(***************************************************************************)
(* The clock: the timer interrupt of trap.c, and sleep and uptime of       *)
(* sysproc.c, under tickslock.                                             *)
(***************************************************************************)
EXTENDS Blocking

CONSTANT TICKWORD   \* ticks is counted modulo this, 2^32 in the code

ASSUME ClockAssumption == TICKWORD \in Nat \ {0}

VARIABLES
  ticks,
  tickslock,   \* the process that holds it, or Nobody
  ticks0,      \* the local variable of each sys_sleep
  elapsed      \* history: the interrupts since the call, as far as it may ask for

clockVars == <<ticks, tickslock, ticks0, elapsed>>

ClockInit ==
  /\ ticks = 0 /\ tickslock = Nobody
  /\ ticks0 = [p \in Proc |-> 0] /\ elapsed = [p \in Proc |-> 0]

Ticked(p) == (ticks - ticks0[p]) % TICKWORD   \* unsigned subtraction

(* The interrupt of CPU 0. *)
Timer ==
  /\ tickslock = Nobody
  /\ ticks' = (ticks + 1) % TICKWORD
  /\ elapsed' = [p \in Proc |-> IF pc[p] = "sys_sleep" /\ elapsed[p] < TICKWORD
                                THEN elapsed[p] + 1 ELSE elapsed[p]]
  /\ Wakeup("ticks")
  /\ UNCHANGED <<pc, killed, n, tickslock, ticks0>>

(* A negative argument of sleep is compared as a large unsigned number. *)
SysSleepCall(p, k) ==
  /\ User(p) /\ tickslock = Nobody
  /\ n' = [n EXCEPT ![p] = k] /\ Goto(p, "sys_sleep")
  /\ ticks0' = [ticks0 EXCEPT ![p] = ticks] /\ elapsed' = [elapsed EXCEPT ![p] = 0]
  /\ UNCHANGED <<chan, killed, ticks, tickslock>>

(* A slip: "ticks >= ticks0 + n" wraps. *)
SysSleepTestUntil(p) ==
  /\ Running(p, "sys_sleep") /\ tickslock = Nobody
  /\ IF ticks >= (ticks0[p] + n[p]) % TICKWORD THEN Goto(p, "slept") /\ UNCHANGED tickslock
     ELSE IF killed[p] THEN Goto(p, "interrupted") /\ UNCHANGED tickslock
     ELSE Goto(p, "ticks_sleep") /\ tickslock' = p
  /\ UNCHANGED <<chan, killed, n, ticks, ticks0, elapsed>>

SysSleepTest(p) ==
  /\ Running(p, "sys_sleep") /\ tickslock = Nobody
  /\ IF Ticked(p) >= n[p] THEN Goto(p, "slept") /\ UNCHANGED tickslock
     ELSE IF killed[p] THEN Goto(p, "interrupted") /\ UNCHANGED tickslock
     ELSE Goto(p, "ticks_sleep") /\ tickslock' = p
  /\ UNCHANGED <<chan, killed, n, ticks, ticks0, elapsed>>

SysSleepSleep(p) ==
  /\ pc[p] = "ticks_sleep"
  /\ SleepOn(p, "ticks") /\ tickslock' = Nobody /\ Goto(p, "sys_sleep")
  /\ UNCHANGED <<killed, n, ticks, ticks0, elapsed>>

SysSleepReturn(p) ==
  /\ pc[p] \in {"slept", "interrupted"}
  /\ Goto(p, "user") /\ n' = [n EXCEPT ![p] = 0]
  /\ ticks0' = [ticks0 EXCEPT ![p] = 0] /\ elapsed' = [elapsed EXCEPT ![p] = 0]
  /\ UNCHANGED <<chan, killed, ticks, tickslock>>

ClockNext ==
  \/ Timer
  \/ \E p \in Proc : \/ SysSleepTest(p) \/ SysSleepSleep(p) \/ SysSleepReturn(p)
                     \/ (Kill(p) /\ UNCHANGED clockVars)
                     \/ \E k \in 0 .. TICKWORD - 1 : SysSleepCall(p, k)
-----------------------------------------------------------------------------
(* Types; ticks stays within its word. *)
ClockTypeOK ==
  /\ ticks \in 0 .. TICKWORD - 1 /\ tickslock \in Proc \cup {Nobody}
  /\ ticks0 \in [Proc -> 0 .. TICKWORD - 1] /\ elapsed \in [Proc -> 0 .. TICKWORD]

(* sleep(n) that is not interrupted returns after at least n interrupts,    *)
(* also when ticks wraps meanwhile.                                         *)
SleepsLongEnough == \A p \in Proc : pc[p] = "slept" => elapsed[p] >= n[p]

(* A process asleep in sleep() is asleep since the last interrupt, and its  *)
(* time was not up then: no interrupt slips between the test and sleep.     *)
SleeperNotForgotten == \A p \in Proc : chan[p] = "ticks" => Ticked(p) < n[p]

(* ticks and the sleeps that are measured with it, across its wrap-around.  *)
ClockSound == ClockTypeOK /\ SleepsLongEnough
=============================================================================
