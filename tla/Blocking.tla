------------------------------ MODULE Blocking ------------------------------
(***************************************************************************)
(* What the blocking system calls share: sleep and wakeup as Proc shows    *)
(* them to work, kill, and the test of killed when trap returns to user    *)
(* space.  A caller of sleep holds the lock of what it waits for until it  *)
(* sleeps, but kill does not take that lock: a process that has tested     *)
(* killed can be killed before it sleeps.                                  *)
(***************************************************************************)
EXTENDS Integers, Sequences, FiniteSets

CONSTANTS
  Proc,
  Victims,  \* those that may be killed
  Nobody

ASSUME BlockingAssumption == Nobody \notin Proc \cup {"nread", "nwrite", "input.r", "ticks"}

VARIABLES
  pc,       \* where each process is
  chan,     \* the channel on which it sleeps, or Nobody
  killed,
  n         \* the argument n of its system call: what is left of it

procVars == <<pc, chan, killed, n>>

User(p) == pc[p] = "user" /\ ~killed[p]       \* trap: a killed process exits
Running(p, l) == pc[p] = l /\ chan[p] = Nobody
Goto(p, l) == pc' = [pc EXCEPT ![p] = l]

Woken(ch) == [q \in Proc |-> IF chan[q] = ch THEN Nobody ELSE chan[q]]
Wakeup(ch) == chan' = Woken(ch)
SleepOn(p, ch) == chan' = [chan EXCEPT ![p] = ch]

Kill(p) ==
  /\ p \in Victims /\ pc[p] # "unborn" /\ ~killed[p]
  /\ killed' = [killed EXCEPT ![p] = TRUE] /\ chan' = [chan EXCEPT ![p] = Nobody]
  /\ UNCHANGED <<pc, n>>
=============================================================================
