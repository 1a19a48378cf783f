----------------------------- MODULE MCDevices -----------------------------
(***************************************************************************)
(* Pipes, the console and the clock for TLC: one of them, chosen in Init,  *)
(* moves in a behaviour; the others stay in their initial state.           *)
(***************************************************************************)
EXTENDS Pipe, Console, Clock

CONSTANT Users   \* the processes that use the console and the clock

VARIABLE part

devVars == <<procVars, pipeVars, consVars, clockVars, part>>

DevInit ==
  /\ part \in {"pipe", "console", "clock"}
  /\ pc = [p \in Proc |-> IF p \in (IF part = "pipe" THEN {Creator} ELSE Users) THEN "user" ELSE "unborn"]
  /\ chan = [p \in Proc |-> Nobody] /\ killed = [p \in Proc |-> FALSE] /\ n = [p \in Proc |-> 0]
  /\ PipeInit /\ ConsoleInit /\ ClockInit
  /\ part # "console" => pos = 0

PipeMoves == part = "pipe" /\ PipeNext /\ UNCHANGED <<consVars, clockVars, part>>
ConsoleMoves == part = "console" /\ ConsoleNext /\ UNCHANGED <<pipeVars, clockVars, part>>
ClockMoves == part = "clock" /\ ClockNext /\ UNCHANGED <<pipeVars, consVars, part>>

(* A process in a call on the pipe that is not asleep runs again. *)
PipeRuns(p) == part = "pipe" /\ PipeStep(p) /\ UNCHANGED <<consVars, clockVars, part>>

DevSpec ==
  /\ DevInit /\ [][PipeMoves \/ ConsoleMoves \/ ClockMoves]_devVars
  /\ \A p \in Proc : WF_devVars(PipeRuns(p))

(* Nobody sleeps past what it waits for: the test of the condition and      *)
(* sleep cannot be separated by pipewrite, pipeclose, consoleintr or the    *)
(* timer, and each of them wakes those that wait.                           *)
NobodyForgotten == PipeNoMissedWakeup /\ ReaderNotForgotten /\ SleeperNotForgotten
=============================================================================
