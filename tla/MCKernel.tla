------------------------------ MODULE MCKernel ------------------------------
(***************************************************************************)
(* Memory, spinlocks, the readers of the log, the arguments of system      *)
(* calls, and the algorithms of user programs for TLC: one of them, chosen *)
(* in Init, moves in a behaviour; the others stay in their initial state.  *)
(***************************************************************************)
EXTENDS Memory, SpinLock, KlogDev, Umalloc, Args, Format, Shell, Grep, TLC

VARIABLE part

kernelVars == <<memVars, spinVars, devVars, umallocVars, argsVars, fmt, line, grepVars, part>>

CPUSymmetry == Permutations(CPU) \cup Permutations(Proc)

(* Programs of one and two segments, some too large to be loaded.       *)
ProgramDef == {<<2, 1>>, <<3>>, <<8>>}
IncrementDef == {-2, -1, 1, 3}

(* Characters are negative: -4 to -8 are letters. *)
ItemsDef ==
  {<<"char", -4>>, <<"%%", -3>>, <<"%?", -5>>, <<"%s", <<-6, -7, -8>>>>, <<"%s", <<>>>>}
  \cup {<<"%d", v>> : v \in {0, 2, 3, 7, 8, 9, 15}} \cup {<<"%x", v>> : v \in {0, 15}}

KernelInit ==
  /\ part \in {"memory", "spinlock", "klogdev", "umalloc", "args", "format", "shell", "grep"}
  /\ MemoryInit /\ SpinInit /\ KlogDevInit /\ UmallocInit /\ ArgsInit /\ FormatInit /\ ShellInit /\ GrepInit
  /\ part # "klogdev" => usz = ENTRY

MemoryMoves == part = "memory" /\ MemoryNext
               /\ UNCHANGED <<spinVars, devVars, umallocVars, argsVars, fmt, line, grepVars, part>>
SpinMoves == part = "spinlock" /\ SpinNext
             /\ UNCHANGED <<memVars, devVars, umallocVars, argsVars, fmt, line, grepVars, part>>
KlogDevMoves == part = "klogdev" /\ KlogDevNext
                /\ UNCHANGED <<memVars, spinVars, umallocVars, argsVars, fmt, line, grepVars, part>>
UmallocMoves == part = "umalloc" /\ UmallocNext
                /\ UNCHANGED <<memVars, spinVars, devVars, argsVars, fmt, line, grepVars, part>>
ArgsMoves == part = "args" /\ ArgsNext
             /\ UNCHANGED <<memVars, spinVars, devVars, umallocVars, fmt, line, grepVars, part>>
FormatMoves == part = "format" /\ FormatNext
               /\ UNCHANGED <<memVars, spinVars, devVars, umallocVars, argsVars, line, grepVars, part>>
ShellMoves == part = "shell" /\ ShellNext
              /\ UNCHANGED <<memVars, spinVars, devVars, umallocVars, argsVars, fmt, grepVars, part>>
GrepMoves == part = "grep" /\ GrepNext
             /\ UNCHANGED <<memVars, spinVars, devVars, umallocVars, argsVars, fmt, line, part>>

KernelNext == \/ MemoryMoves \/ SpinMoves \/ KlogDevMoves \/ UmallocMoves
              \/ ArgsMoves \/ FormatMoves \/ ShellMoves \/ GrepMoves

KernelSpec == KernelInit /\ [][KernelNext]_kernelVars
=============================================================================
