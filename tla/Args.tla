-------------------------------- MODULE Args --------------------------------
(***************************************************************************)
(* The arguments of system calls (syscall.c): fetchint, fetchstr, argptr   *)
(* and argstr test addresses of a process with unsigned arithmetic that    *)
(* wraps around.  Addresses are counted modulo AWORD, 2^32 in the code,    *)
(* Kernbase is half of that, and an int takes INT bytes, 4 in the code.    *)
(***************************************************************************)
EXTENDS Integers, FiniteSetsExt

CONSTANTS AWORD, INT

ASSUME ArgsAssumption == AWORD \in Nat /\ AWORD % 2 = 0 /\ INT \in Nat /\ 2 * INT < AWORD

Kernbase == AWORD \div 2

VARIABLES
  psz,       \* p->sz: at most Kernbase
  nuls,      \* the addresses of the process that hold a 0
  arg,       \* the word that the process passes
  len        \* the size that the system call asks for: an int

argsVars == <<psz, nuls, arg, len>>

Word(x) == x % AWORD

(* A process that grows, stores a 0 or not, and passes other arguments. *)
ArgsInit == psz = 0 /\ nuls = {} /\ arg = 0 /\ len = -Kernbase
ArgsNext ==
  \/ psz < Kernbase /\ psz' = psz + 1 /\ nuls' \in {nuls, {psz}} /\ UNCHANGED <<arg, len>>
  \/ arg' = Word(arg + 1) /\ UNCHANGED <<psz, nuls, len>>
  \/ len < Kernbase - 1 /\ len' = len + 1 /\ UNCHANGED <<psz, nuls, arg>>

(* A slip: only the end of the int is tested, and the sum wraps. *)
FetchintEnd(a) == ~(Word(a + INT) > psz)

FetchintOK(a) == ~(a >= psz \/ Word(a + INT) > psz)

(* argptr: the argument is the block of len bytes at arg. *)
ArgptrOK == ~(len < 0 \/ arg >= psz \/ Word(arg + Word(len)) > psz)

(* fetchstr: the length of the string at arg, or -1. *)
Fetchstr ==
  IF arg >= psz THEN -1
  ELSE LET ends == {a \in arg .. psz - 1 : a \in nuls} IN IF ends = {} THEN -1 ELSE Min(ends) - arg
-----------------------------------------------------------------------------
(* What fetchint, argptr and fetchstr accept lies in the memory of the      *)
(* process, although the sums may wrap around, and a block of the process   *)
(* is never refused.                                                        *)
Inside(a, k) == a >= 0 /\ a + k <= psz
ArgsInside ==
  /\ FetchintOK(arg) <=> Inside(arg, INT)
  /\ ArgptrOK <=> (len >= 0 /\ arg < psz /\ Inside(arg, len))
  /\ Fetchstr >= 0 => Inside(arg, Fetchstr + 1) /\ arg + Fetchstr \in nuls
=============================================================================
