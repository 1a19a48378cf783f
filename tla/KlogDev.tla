------------------------------ MODULE KlogDev ------------------------------
(***************************************************************************)
(* The two ways in which programs get the log: the system call getklog     *)
(* (sysproc.c) and reads of /dev/klog (klogdev.c), over klog_snapshot,     *)
(* which returns the last retained entries, oldest first (module Klog).    *)
(* Sizes are counted in units of which an entry takes ENTRY.               *)
(***************************************************************************)
EXTENDS Integers, Sequences, FiniteSetsExt

CONSTANTS
  ENTRY,       \* sizeof(struct klog_entry)
  PAGE,        \* PGSIZE
  DEVMAX,      \* the entries that klogdev_read asks for: 64
  MAXARG,      \* the largest max_entries that getklog accepts: 1024
  RETAINED,    \* the entries that the rings hold
  MAXSEQ       \* bound on the entries logged

ASSUME KlogDevAssumption == /\ ENTRY \in Nat \ {0} /\ PAGE \in Nat
                            /\ {DEVMAX, MAXARG, RETAINED, MAXSEQ} \subseteq Nat

VARIABLES
  seq,       \* entries logged so far, numbered from 0
  usz,       \* the size of the process
  kpages,    \* the pages that the call has allocated
  kpc,       \* the program: idle, or where it is in getklog
  maxe,      \* max_entries of getklog, clamped
  kbuf,      \* the entries that getklog has in its page
  out,       \* what the call returned: the numbers of the entries copied, in order
  outAt,     \* where they were copied to
  ret

devVars == <<seq, usz, kpages, kpc, maxe, kbuf, out, outAt, ret>>

KlogDevInit ==
  /\ seq = 0 /\ usz \in {ENTRY, 3 * ENTRY + 1} /\ kpages = 0 /\ kpc = "idle"
  /\ maxe = 0 /\ kbuf = <<>> /\ out = <<>> /\ outAt = 0 /\ ret = 0

(* klog_snapshot(buf, m), with no writer at work *)
Snapshot(m) == LET c == Min({m, RETAINED, seq}) IN [i \in 1 .. c |-> seq - c + i - 1]

KlogPrintf == seq < MAXSEQ /\ seq' = seq + 1 /\ UNCHANGED <<usz, kpages, kpc, maxe, kbuf, out, outAt, ret>>

(* A slip: more entries than a page holds. *)
ClampNot(m) == m

Clamp(m) == Min({m, PAGE \div ENTRY})

(* The tests of the arguments, kalloc, which may fail, and the clamp. *)
GetklogArgs(a, m) ==
  /\ kpc = "idle"
  /\ out' = <<>> /\ outAt' = a
  /\ \/ ret' = -1 /\ UNCHANGED <<kpages, kpc, maxe>>
     \/ /\ m > 0 /\ m <= MAXARG /\ a >= 0 /\ a < usz /\ a + m * ENTRY <= usz
        /\ kpages' = kpages + 1 /\ maxe' = Clamp(m) /\ kpc' = "getklog" /\ UNCHANGED ret
  /\ UNCHANGED <<seq, usz, kbuf>>

GetklogSnapshot ==
  /\ kpc = "getklog"
  /\ kbuf' = Snapshot(maxe) /\ kpc' = "copyout"
  /\ UNCHANGED <<seq, usz, kpages, maxe, out, outAt, ret>>

(* copyout fails on a page that the process may not write. *)
GetklogCopy(fails) ==
  /\ kpc = "copyout"
  /\ kpages' = kpages - 1 /\ kpc' = "idle" /\ kbuf' = <<>>
  /\ IF fails /\ kbuf # <<>> THEN ret' = -1 /\ UNCHANGED out ELSE ret' = Len(kbuf) /\ out' = kbuf
  /\ UNCHANGED <<seq, usz, maxe, outAt>>

(* klogdev_read(n): a new snapshot of DEVMAX entries, and from its          *)
(* beginning as many as fit; last_seq is neither read nor written.          *)
KlogdevRead(len) ==
  LET s == Snapshot(DEVMAX)
  IN /\ kpc = "idle"
     /\ out' = SubSeq(s, 1, Min({Len(s), len \div ENTRY})) /\ ret' = Len(out') * ENTRY
     /\ outAt' = 0
     /\ UNCHANGED <<seq, usz, kpages, kpc, maxe, kbuf>>

KlogDevNext ==
  \/ KlogPrintf \/ GetklogSnapshot
  \/ \E len \in 0 .. usz : KlogdevRead(len)
  \/ \E fails \in BOOLEAN : GetklogCopy(fails)
  \/ \E a \in -1 .. usz, m \in -1 .. MAXARG + 1 : GetklogArgs(a, m)

KlogDevSpec == KlogDevInit /\ [][KlogDevNext]_devVars
-----------------------------------------------------------------------------
(* Types; one call never has more than one page. *)
KlogDevTypeOK == kpages \in 0 .. 1 /\ seq \in 0 .. MAXSEQ /\ ret \in Int

(* getklog has a page exactly while it works, on every path, and fills no   *)
(* more than that page; what it copied lies inside the process, whatever    *)
(* the arguments.                                                           *)
GetklogSound ==
  /\ KlogDevTypeOK
  /\ kpc = "idle" /\ out # <<>> => outAt >= 0 /\ outAt + Len(out) * ENTRY <= usz
  /\ kpages = (IF kpc = "idle" THEN 0 ELSE 1) /\ Len(kbuf) * ENTRY <= PAGE
=============================================================================
