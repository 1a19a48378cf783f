------------------------------- MODULE Memory -------------------------------
(***************************************************************************)
(* Physical pages (kalloc.c), address spaces (vm.c) and the calls that     *)
(* build, change and free them: fork, sbrk, exit and wait (proc.c) and     *)
(* exec (exec.c).                                                          *)
(*                                                                         *)
(* Every kalloc is a step of its own, since others may take the last page  *)
(* in between; a sequence of kfree is one step.  Pages are counted, not    *)
(* named: a page that is freed twice, or freed while it is in use, makes   *)
(* the free and the used pages more than there are, a lost one makes them  *)
(* fewer.                                                                  *)
(***************************************************************************)
EXTENDS Integers, Sequences, FiniteSets, FiniteSetsExt

CONSTANTS
  Slot,        \* slots of ptable, numbers; the lowest is init's
  NPAGES,      \* physical pages
  PGSIZE,
  NPTE,        \* pages that a page table maps: 1024
  NPDE,        \* page tables of the user part of a page directory
  KTABLES,     \* page tables of its kernel part
  Program,     \* programs: the sequences of vaddr + memsz of their segments
  Increment    \* arguments of sbrk

ASSUME MemoryAssumption ==
  /\ Slot \subseteq Nat /\ {NPAGES, PGSIZE, NPTE, NPDE} \subseteq Nat \ {0} /\ KTABLES \in Nat
  /\ Increment \subseteq Int

Vpn == 0 .. NPDE * NPTE - 1            \* user virtual pages
KERNBASE == NPDE * NPTE * PGSIZE
PGROUNDUP(x) == ((x + PGSIZE - 1) \div PGSIZE) * PGSIZE
Pages(lo, hi) == {v \in Vpn : PGROUNDUP(lo) <= v * PGSIZE /\ v * PGSIZE < hi}

VARIABLES
  free,      \* the length of the free list
  state,     \* of each slot
  kstack,    \* the slots with a kernel stack
  sz,
  vm,        \* p->pgdir ("cur"), and the one that a call is building ("new")
  mem,       \* the processes whose call has allocated a page and not yet mapped it
  call       \* the call in progress: which, its stage, and its local variables

memVars == <<free, state, kstack, sz, vm, mem, call>>

(* An address space: its directory, its kernel tables, and the directory    *)
(* and table entries of the user part with PTE_P.                           *)
NoSpace == [dir |-> 0, ktab |-> 0, pde |-> {}, pte |-> {}]
InUser == [of |-> "none", stage |-> "user", from |-> 0, to |-> 0, a |-> 0, np |-> 0, segs |-> <<>>]

init == Min(Slot)

(* After userinit: a kernel stack, a directory, its kernel part, and a page. *)
MemoryInit ==
  /\ free = NPAGES - KTABLES - 4
  /\ state = [p \in Slot |-> IF p = init THEN "run" ELSE "unused"]
  /\ kstack = {init} /\ mem = {}
  /\ sz = [p \in Slot |-> IF p = init THEN PGSIZE ELSE 0]
  /\ vm = [p \in Slot |-> [w \in {"cur", "new"} |->
            IF p = init /\ w = "cur" THEN [dir |-> 1, ktab |-> KTABLES, pde |-> {0}, pte |-> {0}] ELSE NoSpace]]
  /\ call = [p \in Slot |-> InUser]
-----------------------------------------------------------------------------
kalloc == free > 0 /\ free' = free - 1
kallocFails == free = 0

(* freevm frees the user pages, the page tables and the directory;          *)
(* deallocuvm those user pages that are mapped.                             *)
Freevm(s) == s.dir + s.ktab + Cardinality(s.pde) + Cardinality(s.pte)
Deallocuvm(s, V) == Cardinality(s.pte \cap V)
Cleared(s, V) == [s EXCEPT !.pte = @ \ V]
One(b) == IF b THEN 1 ELSE 0

(* A process whose first page is gone faults at its next instruction. *)
Syscall(p) == state[p] = "run" /\ call[p].stage = "user" /\ 0 \in vm[p]["cur"].pte

At(p, s) == state[p] = "run" /\ call[p].stage = s
Goto(p, s) == call' = [call EXCEPT ![p].stage = s]
Return(p) == call' = [call EXCEPT ![p] = InUser]
Target(p) == IF call[p].of = "sbrk" THEN "cur" ELSE "new"
-----------------------------------------------------------------------------
(* fork: allocproc takes a slot, then a page for the kernel stack. *)
Fork(p) ==
  /\ Syscall(p)
  /\ \E np \in Slot :
       /\ np = Min({q \in Slot : state[q] = "unused"} \cup {Max(Slot) + 1})
       /\ state' = [state EXCEPT ![np] = "embryo"]
       /\ call' = [call EXCEPT ![p] = [InUser EXCEPT !.of = "fork", !.stage = "kstack", !.np = np, !.to = sz[p]]]
  /\ UNCHANGED <<free, kstack, sz, vm, mem>>

ForkKstack(p) ==
  LET np == call[p].np
  IN /\ At(p, "kstack")
     /\ \/ kallocFails /\ state' = [state EXCEPT ![np] = "unused"] /\ Return(p) /\ UNCHANGED <<free, kstack>>
        \/ kalloc /\ kstack' = kstack \cup {np} /\ Goto(p, "setupkvm") /\ UNCHANGED state
     /\ UNCHANGED <<sz, vm, mem>>

(* A slip: the page that was not mapped yet is forgotten. *)
FailsKeepsMem(p) ==
  LET c == call[p]
      added == Pages(c.from, c.to)
      freed == IF c.of = "sbrk" THEN Deallocuvm(vm[p]["cur"], added) ELSE Freevm(vm[p]["new"])
  IN /\ vm' = [vm EXCEPT ![p] = IF c.of = "sbrk" THEN [@ EXCEPT !["cur"] = Cleared(@, added)]
                                                 ELSE [@ EXCEPT !["new"] = NoSpace]]
     /\ mem' = mem \ {p} /\ Return(p)
     /\ IF c.of = "fork"
        THEN free' = free + freed + 1 /\ kstack' = kstack \ {c.np} /\ state' = [state EXCEPT ![c.np] = "unused"]
        ELSE free' = free + freed /\ UNCHANGED <<kstack, state>>
     /\ UNCHANGED sz

(* The error paths: the new address space goes, with the page not mapped    *)
(* yet and the child's kernel stack.  sbrk has only its own pages to free.  *)
Fails(p) ==
  LET c == call[p]
      added == Pages(c.from, c.to)
      freed == One(p \in mem) + IF c.of = "sbrk" THEN Deallocuvm(vm[p]["cur"], added) ELSE Freevm(vm[p]["new"])
  IN /\ vm' = [vm EXCEPT ![p] = IF c.of = "sbrk" THEN [@ EXCEPT !["cur"] = Cleared(@, added)]
                                                 ELSE [@ EXCEPT !["new"] = NoSpace]]
     /\ mem' = mem \ {p} /\ Return(p)
     /\ IF c.of = "fork"
        THEN free' = free + freed + 1 /\ kstack' = kstack \ {c.np} /\ state' = [state EXCEPT ![c.np] = "unused"]
        ELSE free' = free + freed /\ UNCHANGED <<kstack, state>>
     /\ UNCHANGED sz

(* setupkvm: a directory, then the page tables of the kernel part. *)
Setupkvm(p) ==
  LET s == vm[p]["new"]
      t == IF s.dir = 0 THEN [s EXCEPT !.dir = 1] ELSE [s EXCEPT !.ktab = @ + 1]
  IN /\ At(p, "setupkvm")
     /\ \/ kallocFails /\ Fails(p)
        \/ /\ kalloc /\ vm' = [vm EXCEPT ![p]["new"] = t]
           /\ IF t.ktab = KTABLES THEN Goto(p, IF call[p].of = "fork" THEN "grow" ELSE "segment")
                                  ELSE UNCHANGED call
           /\ UNCHANGED <<state, kstack, sz, mem>>
-----------------------------------------------------------------------------
(* The loop of allocuvm and of copyuvm, a page at a time: kalloc ... *)
Grow(p) ==
  LET c == call[p]
  IN /\ At(p, "grow") /\ c.a < c.to
     /\ IF c.of = "fork" /\ c.a \div PGSIZE \notin vm[p]["cur"].pte
        THEN Goto(p, "panic") /\ UNCHANGED <<free, state, kstack, sz, vm, mem>>
        ELSE \/ kallocFails /\ Fails(p)
             \/ kalloc /\ mem' = mem \cup {p} /\ Goto(p, "map") /\ UNCHANGED <<state, kstack, sz, vm>>

(* ... and mappages, for which walkpgdir may need a page table. *)
Mappages(p) ==
  LET c == call[p]
      v == c.a \div PGSIZE
      s == vm[p][Target(p)]
      needs == v \div NPTE \notin s.pde
  IN /\ At(p, "map")
     /\ IF v \in s.pte THEN Goto(p, "panic") /\ UNCHANGED <<free, state, kstack, sz, vm, mem>>
        ELSE \/ needs /\ kallocFails /\ Fails(p)
             \/ /\ IF needs THEN kalloc ELSE UNCHANGED free
                /\ vm' = [vm EXCEPT ![p][Target(p)] = [s EXCEPT !.pte = @ \cup {v}, !.pde = @ \cup {v \div NPTE}]]
                /\ mem' = mem \ {p}
                /\ call' = [call EXCEPT ![p].stage = "grow", ![p].a = @ + PGSIZE]
                /\ UNCHANGED <<state, kstack, sz>>

(* allocuvm(pgdir, from, to) up to its loop. *)
Allocuvm(p, c, from, to) ==
  call' = [call EXCEPT ![p] = [c EXCEPT !.stage = "grow", !.from = from, !.to = IF to < from THEN from ELSE to,
                                        !.a = PGROUNDUP(from)]]

GrowDone(p) ==
  LET c == call[p]
  IN /\ At(p, "grow") /\ c.a >= c.to
     /\ CASE c.of = "fork" ->
               /\ vm' = [vm EXCEPT ![c.np]["cur"] = vm[p]["new"], ![p]["new"] = NoSpace]
               /\ sz' = [sz EXCEPT ![c.np] = sz[p]] /\ state' = [state EXCEPT ![c.np] = "run"]
               /\ Return(p)
          [] c.of = "sbrk" -> sz' = [sz EXCEPT ![p] = c.to] /\ Return(p) /\ UNCHANGED <<state, vm>>
          [] c.of = "exec" -> Goto(p, "segment") /\ UNCHANGED <<state, sz, vm>>
          [] c.of = "stack" -> Goto(p, "commit") /\ UNCHANGED <<state, sz, vm>>
     /\ UNCHANGED <<free, kstack, mem>>
-----------------------------------------------------------------------------
(* growproc, for the arguments that change something; init never grows. *)
Sbrk(p, k) ==
  /\ Syscall(p) /\ p # init /\ sz[p] + k > 0
  /\ IF k > 0 THEN /\ sz[p] + k < KERNBASE /\ Allocuvm(p, [InUser EXCEPT !.of = "sbrk"], sz[p], sz[p] + k)
                   /\ UNCHANGED <<free, sz, vm>>
     ELSE LET V == Pages(sz[p] + k, sz[p])
          IN /\ free' = free + Deallocuvm(vm[p]["cur"], V) /\ vm' = [vm EXCEPT ![p]["cur"] = Cleared(@, V)]
             /\ sz' = [sz EXCEPT ![p] = @ + k] /\ UNCHANGED call
  /\ UNCHANGED <<state, kstack, mem>>

(* growproc takes the size 0 that deallocuvm returns for an error. *)
SbrkAll(p) ==
  LET V == Pages(0, sz[p])
  IN /\ Syscall(p) /\ p # init /\ -sz[p] \in Increment
     /\ free' = free + Deallocuvm(vm[p]["cur"], V) /\ vm' = [vm EXCEPT ![p]["cur"] = Cleared(@, V)]
     /\ UNCHANGED <<state, kstack, sz, mem, call>>

(* exec: segment by segment, then the stack. *)
Exec(p, prog) ==
  /\ Syscall(p)
  /\ call' = [call EXCEPT ![p] = [InUser EXCEPT !.of = "exec", !.stage = "setupkvm", !.segs = prog]]
  /\ UNCHANGED <<free, state, kstack, sz, vm, mem>>

ExecSegment(p) ==
  LET c == call[p]
      top == PGROUNDUP(c.to)
  IN /\ At(p, "segment")
     /\ IF c.segs # <<>>
        THEN IF c.segs[1] >= KERNBASE \/ (c.segs[1] = 0 /\ c.to = 0) THEN Fails(p)
             ELSE /\ Allocuvm(p, [c EXCEPT !.segs = Tail(@)], c.to, c.segs[1])
                  /\ UNCHANGED <<free, state, kstack, sz, vm, mem>>
        ELSE IF top + 2 * PGSIZE >= KERNBASE THEN Fails(p)
             ELSE /\ Allocuvm(p, [c EXCEPT !.of = "stack"], top, top + 2 * PGSIZE)
                  /\ UNCHANGED <<free, state, kstack, sz, vm, mem>>

(* A header, segment or argument that cannot be read or copied. *)
ExecBad(p) == (At(p, "segment") \/ At(p, "commit")) /\ Fails(p)

(* A slip: the process keeps its old size. *)
ExecCommitSize(p) ==
  /\ At(p, "commit")
  /\ vm' = [vm EXCEPT ![p]["cur"] = vm[p]["new"], ![p]["new"] = NoSpace]
  /\ free' = free + Freevm(vm[p]["cur"])
  /\ Return(p)
  /\ UNCHANGED <<state, kstack, sz, mem>>

ExecCommit(p) ==
  /\ At(p, "commit")
  /\ vm' = [vm EXCEPT ![p]["cur"] = vm[p]["new"], ![p]["new"] = NoSpace]
  /\ sz' = [sz EXCEPT ![p] = call[p].to]
  /\ free' = free + Freevm(vm[p]["cur"])
  /\ Return(p)
  /\ UNCHANGED <<state, kstack, mem>>

(* exit, or a fault, and the wait that finds the zombie. *)
Exit(p) ==
  /\ p # init /\ At(p, "user")
  /\ state' = [state EXCEPT ![p] = "zombie"]
  /\ UNCHANGED <<free, kstack, sz, vm, mem, call>>

Wait(p) ==
  /\ state[p] = "zombie"
  /\ free' = free + 1 + Freevm(vm[p]["cur"])
  /\ kstack' = kstack \ {p} /\ vm' = [vm EXCEPT ![p]["cur"] = NoSpace]
  /\ state' = [state EXCEPT ![p] = "unused"] /\ sz' = [sz EXCEPT ![p] = 0]
  /\ UNCHANGED <<mem, call>>

MemoryNext ==
  \E p \in Slot :
    \/ Fork(p) \/ ForkKstack(p) \/ Setupkvm(p) \/ Grow(p) \/ Mappages(p) \/ GrowDone(p)
    \/ (\E k \in Increment : Sbrk(p, k)) \/ SbrkAll(p)
    \/ (\E prog \in Program : Exec(p, prog)) \/ ExecSegment(p) \/ ExecBad(p) \/ ExecCommit(p)
    \/ Exit(p) \/ Wait(p)

MemorySpec == MemoryInit /\ [][MemoryNext]_memVars
-----------------------------------------------------------------------------
(* Types; no process grows into the kernel. *)
MemoryTypeOK ==
  /\ free \in Nat /\ kstack \subseteq Slot /\ mem \subseteq Slot /\ sz \in [Slot -> 0 .. KERNBASE - 1]
  /\ state \in [Slot -> {"unused", "embryo", "run", "zombie"}]

(* Every page is in the free list or has exactly one use: on no path of     *)
(* fork, exec, sbrk, exit and wait, whichever kalloc fails, is a page lost, *)
(* freed twice, or freed while an address space has it.                     *)
PagesConserved ==
  free + Cardinality(kstack) + Cardinality(mem)
       + MapThenSumSet(LAMBDA p : Freevm(vm[p]["cur"]) + Freevm(vm[p]["new"]), Slot) = NPAGES

(* A process in user space has exactly the pages below its size, unless it  *)
(* gave up all its memory and is about to fault.                            *)
MappedBelowSize ==
  \A p \in Slot : At(p, "user") => vm[p]["cur"].pte \in {{}, Pages(0, sz[p])}

(* "remap", "copyuvm: page not present" and "switchuvm: no pgdir" do not    *)
(* happen: the loops of allocuvm and copyuvm meet the pages they expect.    *)
NoMemoryPanic ==
  \A p \in Slot : /\ call[p].stage # "panic"
                  /\ state[p] = "run" => vm[p]["cur"].dir = 1 /\ p \in kstack

(* exec either replaces the image by the complete new one or leaves it as   *)
(* it was, wherever it fails.                                               *)
ExecAllOrNothing ==
  [][\A p \in Slot : call[p].of \in {"exec", "stack"} =>
       \/ vm'[p]["cur"] = vm[p]["cur"] /\ sz'[p] = sz[p]
       \/ vm'[p]["cur"] = vm[p]["new"] /\ vm[p]["new"].pte = Pages(0, sz'[p])]_memVars

(* Pages and address spaces agree at every step of fork, exec, sbrk, exit   *)
(* and wait: no page is lost or shared, none of the panics is reached.      *)
MemorySound == MemoryTypeOK /\ PagesConserved /\ MappedBelowSize /\ NoMemoryPanic
=============================================================================
