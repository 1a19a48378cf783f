------------------------------ MODULE Umalloc ------------------------------
(***************************************************************************)
(* The allocator of user programs (umalloc.c): a circular list of free     *)
(* blocks, in the order of their addresses, that starts anywhere (freep).  *)
(* Addresses and sizes are in units of a Header; base, a static variable,  *)
(* lies below the heap.                                                    *)
(***************************************************************************)
EXTENDS Integers, FiniteSetsExt

CONSTANTS
  MINCORE,   \* the least morecore asks for, 4096 in the code
  HEAPMAX,   \* bound: the units that sbrk can give
  Units      \* the sizes asked for, with the header

ASSUME UmallocAssumption == MINCORE \in Nat \ {0} /\ HEAPMAX \in Nat /\ Units \subseteq Nat \ {0, 1}

base == 0
Addr == 0 .. HEAPMAX

VARIABLES
  heap,      \* the headers: [ptr, size, freep]; freep = -1 before the first malloc
  brk,       \* the end of the heap
  live,      \* the blocks that malloc has handed out
  mine       \* history: the units that the program took with sbrk itself

umallocVars == <<heap, brk, live, mine>>

UmallocInit ==
  /\ heap = [ptr |-> [a \in Addr |-> 0], size |-> [a \in Addr |-> 0], freep |-> -1]
  /\ brk = 1 /\ live = {} /\ mine = {}

(* The k-th block of the list from freep, and the number of blocks. *)
Nth(h, k) ==
  LET nth[j \in 0 .. k] == IF j = 0 THEN h.freep ELSE h.ptr[nth[j - 1]] IN nth[k]
ListLen(h) == Min({k \in 1 .. HEAPMAX + 1 : Nth(h, k) = h.freep})

(* free: the place p of bp in the list, and its merge with both neighbours. *)
Between(h, p, bp) ==
  \/ bp > p /\ bp < h.ptr[p]
  \/ p >= h.ptr[p] /\ (bp > p \/ bp < h.ptr[p])
Place(h, bp) == Nth(h, Min({k \in 0 .. ListLen(h) - 1 : Between(h, Nth(h, k), bp)}))

(* A slip: the size of the upper neighbour is lost. *)
JoinUpperSmall(h, p, bp) ==
  IF bp + h.size[bp] = h.ptr[p] THEN [h EXCEPT !.ptr[bp] = h.ptr[h.ptr[p]]]
                                ELSE [h EXCEPT !.ptr[bp] = h.ptr[p]]

JoinUpper(h, p, bp) ==
  IF bp + h.size[bp] = h.ptr[p]
  THEN [h EXCEPT !.size[bp] = @ + h.size[h.ptr[p]], !.ptr[bp] = h.ptr[h.ptr[p]]]
  ELSE [h EXCEPT !.ptr[bp] = h.ptr[p]]
JoinLower(h, p, bp) ==
  IF p + h.size[p] = bp
  THEN [h EXCEPT !.size[p] = @ + h.size[bp], !.ptr[p] = h.ptr[bp]]
  ELSE [h EXCEPT !.ptr[p] = bp]
FreeBlock(h, bp) ==
  LET p == Place(h, bp) IN [JoinLower(JoinUpper(h, p, bp), p, bp) EXCEPT !.freep = p]

Start(h) == IF h.freep = -1 THEN [h EXCEPT !.ptr[base] = base, !.size[base] = 0, !.freep = base] ELSE h

(* malloc: the first block from freep->ptr that is large enough. *)
Fits(h, n) == {k \in 1 .. ListLen(h) : h.size[Nth(h, k)] >= n}
Block(h, n) == LET p == Nth(h, Min(Fits(h, n))) IN p + h.size[p] - n
Carve(h, n) ==
  LET k == Min(Fits(h, n))
      p == Nth(h, k)
      prevp == Nth(h, k - 1)
      rest == h.size[p] - n
  IN IF rest = 0 THEN [h EXCEPT !.ptr[prevp] = h.ptr[p], !.freep = prevp]
     ELSE [h EXCEPT !.size[p] = rest, !.size[p + rest] = n, !.freep = prevp]

Core(n) == Max({n, MINCORE})
Morecore(h, n) == FreeBlock([h EXCEPT !.size[brk] = Core(n)], brk)

MallocFrom(h, n, b) ==
  /\ heap' = Carve(h, n) /\ brk' = b /\ live' = live \cup {[at |-> Block(h, n), units |-> n]}
  /\ UNCHANGED mine

Malloc(n) ==
  LET h == Start(heap)
  IN \/ Fits(h, n) # {} /\ MallocFrom(h, n, brk)
     \/ /\ Fits(h, n) = {} /\ brk + Core(n) <= HEAPMAX + 1
        /\ MallocFrom(Morecore(h, n), n, brk + Core(n))
     \/ /\ Fits(h, n) = {} /\ brk + Core(n) > HEAPMAX + 1     \* sbrk fails
        /\ heap' = h /\ UNCHANGED <<brk, live, mine>>

Free(b) == heap' = FreeBlock(heap, b.at) /\ live' = live \ {b} /\ UNCHANGED <<brk, mine>>

(* The program calls sbrk itself: the heap gets a gap. *)
UserSbrk ==
  /\ brk <= HEAPMAX /\ brk' = brk + 1 /\ mine' = mine \cup {brk}
  /\ UNCHANGED <<heap, live>>

UmallocNext == (\E n \in Units : Malloc(n)) \/ (\E b \in live : Free(b)) \/ UserSbrk
-----------------------------------------------------------------------------
FreeList == IF heap.freep = -1 THEN {} ELSE {Nth(heap, k) : k \in 1 .. ListLen(heap)} \ {base}
Extent(a, n) == a .. a + n - 1

(* Every unit that malloc took from sbrk is in exactly one block, handed    *)
(* out or free, and the header of a block handed out keeps its size.        *)
HeapPartition ==
  LET pieces == {Extent(b.at, b.units) : b \in live} \cup {Extent(a, heap.size[a]) : a \in FreeList}
  IN /\ UNION pieces = (1 .. brk - 1) \ mine
     /\ MapThenSumSet(Cardinality, pieces) = Cardinality(UNION pieces)
     /\ Cardinality(pieces) = Cardinality(live) + Cardinality(FreeList)
     /\ \A b \in live : heap.size[b.at] = b.units

(* The list is in the order of the addresses, with one step back, and no    *)
(* two free blocks touch: free has merged them.                             *)
ListSortedAndMerged ==
  heap.freep # -1 =>
    /\ Cardinality({a \in FreeList \cup {base} : heap.ptr[a] <= a}) = 1
    /\ \A a \in FreeList : a + heap.size[a] \notin FreeList

(* malloc and free keep the heap: every unit in one block, the free blocks  *)
(* in order and merged.                                                     *)
HeapSound == HeapPartition /\ ListSortedAndMerged
=============================================================================
