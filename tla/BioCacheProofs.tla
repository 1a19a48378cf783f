--------------------------- MODULE BioCacheProofs ---------------------------
(***************************************************************************)
(* Proofs about the buffer cache, first part: the inductive invariant, and *)
(* that the calls of bio.c and the processes in iderw keep it.             *)
(***************************************************************************)
EXTENDS Bio, FiniteSetTheorems, TLAPS

(* The provers a leaf without a pragma is given to. *)
USE SMTT(20), ZenonT(20), Z3T(60)
-----------------------------------------------------------------------------
(* Types of the cache, the queue and the calls, apart from the contents of  *)
(* blocks; the list still holds every buffer.                               *)
CacheType ==
  /\ blockno \in [Buf -> AnyBlock \cup {Junk}]
  /\ bvalid \in [Buf -> BOOLEAN] /\ dirty \in [Buf -> BOOLEAN]
  /\ refcnt \in [Buf -> Nat] /\ block \in [Buf -> BioProc \cup {Nil}]
  /\ mru \in [Buf -> Buf] /\ \A b \in Buf : \E i \in Buf : mru[i] = b
CallType ==
  /\ bpc \in [BioProc -> {"run", "lock", "iderw", "sleep", "woken", "brelse", "panic"}]
  /\ want \in [BioProc -> Buf \cup {Nil}] /\ held \in [BioProc -> SUBSET Buf]
  /\ idequeue \in Seq(Buf) /\ request.cmd \in {"none", "read", "write", "done"}
  /\ driver \in {"ide", "memide"} /\ logged \subseteq Home

(* Who holds a sleep-lock, and what the buffer of a call is to its caller. *)
LockInv ==
  \A p \in BioProc :
    /\ \A b \in Buf : b \in held[p] <=> block[b] = p
    /\ bpc[p] \in {"lock", "brelse"} => want[p] \in Buf /\ want[p] \notin held[p]
    /\ bpc[p] \in {"iderw", "sleep", "woken"} => want[p] \in held[p]

(* The processes that count in refcnt[b], and the buffer of a disk request. *)
Uses(p, b) == b \in held[p] \/ (bpc[p] \in {"lock", "brelse"} /\ want[p] = b)
Users(b) == {p \in BioProc : Uses(p, b)}
InIo(p, b) == bpc[p] \in {"iderw", "sleep"} /\ want[p] = b
UsedInv == \A p \in BioProc, b \in Buf : Uses(p, b) => blockno[b] \in AnyBlock

(* B_VALID and B_DIRTY: a locked buffer is valid unless its holder is in    *)
(* iderw with it, a dirty one is valid and either in the log or being       *)
(* written, and iderw ends with a clean one.                                *)
FlagInv ==
  /\ \A b \in Buf : bvalid[b] => blockno[b] \in AnyBlock
  /\ \A b \in Buf : dirty[b] => bvalid[b] /\ (blockno[b] \in logged \/ \E p \in BioProc : InIo(p, b))
  /\ \A p \in BioProc : \A b \in held[p] : ~InIo(p, b) => bvalid[b]
  /\ \A p \in BioProc : bpc[p] = "woken" => ~dirty[want[p]]

(* The queue of ide.c: the buffers of the processes that sleep in iderw,    *)
(* each once, and the disk works for the first.                             *)
Asleep(b) == \E p \in BioProc : bpc[p] = "sleep" /\ want[p] = b
QueueInv ==
  /\ \A i \in DOMAIN idequeue : Asleep(idequeue[i])
  /\ \A i, j \in DOMAIN idequeue : idequeue[i] = idequeue[j] => i = j
  /\ \A p \in BioProc : bpc[p] = "sleep" => \E i \in DOMAIN idequeue : idequeue[i] = want[p]
  /\ idequeue = <<>> <=> request.cmd = "none"
  /\ idequeue # <<>> => /\ request.blockno = blockno[idequeue[1]]
                        /\ request.cmd = "read" => ~dirty[idequeue[1]]
                        /\ request.cmd = "write" => dirty[idequeue[1]]
  /\ driver = "memide" => idequeue = <<>>

(* The inductive invariant of the cache, whatever the disk returns. *)
BioInv == CacheType /\ CallType /\ LockInv /\ UsedInv /\ RefcntExact /\ OneBufferPerBlock /\ FlagInv /\ QueueInv

-----------------------------------------------------------------------------
(* The assumptions of Bio, as the proofs use them. *)
LEMMA BioFacts ==
  /\ NBUF \in Nat /\ 1 \in Buf /\ IsFiniteSet(BioProc)
  /\ LogBlock \notin Home /\ Home \subseteq AnyBlock /\ LogBlock \in AnyBlock /\ Written \subseteq Home
  /\ Junk \notin AnyBlock /\ Junk \notin Value /\ Nil \notin BioProc /\ Nil \notin Buf
  /\ \A k \in Home : <<k, k>> \notin Nested
BY BioAssumption DEF Buf, AnyBlock

(* A buffer with references has a user, and one without has none. *)
LEMMA CountFacts ==
  ASSUME RefcntExact, NEW b \in Buf
  PROVE  /\ IsFiniteSet(Users(b)) /\ refcnt[b] = Cardinality(Users(b)) /\ refcnt[b] \in Nat
         /\ refcnt[b] = 0 <=> \A p \in BioProc : ~Uses(p, b)
<1>1. refcnt[b] = Cardinality(Users(b))
  BY Zenon DEF RefcntExact, Users, Uses
<1>2. IsFiniteSet(Users(b))
  BY FS_Subset, BioFacts, Zenon DEF Users
<1>3. Cardinality(Users(b)) \in Nat /\ (Cardinality(Users(b)) = 0 <=> Users(b) = {})
  BY Zenon, <1>2, FS_CardinalityType, FS_EmptySet
<1>4. Users(b) = {} <=> \A p \in BioProc : ~Uses(p, b)
  BY Zenon DEF Users
<1> QED
  BY Zenon, <1>1, <1>2, <1>3, <1>4

(* The counts stay exact when nobody begins or ceases to use a buffer. *)
LEMMA CountKept ==
  ASSUME RefcntExact, UNCHANGED refcnt, \A p \in BioProc, b \in Buf : Uses(p, b)' <=> Uses(p, b)
  PROVE  RefcntExact'
<1>1. ASSUME NEW b \in Buf PROVE Users(b)' = Users(b)
  BY <1>1, Zenon DEF Users
<1>2. ASSUME NEW b \in Buf PROVE refcnt'[b] = Cardinality(Users(b)')
  BY <1>1, <1>2, CountFacts, Zenon
<1> QED
  BY <1>2, Zenon DEF RefcntExact, Users, Uses

(* One process begins to use b: the count of b goes up. *)
LEMMA CountUp ==
  ASSUME RefcntExact, CacheType, NEW p \in BioProc, NEW b \in Buf, ~Uses(p, b), Uses(p, b)',
         refcnt' = [refcnt EXCEPT ![b] = refcnt[b] + 1],
         \A q \in BioProc, c \in Buf : q # p \/ c # b => (Uses(q, c)' <=> Uses(q, c))
  PROVE  RefcntExact'
<1>1. Users(b)' = Users(b) \cup {p} /\ p \notin Users(b)
  BY Zenon DEF Users
<1>2. Cardinality(Users(b)') = refcnt[b] + 1
  BY <1>1, CountFacts, FS_AddElement, Zenon
<1>3. ASSUME NEW c \in Buf, c # b PROVE Users(c)' = Users(c)
  BY <1>3, Zenon DEF Users
<1>4. refcnt \in [Buf -> Nat]
  BY Zenon DEF CacheType
<1>5. ASSUME NEW c \in Buf PROVE refcnt'[c] = Cardinality(Users(c)')
  BY Zenon, <1>2, <1>3, <1>4, <1>5, CountFacts
<1> QED
  BY <1>5, Zenon DEF RefcntExact, Users, Uses

(* One process ceases to use b: the count of b goes down. *)
LEMMA CountDown ==
  ASSUME RefcntExact, CacheType, NEW p \in BioProc, NEW b \in Buf, Uses(p, b), ~Uses(p, b)',
         refcnt' = [refcnt EXCEPT ![b] = refcnt[b] - 1],
         \A q \in BioProc, c \in Buf : q # p \/ c # b => (Uses(q, c)' <=> Uses(q, c))
  PROVE  RefcntExact'
<1>1. Users(b)' = Users(b) \ {p} /\ p \in Users(b)
  BY Zenon DEF Users
<1>2. Cardinality(Users(b)') = refcnt[b] - 1
  <2>1. Cardinality(Users(b) \ {p}) = Cardinality(Users(b)) - 1
    BY <1>1, CountFacts, FS_RemoveElement, Zenon
  <2> QED
    BY <1>1, <2>1, CountFacts, Zenon
<1>3. ASSUME NEW c \in Buf, c # b PROVE Users(c)' = Users(c)
  BY <1>3, Zenon DEF Users
<1>4. refcnt \in [Buf -> Nat]
  BY Zenon DEF CacheType
<1>5. ASSUME NEW c \in Buf PROVE refcnt'[c] = Cardinality(Users(c)')
  BY Zenon, <1>2, <1>3, <1>4, <1>5, CountFacts
<1> QED
  BY <1>5, Zenon DEF RefcntExact, Users, Uses

(* The queue is not touched by a step that leaves alone the driver, those   *)
(* who sleep in iderw, and the buffers they wait for.                       *)
LEMMA QueueKept ==
  ASSUME QueueInv, CallType, UNCHANGED <<idequeue, request, driver>>,
         \A p \in BioProc : bpc'[p] = "sleep" <=> bpc[p] = "sleep",
         \A p \in BioProc : bpc[p] = "sleep" =>
           want'[p] = want[p] /\ blockno'[want[p]] = blockno[want[p]] /\ dirty'[want[p]] = dirty[want[p]]
  PROVE  QueueInv'
<1>0. idequeue' = idequeue /\ request' = request /\ driver' = driver
  OBVIOUS
<1>1. ASSUME NEW i \in DOMAIN idequeue
      PROVE  /\ Asleep(idequeue[i])'
             /\ blockno'[idequeue[i]] = blockno[idequeue[i]] /\ dirty'[idequeue[i]] = dirty[idequeue[i]]
  <2>1. PICK p \in BioProc : bpc[p] = "sleep" /\ want[p] = idequeue[i]
    BY <1>1, Zenon DEF QueueInv, Asleep
  <2>2. bpc'[p] = "sleep" /\ want'[p] = idequeue[i]
    BY <2>1, Zenon
  <2> QED
    BY <1>0, <2>1, <2>2 DEF Asleep
<1>2. idequeue # <<>> => 1 \in DOMAIN idequeue
  BY DEF CallType
<1>3. ASSUME NEW p \in BioProc, bpc'[p] = "sleep" PROVE \E i \in DOMAIN idequeue : idequeue[i] = want'[p]
  <2>1. bpc[p] = "sleep" /\ want'[p] = want[p]
    BY Zenon, <1>3
  <2> QED
    BY <2>1 DEF QueueInv
<1> QED
  BY <1>0, <1>1, <1>2, <1>3 DEF QueueInv

(* Types and flags are kept by a step that changes no buffer. *)
LEMMA FlagKept ==
  ASSUME FlagInv, UNCHANGED <<blockno, bvalid, dirty, held>>, logged \subseteq logged',
         \A p \in BioProc, b \in Buf : InIo(p, b)' <=> InIo(p, b),
         \A p \in BioProc : bpc'[p] = "woken" => bpc[p] = "woken" /\ want'[p] = want[p],
         CallType
  PROVE  FlagInv'
<1>0. blockno' = blockno /\ bvalid' = bvalid /\ dirty' = dirty /\ held' = held
  OBVIOUS
<1>1. \A b \in Buf : bvalid'[b] => blockno'[b] \in AnyBlock
  BY <1>0, Zenon DEF FlagInv
<1>2. ASSUME NEW b \in Buf, dirty'[b]
      PROVE  bvalid'[b] /\ (blockno'[b] \in logged' \/ \E p \in BioProc : InIo(p, b)')
  <2>1. bvalid[b] /\ (blockno[b] \in logged \/ \E p \in BioProc : InIo(p, b))
    BY Zenon, <1>0, <1>2 DEF FlagInv
  <2> QED
    BY Zenon, <1>0, <2>1
<1>3. ASSUME NEW p \in BioProc, NEW b \in held'[p], ~InIo(p, b)' PROVE bvalid'[b]
  <2>1. b \in held[p] /\ b \in Buf
    BY Zenon, <1>0, <1>3 DEF CallType
  <2>2. ~InIo(p, b)
    BY Zenon, <1>3, <2>1
  <2> QED
    BY Zenon, <1>0, <2>1, <2>2 DEF FlagInv
<1>4. ASSUME NEW p \in BioProc, bpc'[p] = "woken" PROVE ~dirty'[want'[p]]
  <2>1. bpc[p] = "woken" /\ want'[p] = want[p]
    BY Zenon, <1>4
  <2> QED
    BY <1>0, <2>1 DEF FlagInv
<1> QED
  BY Zenon, <1>1, <1>2, <1>3, <1>4 DEF FlagInv

(* brelse moves its buffer to the front; the list still holds every buffer. *)
LEMMA ListMoved ==
  ASSUME CacheType, NEW b \in Buf
  PROVE  /\ ToFront(b, mru) \in [Buf -> Buf]
         /\ \A c \in Buf : \E i \in Buf : ToFront(b, mru)[i] = c
<1> DEFINE n == CHOOSE i \in DOMAIN mru : mru[i] = b
           f == ToFront(b, mru)
<1>0. mru \in [Buf -> Buf] /\ DOMAIN mru = Buf /\ \A c \in Buf : \E i \in Buf : mru[i] = c
  BY Zenon DEF CacheType
<1>1. n \in Buf /\ mru[n] = b
  BY <1>0, Zenon
<1>2. f = [j \in Buf |-> IF j = 1 THEN b ELSE IF j <= n THEN mru[j - 1] ELSE mru[j]]
  BY Zenon, <1>0 DEF ToFront
<1> HIDE DEF n, f
<1>3. \A j \in Buf : j # 1 => j - 1 \in Buf
  BY BioFacts DEF Buf
<1>4. f \in [Buf -> Buf]
  BY Zenon, <1>0, <1>2, <1>3
<1>5. ASSUME NEW c \in Buf PROVE \E i \in Buf : f[i] = c
  <2>1. PICK i \in Buf : mru[i] = c
    BY Zenon, <1>0
  <2>2. CASE i = n
    BY Zenon, <1>1, <1>2, <2>1, <2>2, BioFacts
  <2>3. CASE i < n
    <3>1. i + 1 \in Buf /\ i + 1 # 1 /\ i + 1 <= n /\ (i + 1) - 1 = i
      BY <1>1, <2>3, BioFacts DEF Buf
    <3>2. f[i + 1] = c
      BY Zenon, <1>2, <2>1, <3>1
    <3> QED
      BY Zenon, <3>1, <3>2
  <2>4. CASE i > n
    <3>1. i # 1 /\ ~(i <= n)
      BY <1>1, <2>4, BioFacts DEF Buf
    <3> QED
      BY Zenon, <1>2, <2>1, <3>1
  <2> QED
    BY <1>1, <2>2, <2>3, <2>4, BioFacts DEF Buf
<1> QED
  BY Zenon, <1>4, <1>5 DEF f

(* The scan of bget from the end of the list finds a buffer that may go. *)
LEMMA LeastRecentExists ==
  ASSUME CacheType, NEW S, S \subseteq Buf, S # {}
  PROVE  LeastRecent(S) \in S
<1> DEFINE T == {i \in Buf : mru[i] \in S}
           M == {NBUF - i : i \in T}
<1>0. mru \in [Buf -> Buf] /\ DOMAIN mru = Buf /\ \A c \in Buf : \E i \in Buf : mru[i] = c
  BY Zenon DEF CacheType
<1>1. T # {} /\ T \subseteq Buf
  BY Zenon, <1>0
<1>2. M \subseteq Nat /\ M # {}
  BY <1>1, BioFacts DEF Buf
<1>3. \E m \in M : \A o \in M : m <= o
  <2> HIDE DEF M, T
  <2>1. PICK m \in M : \A o \in M : <<o, m>> \notin OpToRel(<, Nat)
    BY <1>2, NatLessThanWellFounded, WFMin, Zenon
  <2>2. \A o \in M : ~(o < m)
    BY <1>2, <2>1, Zenon DEF OpToRel
  <2> QED
    BY <1>2, <2>2
<1>4. PICK i \in T : \A j \in T : NBUF - i <= NBUF - j
  BY Zenon, <1>3
<1>5. ASSUME NEW c \in S, c # mru[i] PROVE \E j, l \in DOMAIN mru : mru[j] = c /\ mru[l] = mru[i] /\ j < l
  <2>1. PICK j \in Buf : mru[j] = c
    BY Zenon, <1>0
  <2>2. j \in T /\ j # i
    BY Zenon, <1>5, <2>1
  <2>3. j < i
    BY <1>4, <2>2, BioFacts DEF Buf
  <2> QED
    BY Zenon, <1>0, <2>1, <2>3
<1>6. mru[i] \in S
  BY Zenon, <1>4
<1> HIDE DEF T, M
<1> QED
  BY Zenon, <1>5, <1>6 DEF LeastRecent
-----------------------------------------------------------------------------
LEMMA CacheInit ==
  ASSUME BioInit PROVE BioInv
<1>0. /\ blockno = [b \in Buf |-> Junk] /\ bvalid = [b \in Buf |-> FALSE] /\ dirty = [b \in Buf |-> FALSE]
      /\ refcnt = [b \in Buf |-> 0] /\ block = [b \in Buf |-> Nil] /\ mru = [i \in Buf |-> NBUF + 1 - i]
      /\ idequeue = <<>> /\ request.cmd = "none" /\ driver \in {"ide", "memide"}
      /\ bpc = [p \in BioProc |-> "run"] /\ want = [p \in BioProc |-> Nil]
      /\ held = [p \in BioProc |-> {}] /\ logged = {}
  BY Zenon DEF BioInit, Idle
<1>1. mru \in [Buf -> Buf] /\ \A b \in Buf : \E i \in Buf : mru[i] = b
  <2>1. \A b \in Buf : NBUF + 1 - b \in Buf /\ NBUF + 1 - (NBUF + 1 - b) = b
    BY BioFacts DEF Buf
  <2> QED
    BY Zenon, <1>0, <2>1
<1>2. CacheType /\ CallType
  BY <1>0, <1>1, BioFacts DEF CacheType, CallType
<1>3. LockInv /\ UsedInv
  BY Zenon, <1>0, BioFacts DEF LockInv, UsedInv, Uses
<1>4. RefcntExact
  <2>1. ASSUME NEW b \in Buf PROVE Users(b) = {}
    BY Zenon, <1>0 DEF Users, Uses
  <2>2. \A b \in Buf : refcnt[b] = Cardinality(Users(b))
    BY <1>0, <2>1, FS_EmptySet, Zenon
  <2> QED
    BY Zenon, <2>2 DEF RefcntExact, Users, Uses
<1>5. OneBufferPerBlock /\ FlagInv
  BY Zenon, <1>0 DEF OneBufferPerBlock, FlagInv
<1>6. QueueInv
  BY <1>0 DEF QueueInv
<1> QED
  BY Zenon, <1>2, <1>3, <1>4, <1>5, <1>6 DEF BioInv

(* bget finds the block: one more reference. *)
LEMMA BgetCachedKeeps ==
  ASSUME BioInv, NEW p \in BioProc, NEW k \in AnyBlock, Bget(p, k), BgetCached(p, k),
         \A b \in held[p] : blockno[b] # k
  PROVE  BioInv'
<1>0. CacheType /\ CallType /\ LockInv /\ UsedInv /\ RefcntExact /\ OneBufferPerBlock /\ FlagInv /\ QueueInv
  BY Zenon DEF BioInv
<1>t. bpc \in [BioProc -> {"run", "lock", "iderw", "sleep", "woken", "brelse", "panic"}]
      /\ want \in [BioProc -> Buf \cup {Nil}]
  BY Zenon, <1>0 DEF CallType
<1>1. PICK b \in Buf : /\ blockno[b] = k /\ refcnt' = [refcnt EXCEPT ![b] = refcnt[b] + 1]
                       /\ want' = [want EXCEPT ![p] = b]
  BY Zenon DEF BgetCached, Cached
<1>2. /\ bpc[p] = "run" /\ bpc' = [bpc EXCEPT ![p] = "lock"]
      /\ UNCHANGED <<blockno, bvalid, dirty, bdata, block, mru, held>> /\ UNCHANGED <<ideVars, logVars>>
  BY Zenon DEF Bget, BgetCached
<1>3. b \notin held[p]
  BY Zenon, <1>1
<1>4. ASSUME NEW q \in BioProc, q # p PROVE bpc'[q] = bpc[q] /\ want'[q] = want[q]
  BY Zenon, <1>1, <1>2, <1>4, <1>t
<1>5. bpc'[p] = "lock" /\ want'[p] = b
  BY Zenon, <1>1, <1>2, <1>t
<1>6. ASSUME NEW q \in BioProc, NEW c \in Buf, q # p \/ c # b PROVE Uses(q, c)' <=> Uses(q, c)
  BY Zenon, <1>2, <1>4, <1>5, <1>6 DEF Uses
<1>7. ASSUME NEW q \in BioProc, NEW c \in Buf PROVE InIo(q, c)' <=> InIo(q, c)
  BY Zenon, <1>2, <1>4, <1>5 DEF InIo
<1>8. CacheType' /\ CallType'
  BY <1>0, <1>1, <1>2 DEF CacheType, CallType, ideVars, logVars
<1>9. LockInv'
  BY <1>0, <1>2, <1>3, <1>4, <1>5 DEF LockInv
<1>10. ~Uses(p, b) /\ Uses(p, b)'
  BY Zenon, <1>2, <1>3, <1>5 DEF Uses
<1>11. UsedInv'
  <2>1. ASSUME NEW q \in BioProc, NEW c \in Buf, Uses(q, c)' PROVE blockno'[c] \in AnyBlock
    BY <1>0, <1>1, <1>2, <1>6, <2>1 DEF UsedInv
  <2> QED
    BY Zenon, <2>1 DEF UsedInv
<1>12. RefcntExact'
  BY <1>0, <1>1, <1>6, <1>10, CountUp, Zenon
<1>13. OneBufferPerBlock'
  BY Zenon, <1>0, <1>2 DEF OneBufferPerBlock
<1>14. FlagInv'
  BY Zenon, <1>0, <1>2, <1>4, <1>5, <1>7, FlagKept DEF logVars
<1>15. QueueInv'
  BY Zenon, <1>0, <1>2, <1>4, <1>5, QueueKept DEF ideVars
<1> QED
  BY Zenon, <1>8, <1>9, <1>11, <1>12, <1>13, <1>14, <1>15 DEF BioInv

(* bget misses: the buffer that it recycles has no users and is clean, so   *)
(* nobody else can have it, and no other buffer has the block.              *)
LEMMA BgetRecycleKeeps ==
  ASSUME BioInv, NEW p \in BioProc, NEW k \in AnyBlock, Bget(p, k), BgetRecycle(p, k)
  PROVE  BioInv'
<1>0. CacheType /\ CallType /\ LockInv /\ UsedInv /\ RefcntExact /\ OneBufferPerBlock /\ FlagInv /\ QueueInv
  BY Zenon DEF BioInv
<1>t. bpc \in [BioProc -> {"run", "lock", "iderw", "sleep", "woken", "brelse", "panic"}]
      /\ want \in [BioProc -> Buf \cup {Nil}] /\ held \in [BioProc -> SUBSET Buf]
  BY Zenon, <1>0 DEF CallType
<1>u. blockno \in [Buf -> AnyBlock \cup {Junk}] /\ bvalid \in [Buf -> BOOLEAN] /\ dirty \in [Buf -> BOOLEAN]
      /\ refcnt \in [Buf -> Nat]
  BY Zenon, <1>0 DEF CacheType
<1>1. CASE Recyclable = {}
  <2>1. /\ bpc[p] = "run" /\ bpc' = [bpc EXCEPT ![p] = "panic"]
        /\ UNCHANGED <<bufVars, want, held>> /\ UNCHANGED <<ideVars, logVars>>
    BY Zenon, <1>1 DEF Bget, BgetRecycle
  <2>2. UNCHANGED <<blockno, bvalid, dirty, refcnt, block, mru, want, held, idequeue, request, driver, logged>>
    BY Zenon, <2>1 DEF bufVars, ideVars, logVars
  <2>3. bpc'[p] = "panic" /\ \A q \in BioProc : q # p => bpc'[q] = bpc[q]
    BY Zenon, <2>1, <1>t
  <2>4. CacheType' /\ CallType'
    BY Zenon, <1>0, <2>1, <2>2 DEF CacheType, CallType
  <2>5. ASSUME NEW q \in BioProc, NEW c \in Buf PROVE (Uses(q, c)' <=> Uses(q, c)) /\ (InIo(q, c)' <=> InIo(q, c))
    BY <2>1, <2>2, <2>3 DEF Uses, InIo
  <2>6. LockInv'
    BY <1>0, <2>1, <2>2, <2>3 DEF LockInv
  <2>7. UsedInv' /\ OneBufferPerBlock'
    BY Zenon, <1>0, <2>2, <2>5 DEF UsedInv, OneBufferPerBlock
  <2>8. RefcntExact'
    BY Zenon, <1>0, <2>2, <2>5, CountKept
  <2>9. FlagInv'
    BY Zenon, <1>0, <2>1, <2>2, <2>3, <2>5, FlagKept
  <2>10. QueueInv'
    BY Zenon, <1>0, <2>1, <2>2, <2>3, QueueKept
  <2> QED
    BY Zenon, <2>4, <2>6, <2>7, <2>8, <2>9, <2>10 DEF BioInv
<1>2. CASE Recyclable # {}
  <2>1. PICK b \in Recyclable : b = LeastRecent(Recyclable)
    BY <1>0, <1>2, LeastRecentExists, Zenon DEF Recyclable
  <2>2. b \in Buf /\ refcnt[b] = 0 /\ ~dirty[b]
    BY Zenon, <2>1 DEF Recyclable
  <2>3. \A c \in Buf : blockno[c] # k
    BY Zenon DEF BgetRecycle, Cached
  <2>4. bpc[p] = "run" /\ Retarget(p, k, b, 1, FALSE) /\ UNCHANGED <<ideVars, logVars>>
    BY <1>2, <2>1, Zenon DEF Bget, BgetRecycle
  <2>5. /\ blockno' = [blockno EXCEPT ![b] = k] /\ bvalid' = [bvalid EXCEPT ![b] = FALSE]
        /\ dirty' = [dirty EXCEPT ![b] = FALSE] /\ refcnt' = [refcnt EXCEPT ![b] = refcnt[b] + 1]
        /\ want' = [want EXCEPT ![p] = b] /\ bpc' = [bpc EXCEPT ![p] = "lock"]
        /\ UNCHANGED <<block, mru, held, idequeue, request, driver, logged>>
    BY <1>u, <2>2, <2>4 DEF Retarget, ideVars, logVars
  <2>6. ASSUME NEW q \in BioProc PROVE ~Uses(q, b)
    BY Zenon, <1>0, <2>2, CountFacts
  <2>7. ASSUME NEW q \in BioProc, q # p PROVE bpc'[q] = bpc[q] /\ want'[q] = want[q]
    BY Zenon, <2>5, <2>7, <1>t
  <2>8. bpc'[p] = "lock" /\ want'[p] = b
    BY Zenon, <2>5, <1>t
  <2>9. ASSUME NEW c \in Buf, c # b
        PROVE  blockno'[c] = blockno[c] /\ bvalid'[c] = bvalid[c] /\ dirty'[c] = dirty[c]
    BY Zenon, <2>5, <2>9, <1>u
  <2>10. blockno'[b] = k /\ ~bvalid'[b] /\ ~dirty'[b]
    BY Zenon, <2>2, <2>5, <1>u
  <2>11. ASSUME NEW q \in BioProc, NEW c \in Buf, q # p \/ c # b PROVE Uses(q, c)' <=> Uses(q, c)
    BY Zenon, <2>4, <2>5, <2>7, <2>8, <2>11 DEF Uses
  <2>12. ASSUME NEW q \in BioProc, NEW c \in Buf PROVE InIo(q, c)' <=> InIo(q, c)
    BY Zenon, <2>4, <2>7, <2>8 DEF InIo
  <2>13. CacheType' /\ CallType'
    BY <1>0, <1>u, <2>2, <2>5 DEF CacheType, CallType
  <2>14. LockInv'
    <3>1. b \notin held[p]
      BY Zenon, <2>6 DEF Uses
    <3> QED
      BY <1>0, <2>2, <2>5, <2>7, <2>8, <3>1 DEF LockInv
  <2>15. UsedInv'
    <3>1. ASSUME NEW q \in BioProc, NEW c \in Buf, Uses(q, c)', c # b PROVE blockno'[c] \in AnyBlock
      BY Zenon, <1>0, <2>9, <2>11, <3>1 DEF UsedInv
    <3> QED
      BY Zenon, <2>10, <3>1 DEF UsedInv
  <2>16. RefcntExact'
    <3>1. ~Uses(p, b) /\ Uses(p, b)'
      BY Zenon, <2>6, <2>8 DEF Uses
    <3> QED
      BY <1>0, <2>2, <2>5, <2>11, <3>1, CountUp, Zenon
  <2>17. OneBufferPerBlock'
    BY <1>0, <2>3, <2>9, <2>10 DEF OneBufferPerBlock
  <2>18. FlagInv'
    <3>1. \A c \in Buf : bvalid'[c] => blockno'[c] \in AnyBlock
      BY Zenon, <1>0, <2>9, <2>10 DEF FlagInv
    <3>2. ASSUME NEW c \in Buf, dirty'[c]
          PROVE  bvalid'[c] /\ (blockno'[c] \in logged' \/ \E q \in BioProc : InIo(q, c)')
      <4>1. c # b /\ dirty[c] /\ bvalid'[c] = bvalid[c] /\ blockno'[c] = blockno[c] /\ logged' = logged
        BY <2>5, <2>9, <2>10, <3>2, Zenon
      <4> QED
        BY <1>0, <2>12, <4>1 DEF FlagInv
    <3>3. ASSUME NEW q \in BioProc, NEW c \in held'[q], ~InIo(q, c)' PROVE bvalid'[c]
      <4>1. c \in held[q] /\ c \in Buf
        BY Zenon, <1>t, <2>5, <3>3
      <4>2. c # b
        BY Zenon, <2>6, <4>1 DEF Uses
      <4> QED
        BY Zenon, <1>0, <2>9, <2>12, <3>3, <4>1, <4>2 DEF FlagInv
    <3>4. ASSUME NEW q \in BioProc, bpc'[q] = "woken" PROVE ~dirty'[want'[q]]
      <4>1. q # p /\ bpc[q] = "woken" /\ want'[q] = want[q] /\ want[q] \in held[q]
        BY Zenon, <1>0, <2>7, <2>8, <3>4 DEF LockInv
      <4>2. want[q] # b /\ want[q] \in Buf
        BY <1>t, <2>6, <4>1 DEF Uses
      <4> QED
        BY Zenon, <1>0, <2>9, <4>1, <4>2 DEF FlagInv
    <3> QED
      BY Zenon, <3>1, <3>2, <3>3, <3>4 DEF FlagInv
  <2>19. QueueInv'
    <3>1. ASSUME NEW q \in BioProc, bpc[q] = "sleep"
          PROVE  want'[q] = want[q] /\ blockno'[want[q]] = blockno[want[q]] /\ dirty'[want[q]] = dirty[want[q]]
      <4>1. q # p /\ want[q] \in held[q]
        BY Zenon, <1>0, <2>4, <3>1 DEF LockInv
      <4>2. want[q] # b /\ want[q] \in Buf
        BY Zenon, <1>t, <2>6, <4>1 DEF Uses
      <4> QED
        BY Zenon, <2>7, <2>9, <4>1, <4>2
    <3> QED
      BY <1>0, <2>4, <2>5, <2>7, <2>8, <3>1, QueueKept, Zenon
  <2> QED
    BY <2>13, <2>14, <2>15, <2>16, <2>17, <2>18, <2>19 DEF BioInv
<1> QED
  BY Zenon, <1>1, <1>2

(* What the invariant says of the variables of a call and of the flags. *)
LEMMA CallFacts ==
  ASSUME BioInv
  PROVE  /\ CacheType /\ CallType /\ LockInv /\ UsedInv /\ RefcntExact /\ OneBufferPerBlock /\ FlagInv /\ QueueInv
         /\ bpc \in [BioProc -> {"run", "lock", "iderw", "sleep", "woken", "brelse", "panic"}]
         /\ want \in [BioProc -> Buf \cup {Nil}] /\ held \in [BioProc -> SUBSET Buf]
         /\ blockno \in [Buf -> AnyBlock \cup {Junk}] /\ bvalid \in [Buf -> BOOLEAN] /\ dirty \in [Buf -> BOOLEAN]
         /\ refcnt \in [Buf -> Nat] /\ block \in [Buf -> BioProc \cup {Nil}]
         /\ idequeue \in Seq(Buf)
BY Zenon DEF BioInv, CacheType, CallType

(* Two processes never use one buffer under its lock, and a buffer in the   *)
(* queue belongs to the process that sleeps for it.                         *)
LEMMA HolderFacts ==
  ASSUME BioInv, NEW p \in BioProc, NEW b \in held[p]
  PROVE  /\ b \in Buf /\ block[b] = p /\ \A q \in BioProc : b \in held[q] => q = p
         /\ \A q \in BioProc : InIo(q, b) => q = p
         /\ bpc[p] # "sleep" \/ want[p] # b => \A q \in BioProc : bpc[q] = "sleep" => want[q] # b
         /\ bpc[p] # "woken" \/ want[p] # b => \A q \in BioProc : bpc[q] = "woken" => want[q] # b
<1>1. b \in Buf /\ block[b] = p
  BY CallFacts DEF LockInv
<1>2. \A q \in BioProc : b \in held[q] => q = p
  BY Zenon, <1>1, CallFacts DEF LockInv
<1>3. \A q \in BioProc : bpc[q] \in {"iderw", "sleep", "woken"} => want[q] \in held[q]
  BY Zenon, CallFacts DEF LockInv
<1> QED
  BY Zenon, <1>1, <1>2, <1>3 DEF InIo

(* acquiresleep at the end of bget. *)
LEMMA BgetLockKeeps ==
  ASSUME BioInv, NEW p \in BioProc, BgetLock(p)
  PROVE  BioInv'
<1>0. BioInv /\ bpc[p] = "lock"
  BY Zenon DEF BgetLock
<1>1. PICK b \in Buf : b = want[p] /\ b \notin held[p]
  BY Zenon, <1>0, CallFacts DEF LockInv
<1>2. /\ block[b] = Nil /\ block' = [block EXCEPT ![b] = p] /\ held' = [held EXCEPT ![p] = held[p] \cup {b}]
      /\ UNCHANGED <<blockno, bvalid, dirty, refcnt, mru, idequeue, request, driver, logged>>
  BY Zenon, <1>1 DEF BgetLock, ideVars, logVars
<1>3. \/ bvalid[b] /\ bpc' = [bpc EXCEPT ![p] = "run"] /\ want' = [want EXCEPT ![p] = Nil]
      \/ ~bvalid[b] /\ bpc' = [bpc EXCEPT ![p] = "iderw"] /\ want' = want
  BY Zenon, <1>1 DEF BgetLock, Return
<1>4. ASSUME NEW q \in BioProc, q # p PROVE bpc'[q] = bpc[q] /\ want'[q] = want[q] /\ held'[q] = held[q]
  BY <1>2, <1>3, <1>4, CallFacts
<1>5. held'[p] = held[p] \cup {b} /\ block'[b] = p /\ \A c \in Buf : c # b => block'[c] = block[c]
  BY Zenon, <1>2, CallFacts
<1>6. \/ bvalid[b] /\ bpc'[p] = "run"
      \/ ~bvalid[b] /\ bpc'[p] = "iderw" /\ want'[p] = b
  BY Zenon, <1>1, <1>3, CallFacts
<1>7. CacheType' /\ CallType'
  <2>1. CacheType'
    BY Zenon, <1>2, CallFacts DEF CacheType
  <2>2. want' \in [BioProc -> Buf \cup {Nil}] /\ held' \in [BioProc -> SUBSET Buf]
    BY <1>2, <1>3, CallFacts
  <2>3. bpc' \in [BioProc -> {"run", "lock", "iderw", "sleep", "woken", "brelse", "panic"}]
    BY Zenon, <1>3, CallFacts
  <2> QED
    BY Zenon, <1>2, <2>1, <2>2, <2>3, CallFacts DEF CallType
<1>8. ASSUME NEW q \in BioProc, NEW c \in Buf PROVE Uses(q, c)' <=> Uses(q, c)
  <2>1. CASE q = p
    BY Zenon, <1>0, <1>1, <1>5, <1>6, <2>1 DEF Uses
  <2>2. CASE q # p
    BY Zenon, <1>4, <2>2 DEF Uses
  <2> QED
    BY Zenon, <2>1, <2>2
<1>9. LockInv'
  <2>1. ASSUME NEW q \in BioProc, NEW c \in Buf PROVE c \in held'[q] <=> block'[c] = q
    <3>1. b \notin held[q] /\ (c \in held[q] <=> block[c] = q)
      BY Zenon, <1>2, CallFacts, BioFacts DEF LockInv
    <3> QED
      BY <1>4, <1>5, <3>1
  <2>2. ASSUME NEW q \in BioProc
        PROVE  /\ bpc'[q] \in {"lock", "brelse"} => want'[q] \in Buf /\ want'[q] \notin held'[q]
               /\ bpc'[q] \in {"iderw", "sleep", "woken"} => want'[q] \in held'[q]
    <3>1. CASE q = p
      BY Zenon, <1>5, <1>6, <3>1
    <3>2. CASE q # p
      BY Zenon, <1>4, <3>2, CallFacts DEF LockInv
    <3> QED
      BY Zenon, <3>1, <3>2
  <2> QED
    BY Zenon, <2>1, <2>2 DEF LockInv
<1>10. UsedInv' /\ OneBufferPerBlock'
  BY Zenon, <1>2, <1>8, CallFacts DEF UsedInv, OneBufferPerBlock
<1>11. RefcntExact'
  BY <1>2, <1>8, CallFacts, CountKept, Zenon
<1>12. FlagInv'
  <2>1. \A c \in Buf : bvalid'[c] => blockno'[c] \in AnyBlock
    BY Zenon, <1>2, CallFacts DEF FlagInv
  <2>2. ASSUME NEW c \in Buf, dirty'[c]
        PROVE  bvalid'[c] /\ (blockno'[c] \in logged' \/ \E q \in BioProc : InIo(q, c)')
    <3>1. dirty[c] /\ blockno'[c] = blockno[c] /\ bvalid'[c] = bvalid[c] /\ logged' = logged
      BY Zenon, <1>2, <2>2
    <3>2. bvalid[c] /\ (blockno[c] \in logged \/ \E q \in BioProc : InIo(q, c))
      BY Zenon, <3>1, CallFacts DEF FlagInv
    <3>3. ASSUME NEW q \in BioProc, InIo(q, c) PROVE InIo(q, c)'
      BY Zenon, <1>0, <1>4, <3>3 DEF InIo
    <3> QED
      BY Zenon, <3>1, <3>2, <3>3
  <2>3. ASSUME NEW q \in BioProc, NEW c \in held'[q], ~InIo(q, c)' PROVE bvalid'[c]
    <3>1. CASE q = p /\ c = b
      BY Zenon, <1>2, <1>6, <2>3, <3>1 DEF InIo
    <3>2. CASE q = p /\ c # b
      <4>1. c \in held[p] /\ ~InIo(p, c)
        BY Zenon, <1>0, <1>5, <2>3, <3>2 DEF InIo
      <4> QED
        BY Zenon, <1>2, <4>1, CallFacts DEF FlagInv
    <3>3. CASE q # p
      <4>1. c \in held[q] /\ ~InIo(q, c)
        BY Zenon, <1>4, <2>3, <3>3 DEF InIo
      <4> QED
        BY Zenon, <1>2, <4>1, CallFacts DEF FlagInv
    <3> QED
      BY <3>1, <3>2, <3>3
  <2>4. ASSUME NEW q \in BioProc, bpc'[q] = "woken" PROVE ~dirty'[want'[q]]
    <3>1. q # p /\ bpc[q] = "woken" /\ want'[q] = want[q]
      BY <1>4, <1>6, <2>4
    <3> QED
      BY Zenon, <1>2, <3>1, CallFacts DEF FlagInv
  <2> QED
    BY Zenon, <2>1, <2>2, <2>3, <2>4 DEF FlagInv
<1>13. QueueInv'
  BY Zenon, <1>0, <1>2, <1>4, <1>6, CallFacts, QueueKept
<1> QED
  BY Zenon, <1>7, <1>9, <1>10, <1>11, <1>12, <1>13 DEF BioInv

(* brelse, first part: the lock goes, the reference stays. *)
LEMMA BrelseUnlockKeeps ==
  ASSUME BioInv, NEW p \in BioProc, NEW b \in held[p], BrelseUnlock(p, b), UNCHANGED logVars
  PROVE  BioInv'
<1>0. bpc[p] = "run" /\ b \in Buf /\ block[b] = p
  BY Zenon, HolderFacts DEF BrelseUnlock
<1>2. /\ block' = [block EXCEPT ![b] = Nil] /\ held' = [held EXCEPT ![p] = held[p] \ {b}]
      /\ want' = [want EXCEPT ![p] = b] /\ bpc' = [bpc EXCEPT ![p] = "brelse"]
      /\ UNCHANGED <<blockno, bvalid, dirty, refcnt, mru, idequeue, request, driver, logged>>
  BY Zenon DEF BrelseUnlock, ideVars, logVars
<1>4. ASSUME NEW q \in BioProc, q # p PROVE bpc'[q] = bpc[q] /\ want'[q] = want[q] /\ held'[q] = held[q]
  BY Zenon, <1>2, <1>4, CallFacts
<1>5. held'[p] = held[p] \ {b} /\ block'[b] = Nil /\ \A c \in Buf : c # b => block'[c] = block[c]
  BY Zenon, <1>0, <1>2, CallFacts
<1>6. bpc'[p] = "brelse" /\ want'[p] = b
  BY Zenon, <1>2, CallFacts
<1>7. CacheType' /\ CallType'
  <2>1. CacheType'
    BY Zenon, <1>2, CallFacts DEF CacheType
  <2>2. want' \in [BioProc -> Buf \cup {Nil}] /\ held' \in [BioProc -> SUBSET Buf]
    BY Zenon, <1>0, <1>2, CallFacts
  <2>3. bpc' \in [BioProc -> {"run", "lock", "iderw", "sleep", "woken", "brelse", "panic"}]
    BY Zenon, <1>2, CallFacts
  <2> QED
    BY Zenon, <1>2, <2>1, <2>2, <2>3, CallFacts DEF CallType
<1>8. ASSUME NEW q \in BioProc, NEW c \in Buf
      PROVE  (Uses(q, c)' <=> Uses(q, c)) /\ (InIo(q, c)' <=> InIo(q, c))
  <2>1. CASE q = p
    BY Zenon, <1>0, <1>5, <1>6, <2>1 DEF Uses, InIo
  <2>2. CASE q # p
    BY Zenon, <1>4, <2>2 DEF Uses, InIo
  <2> QED
    BY Zenon, <2>1, <2>2
<1>9. LockInv'
  <2>1. ASSUME NEW q \in BioProc, NEW c \in Buf PROVE c \in held'[q] <=> block'[c] = q
    <3>1. (b \in held[q] => q = p) /\ (c \in held[q] <=> block[c] = q) /\ Nil # q
      BY Zenon, HolderFacts, CallFacts, BioFacts DEF LockInv
    <3> QED
      BY <1>4, <1>5, <3>1
  <2>2. ASSUME NEW q \in BioProc
        PROVE  /\ bpc'[q] \in {"lock", "brelse"} => want'[q] \in Buf /\ want'[q] \notin held'[q]
               /\ bpc'[q] \in {"iderw", "sleep", "woken"} => want'[q] \in held'[q]
    <3>1. CASE q = p
      BY Zenon, <1>0, <1>5, <1>6, <3>1
    <3>2. CASE q # p
      BY Zenon, <1>4, <3>2, CallFacts DEF LockInv
    <3> QED
      BY Zenon, <3>1, <3>2
  <2> QED
    BY Zenon, <2>1, <2>2 DEF LockInv
<1>10. UsedInv' /\ OneBufferPerBlock'
  BY <1>2, <1>8, CallFacts DEF UsedInv, OneBufferPerBlock
<1>11. RefcntExact'
  BY <1>2, <1>8, CallFacts, CountKept, Zenon
<1>12. FlagInv'
  <2>1. \A c \in Buf : bvalid'[c] => blockno'[c] \in AnyBlock
    BY Zenon, <1>2, CallFacts DEF FlagInv
  <2>2. ASSUME NEW c \in Buf, dirty'[c]
        PROVE  bvalid'[c] /\ (blockno'[c] \in logged' \/ \E q \in BioProc : InIo(q, c)')
    <3>1. dirty[c] /\ blockno'[c] = blockno[c] /\ bvalid'[c] = bvalid[c] /\ logged' = logged
      BY Zenon, <1>2, <2>2
    <3>2. bvalid[c] /\ (blockno[c] \in logged \/ \E q \in BioProc : InIo(q, c))
      BY Zenon, <3>1, CallFacts DEF FlagInv
    <3> QED
      BY Zenon, <1>8, <3>1, <3>2
  <2>3. ASSUME NEW q \in BioProc, NEW c \in held'[q], ~InIo(q, c)' PROVE bvalid'[c]
    <3>1. c \in held[q] /\ c \in Buf
      BY <1>4, <1>5, <2>3, CallFacts, Zenon
    <3> QED
      BY Zenon, <1>2, <1>8, <2>3, <3>1, CallFacts DEF FlagInv
  <2>4. ASSUME NEW q \in BioProc, bpc'[q] = "woken" PROVE ~dirty'[want'[q]]
    <3>1. q # p /\ bpc[q] = "woken" /\ want'[q] = want[q]
      BY Zenon, <1>4, <1>6, <2>4
    <3> QED
      BY Zenon, <1>2, <3>1, CallFacts DEF FlagInv
  <2> QED
    BY Zenon, <2>1, <2>2, <2>3, <2>4 DEF FlagInv
<1>13. QueueInv'
  BY Zenon, <1>0, <1>2, <1>4, <1>6, CallFacts, QueueKept
<1> QED
  BY Zenon, <1>7, <1>9, <1>10, <1>11, <1>12, <1>13 DEF BioInv

(* brelse, second part: the reference goes and the buffer moves. *)
LEMMA BrelseKeeps ==
  ASSUME BioInv, NEW p \in BioProc, Brelse(p)
  PROVE  BioInv'
<1>0. bpc[p] = "brelse"
  BY Zenon DEF Brelse
<1>1. PICK b \in Buf : b = want[p] /\ b \notin held[p]
  BY Zenon, <1>0, CallFacts DEF LockInv
<1>2. /\ refcnt' = [refcnt EXCEPT ![b] = refcnt[b] - 1]
      /\ mru' = mru \/ mru' = ToFront(b, mru)
      /\ bpc' = [bpc EXCEPT ![p] = "run"] /\ want' = [want EXCEPT ![p] = Nil]
      /\ UNCHANGED <<blockno, bvalid, dirty, block, held, idequeue, request, driver, logged>>
  BY Zenon, <1>1 DEF Brelse, Return, ideVars, logVars
<1>3. Uses(p, b)
  BY Zenon, <1>0, <1>1 DEF Uses
<1>4. ASSUME NEW q \in BioProc, q # p PROVE bpc'[q] = bpc[q] /\ want'[q] = want[q] /\ held'[q] = held[q]
  BY Zenon, <1>2, <1>4, CallFacts
<1>5. bpc'[p] = "run" /\ held'[p] = held[p]
  BY Zenon, <1>2, CallFacts
<1>6. refcnt[b] \in Nat /\ refcnt[b] # 0
  BY Zenon, <1>3, CallFacts, CountFacts
<1>7. CacheType' /\ CallType'
  <2>1. mru' \in [Buf -> Buf] /\ \A c \in Buf : \E i \in Buf : mru'[i] = c
    <3>1. mru \in [Buf -> Buf] /\ \A c \in Buf : \E i \in Buf : mru[i] = c
      BY Zenon, CallFacts DEF CacheType
    <3>2. /\ ToFront(b, mru) \in [Buf -> Buf]
          /\ \A c \in Buf : \E i \in Buf : ToFront(b, mru)[i] = c
      BY CallFacts, ListMoved, Zenon
    <3>3. CASE mru' = mru
      BY <3>1, <3>3, Zenon
    <3>4. CASE mru' = ToFront(b, mru)
      BY <3>2, <3>4, Zenon
    <3> QED
      BY Zenon, <1>2, <3>3, <3>4
  <2>2. refcnt' \in [Buf -> Nat]
    BY <1>2, <1>6, CallFacts
  <2>3. CacheType'
    BY <1>2, <2>1, <2>2, CallFacts, Zenon DEF CacheType
  <2>4. want' \in [BioProc -> Buf \cup {Nil}]
    BY Zenon, <1>2, CallFacts
  <2>5. bpc' \in [BioProc -> {"run", "lock", "iderw", "sleep", "woken", "brelse", "panic"}]
    BY Zenon, <1>2, CallFacts
  <2> QED
    BY Zenon, <1>2, <2>3, <2>4, <2>5, CallFacts DEF CallType
<1>8. ASSUME NEW q \in BioProc, NEW c \in Buf
      PROVE  InIo(q, c)' <=> InIo(q, c)
  BY Zenon, <1>0, <1>4, <1>5 DEF InIo
<1>9. ASSUME NEW q \in BioProc, NEW c \in Buf, q # p \/ c # b PROVE Uses(q, c)' <=> Uses(q, c)
  BY Zenon, <1>0, <1>1, <1>4, <1>5, <1>9 DEF Uses
<1>10. ~Uses(p, b)'
  BY Zenon, <1>1, <1>5 DEF Uses
<1>11. LockInv'
  BY <1>2, <1>4, <1>5, CallFacts DEF LockInv
<1>12. UsedInv'
  <2>1. ASSUME NEW q \in BioProc, NEW c \in Buf, Uses(q, c)' PROVE blockno'[c] \in AnyBlock
    BY Zenon, <1>2, <1>9, <1>10, <2>1, CallFacts DEF UsedInv
  <2> QED
    BY Zenon, <2>1 DEF UsedInv
<1>13. OneBufferPerBlock'
  BY Zenon, <1>2, CallFacts DEF OneBufferPerBlock
<1>14. RefcntExact'
  BY <1>2, <1>3, <1>9, <1>10, CallFacts, CountDown, Zenon
<1>15. FlagInv'
  BY Zenon, <1>2, <1>4, <1>5, <1>8, CallFacts, FlagKept
<1>16. QueueInv'
  BY Zenon, <1>0, <1>2, <1>4, <1>5, CallFacts, QueueKept
<1> QED
  BY Zenon, <1>7, <1>11, <1>12, <1>13, <1>14, <1>15, <1>16 DEF BioInv

(* The commit writes a logged block home: it leaves the log, and its buffer *)
(* is in iderw.                                                             *)
LEMMA CommitWriteKeeps ==
  ASSUME BioInv, NEW p \in BioProc, CommitWrite(p)
  PROVE  BioInv'
<1>0. PICK k \in logged, b \in held[p] : blockno[b] = k /\ Bwrite(p, b) /\ logged' = logged \ {k}
  BY Zenon DEF CommitWrite
<1>1. b \in Buf /\ bpc[p] = "run"
  BY Zenon, <1>0, HolderFacts DEF Bwrite
<1>2. /\ dirty' = [dirty EXCEPT ![b] = TRUE]
      /\ bpc' = [bpc EXCEPT ![p] = "iderw"] /\ want' = [want EXCEPT ![p] = b]
      /\ UNCHANGED <<blockno, bvalid, refcnt, mru, block, held, idequeue, request, driver>>
  BY Zenon, <1>0 DEF Bwrite, ideVars
<1>4. ASSUME NEW q \in BioProc, q # p PROVE bpc'[q] = bpc[q] /\ want'[q] = want[q] /\ held'[q] = held[q]
  BY Zenon, <1>2, <1>4, CallFacts
<1>5. bpc'[p] = "iderw" /\ want'[p] = b /\ held'[p] = held[p]
  BY Zenon, <1>2, CallFacts
<1>6. ASSUME NEW c \in Buf, c # b PROVE dirty'[c] = dirty[c]
  BY Zenon, <1>2, <1>6, CallFacts
<1>7. CacheType' /\ CallType'
  <2>1. CacheType'
    BY Zenon, <1>2, CallFacts DEF CacheType
  <2>4. want' \in [BioProc -> Buf \cup {Nil}]
    BY Zenon, <1>1, <1>2, CallFacts
  <2>5. bpc' \in [BioProc -> {"run", "lock", "iderw", "sleep", "woken", "brelse", "panic"}]
    BY Zenon, <1>2, CallFacts
  <2> QED
    BY Zenon, <1>0, <1>2, <2>1, <2>4, <2>5, CallFacts DEF CallType
<1>8. ASSUME NEW q \in BioProc, NEW c \in Buf PROVE Uses(q, c)' <=> Uses(q, c)
  BY Zenon, <1>1, <1>4, <1>5 DEF Uses
<1>11. LockInv'
  BY <1>2, <1>4, <1>5, CallFacts DEF LockInv
<1>12. UsedInv' /\ OneBufferPerBlock'
  BY Zenon, <1>2, <1>8, CallFacts DEF UsedInv, OneBufferPerBlock
<1>14. RefcntExact'
  BY <1>2, <1>8, CallFacts, CountKept, Zenon
<1>15. FlagInv'
  <2>1. \A c \in Buf : bvalid'[c] => blockno'[c] \in AnyBlock
    BY Zenon, <1>2, CallFacts DEF FlagInv
  <2>2. bvalid[b]
    BY <1>1, CallFacts, Zenon DEF FlagInv, InIo
  <2>3. ASSUME NEW c \in Buf, dirty'[c]
        PROVE  bvalid'[c] /\ (blockno'[c] \in logged' \/ \E q \in BioProc : InIo(q, c)')
    <3>1. CASE c = b
      BY Zenon, <1>2, <1>5, <2>2, <3>1 DEF InIo
    <3>2. CASE c # b
      <4>1. dirty[c] /\ blockno'[c] = blockno[c] /\ bvalid'[c] = bvalid[c]
        BY Zenon, <1>2, <1>6, <2>3, <3>2
      <4>2. bvalid[c] /\ (blockno[c] \in logged \/ \E q \in BioProc : InIo(q, c))
        BY Zenon, <4>1, CallFacts DEF FlagInv
      <4>3. k \in AnyBlock
        BY Zenon, BioFacts, CallFacts DEF CallType
      <4>4. blockno[c] # k
        BY Zenon, <1>0, <1>1, <3>2, <4>3, BioFacts, CallFacts DEF OneBufferPerBlock
      <4>5. ASSUME NEW q \in BioProc, InIo(q, c) PROVE InIo(q, c)'
        BY Zenon, <1>1, <1>4, <4>5 DEF InIo
      <4> QED
        BY Zenon, <1>0, <4>1, <4>2, <4>4, <4>5
    <3> QED
      BY Zenon, <3>1, <3>2
  <2>4. ASSUME NEW q \in BioProc, NEW c \in held'[q], ~InIo(q, c)' PROVE bvalid'[c]
    <3>1. c \in held[q] /\ ~InIo(q, c)
      BY Zenon, <1>1, <1>2, <1>4, <2>4 DEF InIo
    <3> QED
      BY Zenon, <1>2, <3>1, CallFacts DEF FlagInv
  <2>5. ASSUME NEW q \in BioProc, bpc'[q] = "woken" PROVE ~dirty'[want'[q]]
    <3>1. q # p /\ bpc[q] = "woken" /\ want'[q] = want[q]
      BY Zenon, <1>4, <1>5, <2>5
    <3>2. want[q] # b /\ want[q] \in Buf
      BY Zenon, <1>0, <1>1, <3>1, HolderFacts, CallFacts DEF LockInv
    <3> QED
      BY Zenon, <1>6, <3>1, <3>2, CallFacts DEF FlagInv
  <2> QED
    BY Zenon, <2>1, <2>3, <2>4, <2>5 DEF FlagInv
<1>16. QueueInv'
  <2>1. ASSUME NEW q \in BioProc, bpc[q] = "sleep"
        PROVE  want'[q] = want[q] /\ blockno'[want[q]] = blockno[want[q]] /\ dirty'[want[q]] = dirty[want[q]]
    <3>1. q # p /\ want[q] # b
      BY Zenon, <1>0, <1>1, <2>1, HolderFacts
    <3>2. want[q] \in Buf
      BY <2>1, CallFacts DEF LockInv
    <3> QED
      BY Zenon, <1>2, <1>4, <1>6, <3>1, <3>2
  <2> QED
    BY <1>1, <1>2, <1>4, <1>5, <2>1, CallFacts, QueueKept, Zenon
<1> QED
  BY Zenon, <1>7, <1>11, <1>12, <1>14, <1>15, <1>16 DEF BioInv

(* log_write marks a held buffer dirty and keeps its block. *)
LEMMA BlockLoggedKeeps ==
  ASSUME BioInv, NEW p \in BioProc, BlockLogged(p)
  PROVE  BioInv'
<1>0. PICK b \in held[p] : /\ blockno[b] \in Written /\ dirty' = [dirty EXCEPT ![b] = TRUE]
                           /\ logged' = logged \cup {blockno[b]}
  BY Zenon DEF BlockLogged
<1>1. b \in Buf /\ bpc[p] = "run"
  BY Zenon, <1>0, HolderFacts DEF BlockLogged
<1>2. UNCHANGED <<blockno, bvalid, refcnt, mru, block, held, idequeue, request, driver, bpc, want>>
  BY Zenon DEF BlockLogged, ideVars, callVars
<1>6. ASSUME NEW c \in Buf, c # b PROVE dirty'[c] = dirty[c]
  BY Zenon, <1>0, <1>6, CallFacts
<1>7. CacheType' /\ CallType'
  <2>1. CacheType'
    BY Zenon, <1>0, <1>2, CallFacts DEF CacheType
  <2>2. logged' \subseteq Home
    BY Zenon, <1>0, BioFacts, CallFacts DEF CallType
  <2> QED
    BY Zenon, <1>2, <2>1, <2>2, CallFacts DEF CallType
<1>8. ASSUME NEW q \in BioProc, NEW c \in Buf
      PROVE  (Uses(q, c)' <=> Uses(q, c)) /\ (InIo(q, c)' <=> InIo(q, c))
  BY Zenon, <1>2 DEF Uses, InIo
<1>11. LockInv'
  BY Zenon, <1>2, CallFacts DEF LockInv
<1>12. UsedInv' /\ OneBufferPerBlock'
  BY Zenon, <1>2, <1>8, CallFacts DEF UsedInv, OneBufferPerBlock
<1>14. RefcntExact'
  BY <1>2, <1>8, CallFacts, CountKept, Zenon
<1>15. FlagInv'
  <2>1. \A c \in Buf : bvalid'[c] => blockno'[c] \in AnyBlock
    BY Zenon, <1>2, CallFacts DEF FlagInv
  <2>2. bvalid[b]
    BY <1>1, CallFacts, Zenon DEF FlagInv, InIo
  <2>3. ASSUME NEW c \in Buf, dirty'[c]
        PROVE  bvalid'[c] /\ (blockno'[c] \in logged' \/ \E q \in BioProc : InIo(q, c)')
    <3>1. CASE c = b
      BY <1>0, <1>2, <2>2, <3>1
    <3>2. CASE c # b
      <4>1. dirty[c] /\ blockno'[c] = blockno[c] /\ bvalid'[c] = bvalid[c]
        BY Zenon, <1>2, <1>6, <2>3, <3>2
      <4>2. bvalid[c] /\ (blockno[c] \in logged \/ \E q \in BioProc : InIo(q, c))
        BY Zenon, <4>1, CallFacts DEF FlagInv
      <4> QED
        BY Zenon, <1>0, <1>8, <4>1, <4>2
    <3> QED
      BY Zenon, <3>1, <3>2
  <2>4. ASSUME NEW q \in BioProc, NEW c \in held'[q], ~InIo(q, c)' PROVE bvalid'[c]
    <3>1. c \in held[q] /\ ~InIo(q, c)
      BY Zenon, <1>2, <2>4 DEF InIo
    <3> QED
      BY Zenon, <1>2, <3>1, CallFacts DEF FlagInv
  <2>5. ASSUME NEW q \in BioProc, bpc'[q] = "woken" PROVE ~dirty'[want'[q]]
    <3>1. bpc[q] = "woken" /\ want'[q] = want[q]
      BY <1>2, <2>5
    <3>2. want[q] # b /\ want[q] \in Buf
      BY Zenon, <1>0, <1>1, <3>1, HolderFacts, CallFacts DEF LockInv
    <3> QED
      BY Zenon, <1>6, <3>1, <3>2, CallFacts DEF FlagInv
  <2> QED
    BY Zenon, <2>1, <2>3, <2>4, <2>5 DEF FlagInv
<1>16. QueueInv'
  <2>1. ASSUME NEW q \in BioProc, bpc[q] = "sleep"
        PROVE  want'[q] = want[q] /\ blockno'[want[q]] = blockno[want[q]] /\ dirty'[want[q]] = dirty[want[q]]
    <3>1. want[q] # b
      BY Zenon, <1>0, <1>1, <2>1, HolderFacts
    <3>2. want[q] \in Buf
      BY <2>1, CallFacts DEF LockInv
    <3> QED
      BY Zenon, <1>2, <1>6, <3>1, <3>2
  <2> QED
    BY Zenon, <1>2, <2>1, CallFacts, QueueKept
<1> QED
  BY Zenon, <1>7, <1>11, <1>12, <1>14, <1>15, <1>16 DEF BioInv

(* iderw appends its buffer to the queue and sleeps; the first starts the   *)
(* disk.                                                                    *)
LEMMA IderwKeeps ==
  ASSUME BioInv, NEW p \in BioProc, Iderw(p)
  PROVE  BioInv'
<1>0. bpc[p] = "iderw" /\ driver = "ide"
  BY Zenon DEF Iderw
<1>1. PICK b \in held[p] : b = want[p]
  BY Zenon, <1>0, CallFacts DEF LockInv
<1>2. b \in Buf /\ InIo(p, b)
  BY Zenon, <1>0, <1>1, HolderFacts DEF InIo
<1>3. /\ idequeue' = Append(idequeue, b) /\ bpc' = [bpc EXCEPT ![p] = "sleep"]
      /\ IF Head(idequeue') = b THEN IdeStart(b) ELSE request' = request
      /\ UNCHANGED <<blockno, bvalid, dirty, refcnt, mru, block, want, held, driver, logged>>
  BY Zenon, <1>1 DEF Iderw, bufVars, logVars
<1>4. ASSUME NEW q \in BioProc, q # p PROVE bpc'[q] = bpc[q]
  BY Zenon, <1>3, <1>4, CallFacts
<1>5. bpc'[p] = "sleep"
  BY Zenon, <1>3, CallFacts
<1>6. \A i \in DOMAIN idequeue : idequeue[i] # b
  <2>1. ASSUME NEW i \in DOMAIN idequeue, idequeue[i] = b PROVE FALSE
    <3>1. PICK q \in BioProc : bpc[q] = "sleep" /\ want[q] = b
      BY <2>1, CallFacts DEF QueueInv, Asleep
    <3> QED
      BY Zenon, <1>0, <1>1, <3>1, HolderFacts
  <2> QED
    BY Zenon, <2>1
<1>7. /\ idequeue' \in Seq(Buf) /\ idequeue' # <<>> /\ DOMAIN idequeue' = DOMAIN idequeue \cup {Len(idequeue) + 1}
      /\ idequeue'[Len(idequeue) + 1] = b /\ \A i \in DOMAIN idequeue : idequeue'[i] = idequeue[i]
      /\ Head(idequeue') = idequeue'[1] /\ Len(idequeue) + 1 \notin DOMAIN idequeue
      /\ (idequeue = <<>> => idequeue'[1] = b) /\ (idequeue # <<>> => 1 \in DOMAIN idequeue)
  BY <1>2, <1>3, CallFacts
<1>8. /\ idequeue = <<>> => IdeStart(b)
      /\ idequeue # <<>> => request' = request /\ idequeue'[1] = idequeue[1]
  BY Zenon, <1>3, <1>6, <1>7
<1>9. ASSUME IdeStart(b)
      PROVE  /\ request'.blockno = blockno[b] /\ request'.cmd \in {"read", "write"}
             /\ request'.cmd = "read" => ~dirty[b]
             /\ request'.cmd = "write" => dirty[b]
  BY Zenon, <1>2, <1>9, CallFacts DEF IdeStart
<1>10. CacheType' /\ CallType'
  <2>1. CacheType'
    BY Zenon, <1>3, CallFacts DEF CacheType
  <2>2. request'.cmd \in {"none", "read", "write", "done"}
    BY Zenon, <1>8, <1>9, CallFacts DEF CallType
  <2>3. bpc' \in [BioProc -> {"run", "lock", "iderw", "sleep", "woken", "brelse", "panic"}]
    BY Zenon, <1>3, CallFacts
  <2> QED
    BY Zenon, <1>3, <1>7, <2>1, <2>2, <2>3, CallFacts DEF CallType
<1>11. ASSUME NEW q \in BioProc, NEW c \in Buf
      PROVE  (Uses(q, c)' <=> Uses(q, c)) /\ (InIo(q, c)' <=> InIo(q, c))
  BY Zenon, <1>0, <1>3, <1>4, <1>5 DEF Uses, InIo
<1>12. LockInv'
  BY <1>0, <1>3, <1>4, <1>5, CallFacts DEF LockInv
<1>13. UsedInv' /\ OneBufferPerBlock'
  BY Zenon, <1>3, <1>11, CallFacts DEF UsedInv, OneBufferPerBlock
<1>14. RefcntExact'
  BY <1>3, <1>11, CallFacts, CountKept, Zenon
<1>15. FlagInv'
  BY Zenon, <1>3, <1>4, <1>5, <1>11, CallFacts, FlagKept
<1>16. QueueInv'
  <2>1. ASSUME NEW i \in DOMAIN idequeue' PROVE Asleep(idequeue[i])'
    <3>1. CASE i \in DOMAIN idequeue
      <4>1. PICK q \in BioProc : bpc[q] = "sleep" /\ want[q] = idequeue[i]
        BY Zenon, <3>1, CallFacts DEF QueueInv, Asleep
      <4>2. bpc'[q] = "sleep" /\ want'[q] = idequeue'[i]
        BY Zenon, <1>3, <1>4, <1>5, <1>7, <3>1, <4>1
      <4> QED
        BY Zenon, <4>2 DEF Asleep
    <3>2. CASE i = Len(idequeue) + 1
      BY <1>1, <1>3, <1>5, <1>7, <3>2 DEF Asleep
    <3> QED
      BY Zenon, <1>7, <3>1, <3>2
  <2>2. \A i, j \in DOMAIN idequeue' : idequeue'[i] = idequeue'[j] => i = j
    <3>1. \A i, j \in DOMAIN idequeue : idequeue[i] = idequeue[j] => i = j
      BY Zenon, CallFacts DEF QueueInv
    <3> QED
      BY <1>6, <1>7, <3>1
  <2>3. ASSUME NEW q \in BioProc, bpc'[q] = "sleep" PROVE \E i \in DOMAIN idequeue' : idequeue'[i] = want'[q]
    <3>1. CASE q = p
      BY Zenon, <1>1, <1>3, <1>7, <3>1
    <3>2. CASE q # p
      <4>1. PICK i \in DOMAIN idequeue : idequeue[i] = want[q]
        BY Zenon, <1>4, <2>3, <3>2, CallFacts DEF QueueInv
      <4> QED
        BY Zenon, <1>3, <1>7, <4>1
    <3> QED
      BY Zenon, <3>1, <3>2
  <2>4. CASE idequeue = <<>>
    <3>1. /\ request'.cmd # "none" /\ request'.blockno = blockno'[idequeue'[1]]
          /\ request'.cmd = "read" => ~dirty'[idequeue'[1]]
          /\ request'.cmd = "write" => dirty'[idequeue'[1]]
      BY Zenon, <1>3, <1>7, <1>8, <1>9, <2>4
    <3> QED
      BY <1>0, <1>3, <1>7, <2>1, <2>2, <2>3, <3>1 DEF QueueInv
  <2>5. CASE idequeue # <<>>
    <3>1. /\ request'.cmd # "none" /\ request'.blockno = blockno'[idequeue'[1]]
          /\ request'.cmd = "read" => ~dirty'[idequeue'[1]]
          /\ request'.cmd = "write" => dirty'[idequeue'[1]]
      BY Zenon, <1>3, <1>7, <1>8, <2>5, CallFacts DEF QueueInv
    <3> QED
      BY Zenon, <1>0, <1>3, <1>7, <2>1, <2>2, <2>3, <3>1 DEF QueueInv
  <2> QED
    BY Zenon, <2>4, <2>5
<1> QED
  BY Zenon, <1>10, <1>12, <1>13, <1>14, <1>15, <1>16 DEF BioInv

(* Woken in iderw: the buffer is valid and clean, so the call returns. *)
LEMMA IderwTestKeeps ==
  ASSUME BioInv, NEW p \in BioProc, IderwTest(p)
  PROVE  BioInv'
<1>0. bpc[p] = "woken" /\ want[p] \in held[p] /\ ~dirty[want[p]]
  BY Zenon, CallFacts DEF IderwTest, LockInv, FlagInv
<1>1. bvalid[want[p]]
  BY <1>0, CallFacts, Zenon DEF FlagInv, InIo
<1>2. /\ bpc' = [bpc EXCEPT ![p] = "run"] /\ want' = [want EXCEPT ![p] = Nil]
      /\ UNCHANGED <<blockno, bvalid, dirty, refcnt, mru, block, held, idequeue, request, driver, logged>>
  BY Zenon, <1>0, <1>1 DEF IderwTest, Return, bufVars, ideVars, logVars
<1>4. ASSUME NEW q \in BioProc, q # p PROVE bpc'[q] = bpc[q] /\ want'[q] = want[q]
  BY Zenon, <1>2, <1>4, CallFacts
<1>5. bpc'[p] = "run"
  BY Zenon, <1>2, CallFacts
<1>7. CacheType' /\ CallType'
  <2>1. CacheType'
    BY Zenon, <1>2, CallFacts DEF CacheType
  <2>4. want' \in [BioProc -> Buf \cup {Nil}]
    BY Zenon, <1>2, CallFacts
  <2>5. bpc' \in [BioProc -> {"run", "lock", "iderw", "sleep", "woken", "brelse", "panic"}]
    BY Zenon, <1>2, CallFacts
  <2> QED
    BY Zenon, <1>2, <2>1, <2>4, <2>5, CallFacts DEF CallType
<1>8. ASSUME NEW q \in BioProc, NEW c \in Buf
      PROVE  (Uses(q, c)' <=> Uses(q, c)) /\ (InIo(q, c)' <=> InIo(q, c))
  BY Zenon, <1>0, <1>2, <1>4, <1>5 DEF Uses, InIo
<1>11. LockInv'
  BY <1>2, <1>4, <1>5, CallFacts DEF LockInv
<1>12. UsedInv' /\ OneBufferPerBlock'
  BY Zenon, <1>2, <1>8, CallFacts DEF UsedInv, OneBufferPerBlock
<1>14. RefcntExact'
  BY <1>2, <1>8, CallFacts, CountKept, Zenon
<1>15. FlagInv'
  BY Zenon, <1>2, <1>4, <1>5, <1>8, CallFacts, FlagKept
<1>16. QueueInv'
  BY Zenon, <1>0, <1>2, <1>4, <1>5, CallFacts, QueueKept
<1> QED
  BY Zenon, <1>7, <1>11, <1>12, <1>14, <1>15, <1>16 DEF BioInv

(* The disk works on its request; the cache does not change. *)
LEMMA DiskWorksKeeps ==
  ASSUME BioInv, DiskWorks
  PROVE  BioInv'
<1>1. /\ request.cmd \in {"read", "write"} /\ request'.cmd = "done" /\ request'.blockno = request.blockno
      /\ UNCHANGED <<blockno, bvalid, dirty, refcnt, mru, block, held, bpc, want, idequeue, driver, logged>>
  BY DEF DiskWorks, bufVars, callVars, logVars
<1>2. CacheType' /\ CallType'
  BY <1>1, CallFacts DEF CacheType, CallType
<1>3. ASSUME NEW q \in BioProc, NEW c \in Buf
      PROVE  (Uses(q, c)' <=> Uses(q, c)) /\ (InIo(q, c)' <=> InIo(q, c))
  BY Zenon, <1>1 DEF Uses, InIo
<1>4. LockInv' /\ UsedInv' /\ OneBufferPerBlock'
  BY Zenon, <1>1, <1>3, CallFacts DEF LockInv, UsedInv, OneBufferPerBlock
<1>5. RefcntExact'
  BY <1>1, <1>3, CallFacts, CountKept, Zenon
<1>6. FlagInv'
  BY Zenon, <1>1, <1>3, CallFacts, FlagKept
<1>7. QueueInv'
  <2>1. ASSUME NEW i \in DOMAIN idequeue PROVE Asleep(idequeue[i])'
    BY <1>1, CallFacts DEF QueueInv, Asleep
  <2> QED
    BY <1>1, <2>1, CallFacts DEF QueueInv
<1> QED
  BY Zenon, <1>2, <1>4, <1>5, <1>6, <1>7 DEF BioInv

=============================================================================
