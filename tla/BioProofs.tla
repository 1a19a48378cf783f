----------------------------- MODULE BioProofs -----------------------------
(***************************************************************************)
(* Proofs about the buffer cache, second part: the drivers, the contents   *)
(* of the cached blocks, and the room in the cache.                        *)
(***************************************************************************)
EXTENDS BioCacheProofs

(* The provers a leaf without a pragma is given to. *)
USE SMTT(20), ZenonT(20), Z3T(60)
-----------------------------------------------------------------------------
(* The contents: a valid buffer has the latest, a block without a dirty     *)
(* buffer has them on the disk, and a request carries those of its buffer.  *)
DataInv ==
  /\ bdata \in [Buf -> Value \cup {Junk}] /\ media \in [AnyBlock -> Value] /\ bstore \in [AnyBlock -> Value]
  /\ CacheCoherent
  /\ \A k \in AnyBlock : media[k] # bstore[k] => \E b \in Buf : blockno[b] = k /\ dirty[b]
  /\ idequeue # <<>> =>
       LET b == idequeue[1]
       IN /\ request.cmd = "write" => request.bdata = bdata[b]
          /\ request.cmd = "done" => IF dirty[b] THEN media[blockno[b]] = bdata[b]
                                                 ELSE request.bdata = media[blockno[b]]

(* How many buffers are taken: those of the log, and two of each process. *)
RoomInv ==
  /\ IsFiniteSet(logged) /\ Cardinality(logged) <= MAXPIN
  /\ \A p \in BioProc : \E x, y \in Buf : held[p] \subseteq {x, y}
  /\ \A p \in BioProc : bpc[p] \in {"lock", "brelse"} => \E x \in Buf : held[p] \subseteq {x}
  /\ NeverOutOfBuffers
-----------------------------------------------------------------------------
(* ideintr: the first of the queue is valid and clean, its process is       *)
(* woken, and the disk starts on the next.                                  *)
LEMMA IdeIntrKeeps ==
  ASSUME BioInv, IdeIntr
  PROVE  BioInv'
<1>0. idequeue # <<>> /\ request.cmd = "done"
  BY Zenon DEF IdeIntr
<1>1. /\ 1 \in DOMAIN idequeue /\ idequeue[1] \in Buf /\ Head(idequeue) = idequeue[1]
      /\ Tail(idequeue) \in Seq(Buf) /\ DOMAIN Tail(idequeue) = 1 .. Len(idequeue) - 1
      /\ \A i \in 1 .. Len(idequeue) - 1 : i + 1 \in DOMAIN idequeue /\ Tail(idequeue)[i] = idequeue[i + 1]
      /\ \A i \in DOMAIN idequeue : i # 1 => i - 1 \in 1 .. Len(idequeue) - 1 /\ (i - 1) + 1 = i
      /\ Tail(idequeue) # <<>> => Head(Tail(idequeue)) = Tail(idequeue)[1] /\ 1 \in DOMAIN Tail(idequeue)
  BY <1>0, CallFacts
<1>2. PICK b \in Buf : b = idequeue[1]
  BY Zenon, <1>1
<1>3. /\ idequeue' = Tail(idequeue)
      /\ bvalid' = [bvalid EXCEPT ![b] = TRUE] /\ dirty' = [dirty EXCEPT ![b] = FALSE]
      /\ bpc' = [p \in BioProc |-> IF bpc[p] = "sleep" /\ want[p] = b THEN "woken" ELSE bpc[p]]
      /\ IF idequeue' # <<>> THEN IdeStart(Head(idequeue')) ELSE request' = Idle
      /\ UNCHANGED <<blockno, refcnt, mru, block, want, held, driver, logged>>
  BY Zenon, <1>1, <1>2 DEF IdeIntr, logVars
<1>4. PICK p \in BioProc : bpc[p] = "sleep" /\ want[p] = b /\ b \in held[p]
  BY <1>1, <1>2, CallFacts DEF QueueInv, Asleep, LockInv
<1>5. \A q \in BioProc : bpc[q] \in {"iderw", "sleep", "woken"} /\ want[q] = b => q = p
  BY <1>4, HolderFacts, CallFacts DEF LockInv
<1>6. bpc'[p] = "woken" /\ \A q \in BioProc : q # p => bpc'[q] = bpc[q]
  BY Zenon, <1>3, <1>4, <1>5
<1>7. ASSUME NEW c \in Buf, c # b PROVE bvalid'[c] = bvalid[c] /\ dirty'[c] = dirty[c]
  BY Zenon, <1>3, <1>7, CallFacts
<1>8. bvalid'[b] /\ ~dirty'[b]
  BY Zenon, <1>3, CallFacts
<1>9. ASSUME idequeue' # <<>>
      PROVE  LET c == idequeue'[1]
             IN /\ c \in Buf /\ c # b /\ request'.blockno = blockno[c] /\ request'.cmd \in {"read", "write"}
                /\ request'.cmd = "read" => ~dirty[c]
                /\ request'.cmd = "write" => dirty[c]
  <2>1. PICK c \in Buf : c = idequeue'[1]
    BY <1>1, <1>3, <1>9
  <2>2. IdeStart(c)
    BY Zenon, <1>1, <1>3, <1>9, <2>1
  <2>3. c = idequeue[2] /\ 2 \in DOMAIN idequeue
    BY <1>1, <1>3, <1>9, <2>1
  <2>4. c # b
    BY <1>1, <1>2, <2>3, CallFacts DEF QueueInv
  <2>5. /\ request'.blockno = blockno[c] /\ request'.cmd \in {"read", "write"}
        /\ request'.cmd = "read" => ~dirty[c]
        /\ request'.cmd = "write" => dirty[c]
    BY Zenon, <2>1, <2>2, CallFacts DEF IdeStart
  <2> QED
    BY Zenon, <2>1, <2>4, <2>5
<1>10. CacheType' /\ CallType'
  <2>1. CacheType'
    <3>1. bvalid' \in [Buf -> BOOLEAN] /\ dirty' \in [Buf -> BOOLEAN]
      BY Zenon, <1>3, CallFacts
    <3> QED
      BY Zenon, <1>3, <3>1, CallFacts DEF CacheType
  <2>2. request'.cmd \in {"none", "read", "write", "done"}
    BY <1>3, <1>9 DEF Idle
  <2>3. bpc' \in [BioProc -> {"run", "lock", "iderw", "sleep", "woken", "brelse", "panic"}]
    BY Zenon, <1>3, CallFacts
  <2> QED
    BY Zenon, <1>1, <1>3, <2>1, <2>2, <2>3, CallFacts DEF CallType
<1>11. ASSUME NEW q \in BioProc, NEW c \in Buf PROVE Uses(q, c)' <=> Uses(q, c)
  BY Zenon, <1>3, <1>4, <1>6 DEF Uses
<1>12. LockInv'
  BY <1>3, <1>4, <1>6, CallFacts DEF LockInv
<1>13. UsedInv' /\ OneBufferPerBlock'
  BY Zenon, <1>3, <1>11, CallFacts DEF UsedInv, OneBufferPerBlock
<1>14. RefcntExact'
  BY <1>3, <1>11, CallFacts, CountKept, Zenon
<1>15. FlagInv'
  <2>1. ASSUME NEW c \in Buf, bvalid'[c] PROVE blockno'[c] \in AnyBlock
    <3>1. blockno[b] \in AnyBlock
      BY Zenon, <1>4, CallFacts DEF UsedInv, Uses
    <3> QED
      BY Zenon, <1>3, <1>7, <2>1, <3>1, CallFacts DEF FlagInv
  <2>2. ASSUME NEW c \in Buf, dirty'[c]
        PROVE  bvalid'[c] /\ (blockno'[c] \in logged' \/ \E q \in BioProc : InIo(q, c)')
    <3>1. c # b /\ dirty[c] /\ bvalid'[c] = bvalid[c] /\ blockno'[c] = blockno[c] /\ logged' = logged
      BY <1>3, <1>7, <1>8, <2>2, Zenon
    <3>2. bvalid[c] /\ (blockno[c] \in logged \/ \E q \in BioProc : InIo(q, c))
      BY Zenon, <3>1, CallFacts DEF FlagInv
    <3>3. ASSUME NEW q \in BioProc, InIo(q, c) PROVE InIo(q, c)'
      BY Zenon, <1>3, <1>4, <1>6, <3>1, <3>3 DEF InIo
    <3> QED
      BY Zenon, <3>1, <3>2, <3>3
  <2>3. ASSUME NEW q \in BioProc, NEW c \in held'[q], ~InIo(q, c)' PROVE bvalid'[c]
    <3>1. c \in held[q] /\ c \in Buf
      BY Zenon, <1>3, <2>3, CallFacts
    <3>2. CASE c = b
      BY Zenon, <1>8, <3>2
    <3>3. CASE c # b
      <4>1. ~InIo(q, c)
        BY Zenon, <1>3, <1>4, <1>6, <2>3, <3>3 DEF InIo
      <4>2. bvalid[c]
        BY Zenon, <3>1, <4>1, CallFacts DEF FlagInv
      <4> QED
        BY Zenon, <1>7, <3>1, <3>3, <4>2
    <3> QED
      BY Zenon, <3>2, <3>3
  <2>4. ASSUME NEW q \in BioProc, bpc'[q] = "woken" PROVE ~dirty'[want'[q]]
    <3>1. CASE q = p
      BY Zenon, <1>3, <1>4, <1>8, <3>1
    <3>2. CASE q # p
      <4>1. bpc[q] = "woken" /\ want'[q] = want[q] /\ ~dirty[want[q]] /\ want[q] \in Buf
        BY Zenon, <1>3, <1>6, <2>4, <3>2, CallFacts DEF FlagInv, LockInv
      <4>2. want[q] # b
        BY Zenon, <1>5, <3>2, <4>1
      <4> QED
        BY Zenon, <1>7, <4>1, <4>2
    <3> QED
      BY Zenon, <3>1, <3>2
  <2> QED
    BY Zenon, <2>1, <2>2, <2>3, <2>4 DEF FlagInv
<1>16. QueueInv'
  <2>1. ASSUME NEW i \in DOMAIN idequeue' PROVE Asleep(idequeue[i])'
    <3>1. i + 1 \in DOMAIN idequeue /\ idequeue'[i] = idequeue[i + 1] /\ i + 1 # 1
      BY <1>1, <1>3, <2>1
    <3>2. idequeue[i + 1] # b
      BY Zenon, <1>1, <1>2, <3>1, CallFacts DEF QueueInv
    <3>3. PICK q \in BioProc : bpc[q] = "sleep" /\ want[q] = idequeue[i + 1]
      BY Zenon, <3>1, CallFacts DEF QueueInv, Asleep
    <3>4. bpc'[q] = "sleep" /\ want'[q] = idequeue'[i]
      BY Zenon, <1>3, <1>4, <1>6, <3>1, <3>2, <3>3
    <3> QED
      BY Zenon, <3>4 DEF Asleep
  <2>2. \A i, j \in DOMAIN idequeue' : idequeue'[i] = idequeue'[j] => i = j
    <3>1. \A i, j \in DOMAIN idequeue : idequeue[i] = idequeue[j] => i = j
      BY Zenon, CallFacts DEF QueueInv
    <3>2. ASSUME NEW i \in 1 .. Len(idequeue) - 1, NEW j \in 1 .. Len(idequeue) - 1,
                 Tail(idequeue)[i] = Tail(idequeue)[j]
          PROVE  i = j
      <4>1. i + 1 = j + 1
        BY <1>1, <3>1, <3>2
      <4> QED
        BY <4>1
    <3> QED
      BY <1>1, <1>3, <3>2, Zenon
  <2>3. ASSUME NEW q \in BioProc, bpc'[q] = "sleep" PROVE \E i \in DOMAIN idequeue' : idequeue'[i] = want'[q]
    <3>1. q # p /\ bpc[q] = "sleep"
      BY Zenon, <1>6, <2>3
    <3>2. PICK i \in DOMAIN idequeue : idequeue[i] = want[q]
      BY Zenon, <3>1, CallFacts DEF QueueInv
    <3>3. i # 1
      BY Zenon, <1>2, <1>5, <3>1, <3>2
    <3>4. i - 1 \in DOMAIN idequeue' /\ idequeue'[i - 1] = idequeue[i]
      BY Zenon, <1>1, <1>3, <3>2, <3>3
    <3> QED
      BY Zenon, <1>3, <3>2, <3>4
  <2>4. idequeue' = <<>> <=> request'.cmd = "none"
    BY <1>3, <1>9 DEF Idle
  <2>5. ASSUME idequeue' # <<>>
        PROVE  /\ request'.blockno = blockno'[idequeue'[1]]
               /\ request'.cmd = "read" => ~dirty'[idequeue'[1]]
               /\ request'.cmd = "write" => dirty'[idequeue'[1]]
    BY <1>3, <1>7, <1>9, <2>5
  <2>6. driver' # "memide"
    BY Zenon, <1>0, <1>3, CallFacts DEF QueueInv
  <2> QED
    BY <2>1, <2>2, <2>3, <2>4, <2>5, <2>6 DEF QueueInv
<1> QED
  BY Zenon, <1>10, <1>12, <1>13, <1>14, <1>15, <1>16 DEF BioInv

(* The driver without a disk copies at once. *)
LEMMA IderwMemKeeps ==
  ASSUME BioInv, NEW p \in BioProc, IderwMem(p)
  PROVE  BioInv'
<1>0. bpc[p] = "iderw" /\ driver = "memide"
  BY Zenon DEF IderwMem
<1>1. PICK b \in held[p] : b = want[p]
  BY Zenon, <1>0, CallFacts DEF LockInv
<1>2. b \in Buf /\ InIo(p, b)
  BY Zenon, <1>0, <1>1, HolderFacts DEF InIo
<1>3. /\ dirty' = [dirty EXCEPT ![b] = FALSE] /\ bvalid' = [bvalid EXCEPT ![b] = TRUE]
      /\ bpc' = [bpc EXCEPT ![p] = "run"] /\ want' = [want EXCEPT ![p] = Nil]
      /\ UNCHANGED <<blockno, refcnt, mru, block, held, idequeue, request, driver, logged>>
  BY Zenon, <1>1 DEF IderwMem, Return, logVars
<1>4. ASSUME NEW q \in BioProc, q # p PROVE bpc'[q] = bpc[q] /\ want'[q] = want[q]
  BY Zenon, <1>3, <1>4, CallFacts
<1>5. bpc'[p] = "run"
  BY Zenon, <1>3, CallFacts
<1>6. ASSUME NEW c \in Buf, c # b PROVE bvalid'[c] = bvalid[c] /\ dirty'[c] = dirty[c]
  BY Zenon, <1>3, <1>6, CallFacts
<1>7. bvalid'[b] /\ ~dirty'[b]
  BY Zenon, <1>2, <1>3, CallFacts
<1>8. CacheType' /\ CallType'
  <2>1. CacheType'
    <3>1. bvalid' \in [Buf -> BOOLEAN] /\ dirty' \in [Buf -> BOOLEAN]
      BY Zenon, <1>3, CallFacts
    <3> QED
      BY Zenon, <1>3, <3>1, CallFacts DEF CacheType
  <2>4. want' \in [BioProc -> Buf \cup {Nil}]
    BY Zenon, <1>3, CallFacts
  <2>5. bpc' \in [BioProc -> {"run", "lock", "iderw", "sleep", "woken", "brelse", "panic"}]
    BY Zenon, <1>3, CallFacts
  <2> QED
    BY Zenon, <1>3, <2>1, <2>4, <2>5, CallFacts DEF CallType
<1>9. ASSUME NEW q \in BioProc, NEW c \in Buf PROVE Uses(q, c)' <=> Uses(q, c)
  BY <1>0, <1>3, <1>4, <1>5 DEF Uses
<1>10. LockInv'
  BY <1>3, <1>4, <1>5, CallFacts DEF LockInv
<1>11. UsedInv' /\ OneBufferPerBlock'
  BY Zenon, <1>3, <1>9, CallFacts DEF UsedInv, OneBufferPerBlock
<1>12. RefcntExact'
  BY <1>3, <1>9, CallFacts, CountKept, Zenon
<1>13. FlagInv'
  <2>1. ASSUME NEW c \in Buf, bvalid'[c] PROVE blockno'[c] \in AnyBlock
    <3>1. blockno[b] \in AnyBlock
      BY <1>1, <1>2, CallFacts DEF UsedInv, Uses
    <3> QED
      BY Zenon, <1>3, <1>6, <2>1, <3>1, CallFacts DEF FlagInv
  <2>2. ASSUME NEW c \in Buf, dirty'[c]
        PROVE  bvalid'[c] /\ (blockno'[c] \in logged' \/ \E q \in BioProc : InIo(q, c)')
    <3>1. c # b /\ dirty[c] /\ bvalid'[c] = bvalid[c] /\ blockno'[c] = blockno[c] /\ logged' = logged
      BY <1>3, <1>6, <1>7, <2>2, Zenon
    <3>2. bvalid[c] /\ (blockno[c] \in logged \/ \E q \in BioProc : InIo(q, c))
      BY Zenon, <3>1, CallFacts DEF FlagInv
    <3>3. ASSUME NEW q \in BioProc, InIo(q, c) PROVE InIo(q, c)'
      BY Zenon, <1>1, <1>4, <3>1, <3>3 DEF InIo
    <3> QED
      BY Zenon, <3>1, <3>2, <3>3
  <2>3. ASSUME NEW q \in BioProc, NEW c \in held'[q], ~InIo(q, c)' PROVE bvalid'[c]
    <3>1. c \in held[q] /\ c \in Buf
      BY Zenon, <1>3, <2>3, CallFacts
    <3>2. CASE c = b
      BY Zenon, <1>7, <3>2
    <3>3. CASE c # b
      <4>1. ~InIo(q, c)
        BY <1>1, <1>4, <2>3, <3>3 DEF InIo
      <4>2. bvalid[c]
        BY Zenon, <3>1, <4>1, CallFacts DEF FlagInv
      <4> QED
        BY Zenon, <1>6, <3>1, <3>3, <4>2
    <3> QED
      BY Zenon, <3>2, <3>3
  <2>4. ASSUME NEW q \in BioProc, bpc'[q] = "woken" PROVE ~dirty'[want'[q]]
    <3>1. q # p /\ bpc[q] = "woken" /\ want'[q] = want[q]
      BY <1>4, <1>5, <2>4
    <3>2. ~dirty[want[q]] /\ want[q] \in Buf /\ want[q] # b
      BY Zenon, <1>0, <1>1, <3>1, HolderFacts, CallFacts DEF FlagInv, LockInv
    <3> QED
      BY Zenon, <1>6, <3>1, <3>2
  <2> QED
    BY Zenon, <2>1, <2>2, <2>3, <2>4 DEF FlagInv
<1>14. QueueInv'
  <2>1. ASSUME NEW q \in BioProc, bpc[q] = "sleep" PROVE FALSE
    BY <1>0, <2>1, CallFacts DEF QueueInv
  <2> QED
    BY <1>3, <1>4, <1>5, <2>1, CallFacts, QueueKept, Zenon
<1> QED
  BY Zenon, <1>8, <1>10, <1>11, <1>12, <1>13, <1>14 DEF BioInv

(* Steps of a commit that change neither buffers nor calls, and stuttering. *)
LEMMA CommitterKeeps ==
  ASSUME BioInv,
         UNCHANGED <<blockno, bvalid, dirty, refcnt, mru, block, held, bpc, want, idequeue, request, driver, logged>>
  PROVE  BioInv'
<1>2. CacheType' /\ CallType'
  BY Zenon, CallFacts DEF CacheType, CallType
<1>3. ASSUME NEW q \in BioProc, NEW c \in Buf
      PROVE  (Uses(q, c)' <=> Uses(q, c)) /\ (InIo(q, c)' <=> InIo(q, c))
  BY Zenon DEF Uses, InIo
<1>4. LockInv' /\ UsedInv' /\ OneBufferPerBlock'
  BY <1>3, CallFacts DEF LockInv, UsedInv, OneBufferPerBlock
<1>5. RefcntExact'
  BY <1>3, CallFacts, CountKept, Zenon
<1>6. FlagInv'
  BY Zenon, <1>3, CallFacts, FlagKept
<1>7. QueueInv'
  BY Zenon, CallFacts, QueueKept
<1> QED
  BY Zenon, <1>2, <1>4, <1>5, <1>6, <1>7 DEF BioInv

(* A call of bget is for a block that the caller does not hold. *)
LEMMA BgetCallers ==
  ASSUME BioInv, NEW p \in BioProc, ReadBlock(p) \/ CommitRead(p)
  PROVE  \E k \in AnyBlock : Bget(p, k) /\ \A b \in held[p] : blockno[b] # k
<1>1. CASE ReadBlock(p)
  <2>1. PICK k \in Home : Bget(p, k) /\ \A b \in held[p] : <<blockno[b], k>> \in Nested
    BY Zenon, <1>1 DEF ReadBlock
  <2> QED
    BY <2>1, BioFacts, Zenon
<1>2. CASE CommitRead(p)
  <2>1. CASE held[p] = {} /\ Bget(p, LogBlock)
    BY Zenon, <2>1, BioFacts
  <2>2. ASSUME Cardinality(held[p]) = 1, Holds(p, LogBlock), NEW k \in logged, Bget(p, k)
        PROVE  k \in AnyBlock /\ \A b \in held[p] : blockno[b] # k
    <3>1. IsFiniteSet(Buf) /\ held[p] \subseteq Buf
      BY FS_Interval, CallFacts, BioFacts DEF Buf
    <3>2. PICK x : held[p] = {x}
      BY <2>2, <3>1, FS_Subset, FS_Singleton, Zenon
    <3>3. k \in Home /\ k # LogBlock
      BY Zenon, BioFacts, CallFacts DEF CallType
    <3> QED
      BY Zenon, <2>2, <3>2, <3>3, BioFacts DEF Holds
  <2> QED
    BY Zenon, <1>2, <2>1, <2>2 DEF CommitRead
<1> QED
  BY <1>1, <1>2

(* Every step of the cache keeps the invariant. *)
LEMMA CacheStep ==
  ASSUME BioInv, [BioNext]_bioVars
  PROVE  BioInv'
<1>1. ASSUME NEW p \in BioProc, NEW k \in AnyBlock, Bget(p, k), \A b \in held[p] : blockno[b] # k PROVE BioInv'
  <2>1. CASE BgetCached(p, k)
    BY Zenon, <1>1, <2>1, BgetCachedKeeps
  <2>2. CASE BgetRecycle(p, k)
    BY Zenon, <1>1, <2>2, BgetRecycleKeeps
  <2> QED
    BY <1>1, <2>1, <2>2 DEF Bget
<1>2. ASSUME NEW p \in BioProc, BioStep(p) PROVE BioInv'
  <2>1. CASE BgetLock(p)
    BY Zenon, <2>1, BgetLockKeeps
  <2>2. CASE Brelse(p)
    BY <2>2, BrelseKeeps
  <2>3. CASE Iderw(p)
    BY Zenon, <2>3, IderwKeeps
  <2>4. CASE IderwTest(p)
    BY Zenon, <2>4, IderwTestKeeps
  <2>5. CASE IderwMem(p)
    BY Zenon, <2>5, IderwMemKeeps
  <2>6. CASE Release(p)
    BY Zenon, <2>6, BrelseUnlockKeeps DEF Release
  <2>7. CASE CommitRead(p)
    BY <1>1, <2>7, BgetCallers
  <2>8. CASE CommitWrite(p)
    BY Zenon, <2>8, CommitWriteKeeps
  <2>9. CASE CommitEnd(p)
    BY Zenon, <2>9, CommitterKeeps DEF CommitEnd, bufVars, ideVars, callVars
  <2> QED
    BY <1>2, <2>1, <2>2, <2>3, <2>4, <2>5, <2>6, <2>7, <2>8, <2>9 DEF BioStep
<1>3. ASSUME NEW p \in BioProc, ReadBlock(p) PROVE BioInv'
  BY Zenon, <1>1, <1>3, BgetCallers
<1>4. ASSUME NEW p \in BioProc, BlockLogged(p) PROVE BioInv'
  BY Zenon, <1>4, BlockLoggedKeeps
<1>5. ASSUME NEW p \in BioProc, CommitBegin(p) PROVE BioInv'
  BY Zenon, <1>5, CommitterKeeps DEF CommitBegin, bufVars, ideVars, callVars
<1>6. CASE DiskWorks
  BY Zenon, <1>6, DiskWorksKeeps
<1>7. CASE IdeIntr
  BY Zenon, <1>7, IdeIntrKeeps
<1>8. CASE UNCHANGED bioVars
  BY Zenon, <1>8, CommitterKeeps DEF bioVars
<1> QED
  BY <1>2, <1>3, <1>4, <1>5, <1>6, <1>7, <1>8 DEF BioNext

(* The locks, references, flags and the queue of bio.c and ide.c agree in   *)
(* every state, even when reads of the disk fail.                           *)
THEOREM BioInvariance == BioSpec => []BioInv
BY CacheInit, CacheStep, PTL DEF BioSpec
-----------------------------------------------------------------------------
(* What the invariants say of the contents, and of the first of the queue. *)
LEMMA DataFacts ==
  ASSUME BioInv, DataInv
  PROVE  /\ bdata \in [Buf -> Value \cup {Junk}] /\ media \in [AnyBlock -> Value] /\ bstore \in [AnyBlock -> Value]
         /\ \A b \in Buf : bvalid[b] => blockno[b] \in AnyBlock /\ bdata[b] = bstore[blockno[b]]
         /\ \A k \in AnyBlock : media[k] # bstore[k] => \E b \in Buf : blockno[b] = k /\ dirty[b]
         /\ \A b, c \in Buf : blockno[b] = blockno[c] /\ blockno[b] \in AnyBlock => b = c
         /\ \A b \in Buf : dirty[b] => bvalid[b]
<1>1. \A b, c \in Buf : blockno[b] = blockno[c] /\ blockno[b] \in AnyBlock => b = c
  BY Zenon, CallFacts, BioFacts DEF OneBufferPerBlock
<1>2. \A b \in Buf : bvalid[b] => blockno[b] \in AnyBlock /\ bdata[b] = bstore[blockno[b]]
  BY Zenon, CallFacts DEF DataInv, CacheCoherent, FlagInv
<1>3. \A b \in Buf : dirty[b] => bvalid[b]
  BY Zenon, CallFacts DEF FlagInv
<1> QED
  BY Zenon, <1>1, <1>2, <1>3 DEF DataInv

LEMMA HeadFacts ==
  ASSUME BioInv, idequeue # <<>>
  PROVE  /\ 1 \in DOMAIN idequeue /\ idequeue[1] \in Buf /\ Head(idequeue) = idequeue[1]
         /\ blockno[idequeue[1]] \in AnyBlock /\ request.blockno = blockno[idequeue[1]]
         /\ request.cmd = "read" => ~dirty[idequeue[1]]
         /\ request.cmd = "write" => dirty[idequeue[1]]
         /\ \E p \in BioProc : bpc[p] = "sleep" /\ want[p] = idequeue[1] /\ idequeue[1] \in held[p]
<1>1. 1 \in DOMAIN idequeue /\ idequeue[1] \in Buf /\ Head(idequeue) = idequeue[1]
  BY CallFacts
<1>2. PICK p \in BioProc : bpc[p] = "sleep" /\ want[p] = idequeue[1]
  BY Zenon, <1>1, CallFacts DEF QueueInv, Asleep
<1>3. idequeue[1] \in held[p]
  BY Zenon, <1>2, CallFacts DEF LockInv
<1>4. blockno[idequeue[1]] \in AnyBlock
  BY Zenon, <1>1, <1>3, CallFacts DEF UsedInv, Uses
<1>5. /\ request.blockno = blockno[idequeue[1]]
      /\ request.cmd = "read" => ~dirty[idequeue[1]]
      /\ request.cmd = "write" => dirty[idequeue[1]]
  BY Zenon, CallFacts DEF QueueInv
<1> QED
  BY <1>1, <1>2, <1>3, <1>4, <1>5

(* A buffer of a process that is not asleep for it is not the first of the queue. *)
LEMMA NotHead ==
  ASSUME BioInv, idequeue # <<>>, NEW p \in BioProc, NEW b \in held[p], bpc[p] # "sleep"
  PROVE  idequeue[1] # b
BY HeadFacts, HolderFacts

(* The contents are kept by a step that changes none of what they are about. *)
LEMMA DataKept ==
  ASSUME DataInv, UNCHANGED <<bdata, media, bstore, blockno, bvalid, dirty, idequeue, request>>
  PROVE  DataInv'
BY Zenon DEF DataInv, CacheCoherent

(* A buffer that nobody uses and that is clean may stand for another block. *)
LEMMA RecycleData ==
  ASSUME BioInv, DataInv, NEW p \in BioProc, NEW k \in AnyBlock, Bget(p, k), BgetRecycle(p, k)
  PROVE  DataInv'
<1>1. CASE Recyclable = {}
  BY Zenon, <1>1, DataKept DEF Bget, BgetRecycle, bufVars, ideVars, logVars
<1>2. CASE Recyclable # {}
  <2>1. PICK b \in Recyclable : b = LeastRecent(Recyclable)
    BY <1>2, CallFacts, LeastRecentExists, Zenon DEF Recyclable
  <2>2. b \in Buf /\ refcnt[b] = 0 /\ ~dirty[b]
    BY Zenon, <2>1 DEF Recyclable
  <2>4. Retarget(p, k, b, 1, FALSE) /\ UNCHANGED <<ideVars, logVars>>
    BY <1>2, <2>1, Zenon DEF Bget, BgetRecycle
  <2>5. /\ blockno' = [blockno EXCEPT ![b] = k] /\ bvalid' = [bvalid EXCEPT ![b] = FALSE]
        /\ dirty' = [dirty EXCEPT ![b] = FALSE]
        /\ UNCHANGED <<bdata, media, bstore, idequeue, request>>
    BY Zenon, <2>4 DEF Retarget, ideVars, logVars
  <2>6. ASSUME NEW c \in Buf, c # b
        PROVE  blockno'[c] = blockno[c] /\ bvalid'[c] = bvalid[c] /\ dirty'[c] = dirty[c]
    BY Zenon, <2>5, <2>6, CallFacts
  <2>7. ~bvalid'[b] /\ ~dirty'[b]
    BY <2>2, <2>5, CallFacts
  <2>8. CacheCoherent'
    BY <2>5, <2>6, <2>7, DataFacts DEF CacheCoherent
  <2>9. ASSUME NEW j \in AnyBlock, media'[j] # bstore'[j] PROVE \E c \in Buf : blockno'[c] = j /\ dirty'[c]
    <3>1. PICK c \in Buf : blockno[c] = j /\ dirty[c]
      BY Zenon, <2>5, <2>9, DataFacts
    <3> QED
      BY Zenon, <2>2, <2>6, <3>1
  <2>10. ASSUME idequeue # <<>>
         PROVE  /\ idequeue[1] \in Buf /\ idequeue[1] # b
                /\ blockno'[idequeue[1]] = blockno[idequeue[1]] /\ dirty'[idequeue[1]] = dirty[idequeue[1]]
    <3>1. idequeue[1] \in Buf /\ \E q \in BioProc : idequeue[1] \in held[q]
      BY <2>10, HeadFacts
    <3>2. idequeue[1] # b
      BY Zenon, <2>2, <3>1, CallFacts, CountFacts DEF Uses
    <3> QED
      BY Zenon, <2>6, <3>1, <3>2
  <2>11. idequeue' # <<>> =>
           LET c == idequeue'[1]
           IN /\ request'.cmd = "write" => request'.bdata = bdata'[c]
              /\ request'.cmd = "done" => IF dirty'[c] THEN media'[blockno'[c]] = bdata'[c]
                                                       ELSE request'.bdata = media'[blockno'[c]]
    BY <2>5, <2>10 DEF DataInv
  <2> QED
    BY Zenon, <2>5, <2>8, <2>9, <2>11, DataFacts DEF DataInv
<1> QED
  BY Zenon, <1>1, <1>2

(* The commit marks a buffer that has the latest contents for writing. *)
LEMMA CommitWriteData ==
  ASSUME BioInv, DataInv, NEW p \in BioProc, CommitWrite(p)
  PROVE  DataInv'
<1>0. PICK b \in held[p] : Bwrite(p, b) /\ bstore' = bstore
  BY Zenon DEF CommitWrite
<1>1. b \in Buf /\ bpc[p] = "run"
  BY Zenon, <1>0, HolderFacts DEF Bwrite
<1>2. dirty' = [dirty EXCEPT ![b] = TRUE] /\ UNCHANGED <<bdata, media, bstore, blockno, bvalid, idequeue, request>>
  BY Zenon, <1>0 DEF Bwrite, ideVars
<1>3. dirty'[b] /\ \A c \in Buf : c # b => dirty'[c] = dirty[c]
  BY Zenon, <1>1, <1>2, CallFacts
<1>4. ASSUME NEW j \in AnyBlock, media'[j] # bstore'[j] PROVE \E c \in Buf : blockno'[c] = j /\ dirty'[c]
  <2>1. PICK c \in Buf : blockno[c] = j /\ dirty[c]
    BY <1>2, <1>4, DataFacts
  <2> QED
    BY Zenon, <1>2, <1>3, <2>1
<1>5. idequeue # <<>> => dirty'[idequeue[1]] = dirty[idequeue[1]]
  BY Zenon, <1>1, <1>3, HeadFacts, NotHead
<1>6. CacheCoherent'
  BY Zenon, <1>2, DataFacts DEF CacheCoherent
<1> QED
  BY <1>2, <1>4, <1>5, <1>6, Zenon DEF DataInv

(* log_write: the change is in the buffer, and it is dirty. *)
LEMMA BlockLoggedData ==
  ASSUME BioInv, DataInv, NEW p \in BioProc, BlockLogged(p)
  PROVE  DataInv'
<1>0. PICK b \in held[p] : /\ blockno[b] \in Written /\ dirty' = [dirty EXCEPT ![b] = TRUE]
                           /\ bdata' = [bdata EXCEPT ![b] = 1 - bdata[b]]
                           /\ bstore' = [bstore EXCEPT ![blockno[b]] = 1 - bstore[blockno[b]]]
  BY Zenon DEF BlockLogged
<1>1. b \in Buf /\ bpc[p] = "run" /\ blockno[b] \in AnyBlock
  BY Zenon, <1>0, HolderFacts, BioFacts DEF BlockLogged
<1>2. UNCHANGED <<media, blockno, bvalid, idequeue, request>>
  BY Zenon DEF BlockLogged, ideVars
<1>3. bvalid[b]
  BY <1>1, CallFacts, Zenon DEF FlagInv, InIo
<1>4. bdata[b] = bstore[blockno[b]] /\ bstore[blockno[b]] \in Value /\ 1 - bstore[blockno[b]] \in Value
  BY <1>1, <1>3, DataFacts DEF Value
<1>5. /\ bdata' \in [Buf -> Value \cup {Junk}] /\ bstore' \in [AnyBlock -> Value]
      /\ bdata'[b] = bstore'[blockno[b]] /\ dirty'[b]
      /\ \A c \in Buf : c # b => bdata'[c] = bdata[c] /\ dirty'[c] = dirty[c]
      /\ \A j \in AnyBlock : j # blockno[b] => bstore'[j] = bstore[j]
  <2>1. dirty'[b] /\ \A c \in Buf : c # b => dirty'[c] = dirty[c]
    BY Zenon, <1>0, <1>1, CallFacts
  <2>2. bdata' \in [Buf -> Value \cup {Junk}] /\ bdata'[b] = 1 - bdata[b] /\ \A c \in Buf : c # b => bdata'[c] = bdata[c]
    BY Zenon, <1>0, <1>1, <1>4, DataFacts
  <2>3. /\ bstore' \in [AnyBlock -> Value] /\ bstore'[blockno[b]] = 1 - bstore[blockno[b]]
        /\ \A j \in AnyBlock : j # blockno[b] => bstore'[j] = bstore[j]
    BY Zenon, <1>0, <1>1, <1>4, DataFacts
  <2> QED
    BY Zenon, <1>4, <2>1, <2>2, <2>3
<1>6. CacheCoherent'
  <2>1. ASSUME NEW c \in Buf, bvalid'[c] PROVE bdata'[c] = bstore'[blockno'[c]]
    <3>1. CASE c = b
      BY Zenon, <1>2, <1>5, <3>1
    <3>2. CASE c # b
      BY <1>1, <1>2, <1>5, <2>1, <3>2, DataFacts
    <3> QED
      BY Zenon, <3>1, <3>2
  <2> QED
    BY Zenon, <2>1 DEF CacheCoherent
<1>7. ASSUME NEW j \in AnyBlock, media'[j] # bstore'[j] PROVE \E c \in Buf : blockno'[c] = j /\ dirty'[c]
  <2>1. CASE j = blockno[b]
    BY Zenon, <1>1, <1>2, <1>5, <2>1
  <2>2. CASE j # blockno[b]
    <3>1. PICK c \in Buf : blockno[c] = j /\ dirty[c]
      BY Zenon, <1>2, <1>5, <1>7, <2>2, DataFacts
    <3> QED
      BY <1>2, <1>5, <3>1
  <2> QED
    BY Zenon, <2>1, <2>2
<1>8. idequeue # <<>> => dirty'[idequeue[1]] = dirty[idequeue[1]] /\ bdata'[idequeue[1]] = bdata[idequeue[1]]
  BY <1>1, <1>5, HeadFacts, NotHead
<1> QED
  BY Zenon, <1>2, <1>5, <1>6, <1>7, <1>8 DEF DataInv

(* iderw starts an idle disk with the contents of its buffer. *)
LEMMA IderwData ==
  ASSUME BioInv, DataInv, NEW p \in BioProc, Iderw(p)
  PROVE  DataInv'
<1>0. bpc[p] = "iderw"
  BY Zenon DEF Iderw
<1>1. PICK b \in held[p] : b = want[p]
  BY Zenon, <1>0, CallFacts DEF LockInv
<1>2. b \in Buf
  BY Zenon, HolderFacts
<1>3. /\ idequeue' = Append(idequeue, b)
      /\ IF Head(idequeue') = b THEN IdeStart(b) ELSE request' = request
      /\ UNCHANGED <<bdata, media, bstore, blockno, bvalid, dirty>>
  BY Zenon, <1>1 DEF Iderw, bufVars, logVars
<1>4. /\ idequeue = <<>> => Head(idequeue') = b /\ idequeue'[1] = b
      /\ idequeue # <<>> => Head(idequeue') = idequeue[1] /\ idequeue'[1] = idequeue[1]
  BY <1>2, <1>3, CallFacts
<1>5. idequeue # <<>> => idequeue[1] # b
  BY Zenon, <1>0, NotHead
<1>6. CacheCoherent'
  BY Zenon, <1>3, DataFacts DEF CacheCoherent
<1>7. CASE idequeue = <<>>
  <2>1. request'.cmd # "done" /\ (request'.cmd = "write" => request'.bdata = bdata[b])
    BY <1>3, <1>4, <1>7, CallFacts DEF IdeStart
  <2> QED
    BY Zenon, <1>3, <1>4, <1>6, <1>7, <2>1 DEF DataInv
<1>8. CASE idequeue # <<>>
  BY Zenon, <1>3, <1>4, <1>5, <1>6, <1>8 DEF DataInv
<1> QED
  BY Zenon, <1>7, <1>8

(* The disk reads or writes the block of the first buffer; what it writes   *)
(* are the latest contents.                                                 *)
LEMMA DiskWorksData ==
  ASSUME BioInv, DataInv, ~DiskErrors, DiskWorks
  PROVE  DataInv'
<1>0. /\ request.cmd \in {"read", "write"}
      /\ media' = IF request.cmd = "write" THEN [media EXCEPT ![request.blockno] = request.bdata] ELSE media
      /\ request'.cmd = "done" /\ request'.bdata = media'[request.blockno]
      /\ UNCHANGED <<bdata, bstore, blockno, bvalid, dirty, idequeue>>
  BY DEF DiskWorks, bufVars, logVars
<1>1. idequeue # <<>>
  BY Zenon, <1>0, CallFacts DEF QueueInv
<1>2. PICK b \in Buf : /\ b = idequeue[1] /\ blockno[b] \in AnyBlock /\ request.blockno = blockno[b]
                       /\ request.cmd = "read" => ~dirty[b]
                       /\ request.cmd = "write" => dirty[b]
  BY Zenon, <1>1, HeadFacts
<1>3. CacheCoherent'
  BY <1>0, DataFacts DEF CacheCoherent
<1>4. CASE request.cmd = "read"
  BY Zenon, <1>0, <1>2, <1>3, <1>4 DEF DataInv
<1>5. CASE request.cmd = "write"
  <2>1. request.bdata = bdata[b] /\ dirty[b] /\ bvalid[b] /\ bdata[b] = bstore[blockno[b]]
    BY Zenon, <1>1, <1>2, <1>5, DataFacts DEF DataInv
  <2>2. media' = [media EXCEPT ![blockno[b]] = bstore[blockno[b]]]
    BY <1>0, <1>2, <1>5, <2>1
  <2>3. /\ media' \in [AnyBlock -> Value] /\ media'[blockno[b]] = bstore[blockno[b]]
        /\ \A k \in AnyBlock : k # blockno[b] => media'[k] = media[k]
    BY Zenon, <1>2, <2>2, DataFacts
  <2>4. \A k \in AnyBlock : media'[k] # bstore[k] => \E c \in Buf : blockno[c] = k /\ dirty[c]
    BY <2>3, DataFacts
  <2>5. \A k \in AnyBlock : media'[k] # bstore'[k] => \E c \in Buf : blockno'[c] = k /\ dirty'[c]
    BY Zenon, <1>0, <2>4
  <2>6. /\ request'.cmd = "done" /\ dirty'[idequeue'[1]]
        /\ media'[blockno'[idequeue'[1]]] = bdata'[idequeue'[1]]
    BY Zenon, <1>0, <1>2, <2>1, <2>3
  <2>7. bdata' \in [Buf -> Value \cup {Junk}] /\ bstore' \in [AnyBlock -> Value]
    BY Zenon, <1>0, DataFacts
  <2> QED
    BY Zenon, <1>3, <2>3, <2>5, <2>6, <2>7 DEF DataInv
<1> QED
  BY Zenon, <1>0, <1>4, <1>5

(* ideintr: a block that was read had no dirty buffer, so the disk had its  *)
(* latest contents; one that was written has them on the disk now.          *)
LEMMA IdeIntrData ==
  ASSUME BioInv, DataInv, IdeIntr
  PROVE  DataInv'
<1>0. idequeue # <<>> /\ request.cmd = "done"
  BY Zenon DEF IdeIntr
<1>1. PICK b \in Buf : b = idequeue[1] /\ Head(idequeue) = b /\ blockno[b] \in AnyBlock
  BY Zenon, <1>0, HeadFacts
<1>2. /\ idequeue' = Tail(idequeue)
      /\ bdata' = IF ~dirty[b] /\ request.bdata # Junk THEN [bdata EXCEPT ![b] = request.bdata] ELSE bdata
      /\ bvalid' = [bvalid EXCEPT ![b] = TRUE] /\ dirty' = [dirty EXCEPT ![b] = FALSE]
      /\ idequeue' # <<>> => IdeStart(Head(idequeue'))
      /\ UNCHANGED <<blockno, media, bstore>>
  BY Zenon, <1>1 DEF IdeIntr, logVars
<1>3. media[blockno[b]] = bstore[blockno[b]] /\ media[blockno[b]] \in Value
      /\ IF dirty[b] THEN bdata[b] = bstore[blockno[b]] ELSE request.bdata = media[blockno[b]]
  <2>1. IF dirty[b] THEN media[blockno[b]] = bdata[b] ELSE request.bdata = media[blockno[b]]
    BY Zenon, <1>0, <1>1 DEF DataInv
  <2>2. media[blockno[b]] \in Value
    BY Zenon, <1>1, DataFacts
  <2>3. CASE dirty[b]
    BY Zenon, <1>1, <2>1, <2>2, <2>3, DataFacts
  <2>4. CASE ~dirty[b]
    BY <1>1, <2>1, <2>2, <2>4, DataFacts
  <2> QED
    BY Zenon, <2>3, <2>4
<1>4. /\ bdata' \in [Buf -> Value \cup {Junk}] /\ bdata'[b] = bstore[blockno[b]]
      /\ \A c \in Buf : c # b => bdata'[c] = bdata[c]
  <2>1. CASE dirty[b]
    BY Zenon, <1>2, <1>3, <2>1, DataFacts
  <2>2. CASE ~dirty[b]
    <3>1. bdata' = [bdata EXCEPT ![b] = bstore[blockno[b]]] /\ bstore[blockno[b]] \in Value
      BY <1>2, <1>3, <2>2, BioFacts, Zenon
    <3> QED
      BY <3>1, DataFacts
  <2> QED
    BY Zenon, <2>1, <2>2
<1>5. \A c \in Buf : c # b => bvalid'[c] = bvalid[c] /\ dirty'[c] = dirty[c]
  BY Zenon, <1>2, CallFacts
<1>6. CacheCoherent'
  BY Zenon, <1>2, <1>4, <1>5, DataFacts DEF CacheCoherent
<1>7. ASSUME NEW k \in AnyBlock, media'[k] # bstore'[k] PROVE \E c \in Buf : blockno'[c] = k /\ dirty'[c]
  <2>1. PICK c \in Buf : blockno[c] = k /\ dirty[c]
    BY <1>2, <1>7, DataFacts
  <2>2. c # b
    BY Zenon, <1>2, <1>3, <1>7, <2>1
  <2> QED
    BY Zenon, <1>2, <1>5, <2>1, <2>2
<1>8. ASSUME idequeue' # <<>>
      PROVE  request'.cmd # "done" /\ (request'.cmd = "write" => request'.bdata = bdata'[idequeue'[1]])
  <2>1. Head(idequeue') = idequeue'[1] /\ idequeue'[1] = idequeue[2] /\ 2 \in DOMAIN idequeue /\ 1 \in DOMAIN idequeue
        /\ idequeue[2] \in Buf
    <3>1. idequeue' = Tail(idequeue) /\ idequeue \in Seq(Buf) /\ idequeue # <<>>
      BY Zenon, <1>0, <1>2, CallFacts
    <3> QED
      BY <1>8, <3>1
  <2>2. idequeue[2] # b
    BY <1>1, <2>1, CallFacts DEF QueueInv
  <2>3. bdata'[idequeue[2]] = bdata[idequeue[2]]
    BY Zenon, <1>4, <2>1, <2>2
  <2>4. IdeStart(idequeue[2])
    BY <1>2, <1>8, <2>1
  <2> QED
    BY Zenon, <2>1, <2>3, <2>4 DEF IdeStart
<1> QED
  BY Zenon, <1>2, <1>4, <1>6, <1>7, <1>8, DataFacts DEF DataInv

(* The same for the driver that copies at once. *)
LEMMA IderwMemData ==
  ASSUME BioInv, DataInv, NEW p \in BioProc, IderwMem(p)
  PROVE  DataInv'
<1>0. bpc[p] = "iderw" /\ driver = "memide"
  BY Zenon DEF IderwMem
<1>1. PICK b \in held[p] : b = want[p]
  BY Zenon, <1>0, CallFacts DEF LockInv
<1>2. b \in Buf /\ blockno[b] \in AnyBlock
  <2>1. b \in Buf
    BY Zenon, HolderFacts
  <2> QED
    BY <2>1, CallFacts DEF UsedInv, Uses
<1>3. /\ media' = IF dirty[b] THEN [media EXCEPT ![blockno[b]] = bdata[b]] ELSE media
      /\ bdata' = IF dirty[b] THEN bdata ELSE [bdata EXCEPT ![b] = media[blockno[b]]]
      /\ dirty' = [dirty EXCEPT ![b] = FALSE] /\ bvalid' = [bvalid EXCEPT ![b] = TRUE]
      /\ UNCHANGED <<blockno, bstore, idequeue, request>>
  BY Zenon, <1>1 DEF IderwMem, logVars
<1>4. idequeue' = <<>>
  BY Zenon, <1>0, <1>3, CallFacts DEF QueueInv
<1>5. \A c \in Buf : c # b => bvalid'[c] = bvalid[c] /\ dirty'[c] = dirty[c]
  BY <1>3, CallFacts
<1>6. /\ bdata' \in [Buf -> Value \cup {Junk}] /\ media' \in [AnyBlock -> Value]
      /\ bdata'[b] = bstore[blockno[b]] /\ media'[blockno[b]] = bstore[blockno[b]]
      /\ \A c \in Buf : c # b => bdata'[c] = bdata[c]
      /\ \A k \in AnyBlock : k # blockno[b] => media'[k] = media[k]
  <2>1. CASE dirty[b]
    <3>1. bdata[b] = bstore[blockno[b]] /\ bstore[blockno[b]] \in Value
      BY Zenon, <1>2, <2>1, DataFacts
    <3>2. bdata' = bdata /\ media' = [media EXCEPT ![blockno[b]] = bstore[blockno[b]]]
      BY Zenon, <1>3, <2>1, <3>1
    <3> QED
      BY Zenon, <1>2, <3>1, <3>2, DataFacts
  <2>2. CASE ~dirty[b]
    <3>1. media[blockno[b]] = bstore[blockno[b]] /\ media[blockno[b]] \in Value
      BY <1>2, <2>2, DataFacts
    <3>2. media' = media /\ bdata' = [bdata EXCEPT ![b] = bstore[blockno[b]]]
      BY Zenon, <1>3, <2>2, <3>1
    <3> QED
      BY <1>2, <3>1, <3>2, DataFacts
  <2> QED
    BY Zenon, <2>1, <2>2
<1>7. CacheCoherent'
  BY <1>3, <1>5, <1>6, DataFacts DEF CacheCoherent
<1>8. ASSUME NEW k \in AnyBlock, media'[k] # bstore'[k] PROVE \E c \in Buf : blockno'[c] = k /\ dirty'[c]
  <2>1. k # blockno[b]
    BY Zenon, <1>3, <1>6, <1>8
  <2>2. PICK c \in Buf : blockno[c] = k /\ dirty[c]
    BY <1>3, <1>6, <1>8, <2>1, DataFacts
  <2> QED
    BY Zenon, <1>3, <1>5, <2>1, <2>2
<1> QED
  BY Zenon, <1>3, <1>4, <1>6, <1>7, <1>8, DataFacts DEF DataInv

(* Every step keeps the contents, when no read fails. *)
LEMMA DataStep ==
  ASSUME BioInv, DataInv, ~DiskErrors, [BioNext]_bioVars
  PROVE  DataInv'
<1>1. ASSUME NEW p \in BioProc, NEW k \in AnyBlock, Bget(p, k) PROVE DataInv'
  <2>1. CASE BgetCached(p, k)
    BY Zenon, <1>1, <2>1, DataKept DEF Bget, BgetCached, ideVars, logVars
  <2>2. CASE BgetRecycle(p, k)
    BY Zenon, <1>1, <2>2, RecycleData
  <2> QED
    BY Zenon, <1>1, <2>1, <2>2 DEF Bget
<1>2. ASSUME NEW p \in BioProc, BioStep(p) PROVE DataInv'
  <2>1. CASE BgetLock(p)
    BY Zenon, <2>1, DataKept DEF BgetLock, ideVars, logVars
  <2>2. CASE Brelse(p)
    BY Zenon, <2>2, DataKept DEF Brelse, ideVars, logVars
  <2>3. CASE Iderw(p)
    BY Zenon, <2>3, IderwData
  <2>4. CASE IderwTest(p)
    BY Zenon, <2>4, DataKept DEF IderwTest, bufVars, ideVars, logVars
  <2>5. CASE IderwMem(p)
    BY Zenon, <2>5, IderwMemData
  <2>6. CASE Release(p)
    BY Zenon, <2>6, DataKept DEF Release, BrelseUnlock, ideVars, logVars
  <2>7. CASE CommitRead(p)
    BY Zenon, <1>1, <2>7, BgetCallers
  <2>8. CASE CommitWrite(p)
    BY Zenon, <2>8, CommitWriteData
  <2>9. CASE CommitEnd(p)
    BY Zenon, <2>9, DataKept DEF CommitEnd, bufVars, ideVars
  <2> QED
    BY <1>2, <2>1, <2>2, <2>3, <2>4, <2>5, <2>6, <2>7, <2>8, <2>9 DEF BioStep
<1>3. ASSUME NEW p \in BioProc, ReadBlock(p) PROVE DataInv'
  BY <1>1, <1>3, BgetCallers
<1>4. ASSUME NEW p \in BioProc, BlockLogged(p) PROVE DataInv'
  BY Zenon, <1>4, BlockLoggedData
<1>5. ASSUME NEW p \in BioProc, CommitBegin(p) PROVE DataInv'
  BY Zenon, <1>5, DataKept DEF CommitBegin, bufVars, ideVars
<1>6. CASE DiskWorks
  BY Zenon, <1>6, DiskWorksData
<1>7. CASE IdeIntr
  BY Zenon, <1>7, IdeIntrData
<1>8. CASE UNCHANGED bioVars
  BY Zenon, <1>8, DataKept DEF bioVars
<1> QED
  BY Zenon, <1>2, <1>3, <1>4, <1>5, <1>6, <1>7, <1>8 DEF BioNext

LEMMA DataInit ==
  ASSUME BioInit PROVE DataInv
BY Zenon DEF BioInit, DataInv, CacheCoherent, Value

(* A disk without errors: what the cache holds is what was last stored, one *)
(* buffer per block, and nothing that log_write was given is evicted.       *)
THEOREM CacheIsSound == ASSUME ~DiskErrors PROVE BioSpec => []CacheSound
<1>1. BioInv /\ DataInv => CacheSound
  <2>1. ASSUME BioInv, DataInv PROVE OneBufferPerBlock /\ CacheCoherent
    BY Zenon, <2>1, CallFacts DEF DataInv
  <2>2. ASSUME BioInv, DataInv PROVE UnwrittenIsDirty
    BY Zenon, <2>2, DataFacts, BioFacts DEF UnwrittenIsDirty, Cached
  <2> QED
    BY Zenon, <2>1, <2>2 DEF CacheSound
<1>2. BioInit => BioInv /\ DataInv
  BY Zenon, CacheInit, DataInit
<1>3. BioInv /\ DataInv /\ [BioNext]_bioVars => BioInv' /\ DataInv'
  BY Zenon, CacheStep, DataStep
<1> QED
  BY <1>1, <1>2, <1>3, PTL DEF BioSpec
-----------------------------------------------------------------------------
(* The most buffers that the log and the processes can take: what commit    *)
(* has pinned, and two for each process.                                    *)
RoomForAll == NBUF >= MAXPIN + 2 * Cardinality(BioProc)

(* The pinned buffers that nobody uses are at most the blocks of the log. *)
LEMMA PinnedBuffers ==
  ASSUME BioInv, RoomInv
  PROVE  LET D == {b \in Buf : dirty[b] /\ refcnt[b] = 0} IN IsFiniteSet(D) /\ Cardinality(D) <= MAXPIN
<1> DEFINE D == {b \in Buf : dirty[b] /\ refcnt[b] = 0}
           f == [b \in D |-> blockno[b]]
<1>1. ASSUME NEW b \in D PROVE blockno[b] \in logged
  <2>1. b \in Buf /\ dirty[b] /\ \A q \in BioProc : b \notin held[q]
    BY Zenon, CallFacts, CountFacts DEF Uses
  <2>2. \A q \in BioProc : ~InIo(q, b)
    BY <2>1, CallFacts DEF LockInv, InIo
  <2> QED
    BY Zenon, <2>1, <2>2, CallFacts DEF FlagInv
<1>2. ASSUME NEW b \in D, NEW c \in D, blockno[b] = blockno[c] PROVE b = c
  <2>1. blockno[b] \in AnyBlock
    BY Zenon, <1>1, CallFacts, BioFacts DEF CallType
  <2> QED
    BY Zenon, <1>2, <2>1, CallFacts, BioFacts DEF OneBufferPerBlock
<1> HIDE DEF D
<1>3. f \in Injection(D, logged)
  BY Zenon, <1>1, <1>2 DEF Injection, IsInjective
<1>4. IsFiniteSet(logged) /\ Cardinality(logged) <= MAXPIN
  BY Zenon DEF RoomInv
<1>5. IsFiniteSet(D) /\ Cardinality(D) <= Cardinality(logged)
  BY <1>3, <1>4, FS_Injection, Zenon
<1>6. Cardinality(D) <= MAXPIN
  BY <1>4, <1>5, FS_CardinalityType, BioAssumption
<1> QED
  BY Zenon, <1>5, <1>6 DEF D

(* The buffers in use: one of p, which holds at most one, and two of each   *)
(* other process.                                                           *)
LEMMA UsedBuffers ==
  ASSUME BioInv, RoomInv, NEW p \in BioProc, bpc[p] = "run", NEW x \in Buf, held[p] \subseteq {x}
  PROVE  LET U == {b \in Buf : refcnt[b] # 0}
         IN IsFiniteSet(U) /\ Cardinality(U) <= 2 * Cardinality(BioProc) - 1
<1> DEFINE U == {b \in Buf : refcnt[b] # 0}
           Pair == {1, 2}
           T == (BioProc \X Pair) \ {<<p, 2>>}
           Covers(q, z) == \A b \in Buf : Uses(q, b) => b = z[1] \/ b = z[2]
           F == [q \in BioProc |-> IF q = p THEN <<x, x>> ELSE CHOOSE z \in Buf \X Buf : Covers(q, z)]
           g == [b \in U |-> CHOOSE t \in T : F[t[1]][t[2]] = b]
<1>1. ASSUME NEW q \in BioProc PROVE \E z \in Buf \X Buf : Covers(q, z)
  <2>1. CASE bpc[q] \in {"lock", "brelse"}
    <3>1. PICK y \in Buf : held[q] \subseteq {y}
      BY Zenon, <2>1 DEF RoomInv
    <3>2. want[q] \in Buf
      BY Zenon, <2>1, CallFacts DEF LockInv
    <3>3. Covers(q, <<y, want[q]>>) /\ <<y, want[q]>> \in Buf \X Buf
      BY Zenon, <3>1, <3>2 DEF Uses
    <3> QED
      BY Zenon, <3>3
  <2>2. CASE bpc[q] \notin {"lock", "brelse"}
    <3>1. PICK y, z \in Buf : held[q] \subseteq {y, z}
      BY Zenon DEF RoomInv
    <3>2. Covers(q, <<y, z>>) /\ <<y, z>> \in Buf \X Buf
      BY Zenon, <2>2, <3>1 DEF Uses
    <3> QED
      BY Zenon, <3>2
  <2> QED
    BY Zenon, <2>1, <2>2
<1>2. ASSUME NEW q \in BioProc PROVE Covers(q, F[q])
  <2>1. CASE q = p
    BY <2>1 DEF Uses
  <2>2. CASE q # p
    <3>1. F[q] = CHOOSE z \in Buf \X Buf : Covers(q, z)
      BY Zenon, <2>2
    <3> HIDE DEF Covers, F
    <3> QED
      BY <1>1, <3>1, Zenon
  <2> QED
    BY Zenon, <2>1, <2>2
<1>3. ASSUME NEW b \in U PROVE \E t \in T : F[t[1]][t[2]] = b
  <2>1. PICK q \in BioProc : Uses(q, b)
    BY Zenon, CallFacts, CountFacts
  <2>2. b \in Buf /\ (b = F[q][1] \/ b = F[q][2])
    BY Zenon, <1>2, <2>1
  <2>3. F[p][1] = x /\ F[p][2] = x
    OBVIOUS
  <2> HIDE DEF F
  <2>4. CASE b = F[q][1]
    <3>1. <<q, 1>> \in T
      OBVIOUS
    <3> QED
      BY Zenon, <2>4, <3>1
  <2>5. CASE b = F[q][2] /\ q # p
    <3>1. <<q, 2>> \in T
      BY Zenon, <2>5
    <3> QED
      BY Zenon, <2>5, <3>1
  <2>6. CASE b = F[q][2] /\ q = p
    <3>1. <<p, 1>> \in T
      OBVIOUS
    <3> QED
      BY Zenon, <2>3, <2>6, <3>1
  <2> QED
    BY Zenon, <2>2, <2>4, <2>5, <2>6
<1>4. g \in [U -> T] /\ \A b \in U : F[g[b][1]][g[b][2]] = b
  <2> HIDE DEF T, F, U
  <2> QED
    BY <1>3, Zenon
<1>5. g \in Injection(U, T)
  <2> HIDE DEF g, F, U, T
  <2> QED
    BY <1>4 DEF Injection, IsInjective
<1>6. IsFiniteSet(Pair) /\ Cardinality(Pair) = 2
  <2>1. Pair = {1} \cup {2} /\ 2 \notin {1}
    OBVIOUS
  <2>2. IsFiniteSet({1} \cup {2}) /\ Cardinality({1} \cup {2}) = Cardinality({1}) + 1 /\ Cardinality({1}) = 1
    BY <2>1, FS_Singleton, FS_AddElement, Zenon
  <2> QED
    BY <2>1, <2>2
<1>7. IsFiniteSet(T) /\ Cardinality(T) = Cardinality(BioProc) * 2 - 1
  <2>1. IsFiniteSet(BioProc \X Pair) /\ Cardinality(BioProc \X Pair) = Cardinality(BioProc) * Cardinality(Pair)
    <3> HIDE DEF Pair
    <3> QED
      BY <1>6, BioFacts, FS_Product, Zenon
  <2>2. <<p, 2>> \in BioProc \X Pair
    OBVIOUS
  <2>3. IsFiniteSet(T) /\ Cardinality(T) = Cardinality(BioProc \X Pair) - 1
    <3> HIDE DEF Pair
    <3> QED
      BY <2>1, <2>2, FS_RemoveElement, Zenon
  <2> HIDE DEF T, Pair
  <2> QED
    BY <1>6, <2>1, <2>3
<1>8. IsFiniteSet(U) /\ Cardinality(U) <= Cardinality(T)
  <2> HIDE DEF g, F, U, T
  <2> QED
    BY <1>5, <1>7, FS_Injection, Zenon
<1>9. Cardinality(BioProc) \in Nat
  BY BioFacts, FS_CardinalityType, Zenon
<1> HIDE DEF T, U
<1>10. Cardinality(U) <= 2 * Cardinality(BioProc) - 1
  BY <1>7, <1>8, <1>9
<1> QED
  BY Zenon, <1>8, <1>10 DEF U

(* So bget, called by a process that holds at most one buffer, finds one. *)
LEMMA BgetFinds ==
  ASSUME BioInv, RoomInv, RoomForAll, NEW p \in BioProc, bpc[p] = "run", NEW x \in Buf, held[p] \subseteq {x}
  PROVE  Recyclable # {}
<1> DEFINE D == {b \in Buf : dirty[b] /\ refcnt[b] = 0}
           U == {b \in Buf : refcnt[b] # 0}
<1> SUFFICES ASSUME Recyclable = {} PROVE FALSE
  OBVIOUS
<1>1. Buf = D \cup U /\ D \cap U = {}
  BY Zenon DEF Recyclable
<1>2. IsFiniteSet(D) /\ Cardinality(D) <= MAXPIN
  BY PinnedBuffers, Zenon
<1>3. IsFiniteSet(U) /\ Cardinality(U) <= 2 * Cardinality(BioProc) - 1
  BY UsedBuffers, Zenon
<1> HIDE DEF D, U
<1>4. Cardinality(Buf) = NBUF
  BY FS_Interval, BioFacts DEF Buf
<1>5. Cardinality(D \cup U) = Cardinality(D) + Cardinality(U) - Cardinality(D \cap U) /\ Cardinality(D \cap U) = 0
  BY Zenon, <1>1, <1>2, <1>3, FS_Union, FS_EmptySet
<1>6. Cardinality(D) \in Nat /\ Cardinality(U) \in Nat /\ Cardinality(BioProc) \in Nat
  BY <1>2, <1>3, BioFacts, FS_CardinalityType, Zenon
<1> QED
  BY <1>1, <1>2, <1>3, <1>4, <1>5, <1>6, BioAssumption DEF RoomForAll

(* A process that holds two buffers gets no third, and the log keeps at     *)
(* most MAXPIN blocks, so there is always a buffer for bget.                *)
LEMMA RoomStep ==
  ASSUME BioInv, RoomInv, RoomForAll, [BioNext]_bioVars
  PROVE  RoomInv'
<1>0. /\ IsFiniteSet(logged) /\ Cardinality(logged) <= MAXPIN
      /\ \A q \in BioProc : \E x, y \in Buf : held[q] \subseteq {x, y}
      /\ \A q \in BioProc : bpc[q] \in {"lock", "brelse"} => \E x \in Buf : held[q] \subseteq {x}
      /\ \A q \in BioProc : bpc[q] # "panic"
  BY Zenon DEF RoomInv, NeverOutOfBuffers
<1>1. ASSUME UNCHANGED logged, NEW p \in BioProc,
             \A q \in BioProc : q # p => bpc'[q] = bpc[q] /\ held'[q] = held[q],
             \E x, y \in Buf : held'[p] \subseteq {x, y},
             bpc'[p] \in {"lock", "brelse"} => \E x \in Buf : held'[p] \subseteq {x},
             bpc'[p] # "panic"
      PROVE  RoomInv'
  <2>1. \A q \in BioProc : \E x, y \in Buf : held'[q] \subseteq {x, y}
    BY <1>0, <1>1, Zenon
  <2>2. \A q \in BioProc : bpc'[q] \in {"lock", "brelse"} => \E x \in Buf : held'[q] \subseteq {x}
    BY <1>0, <1>1, Zenon
  <2>3. \A q \in BioProc : bpc'[q] # "panic"
    BY <1>0, <1>1, Zenon
  <2> QED
    BY <1>0, <1>1, <2>1, <2>2, <2>3 DEF RoomInv, NeverOutOfBuffers
<1>2. ASSUME IsFiniteSet(logged'), Cardinality(logged') <= MAXPIN, UNCHANGED held,
             \A q \in BioProc : bpc'[q] \in {"lock", "brelse"} => bpc[q] \in {"lock", "brelse"},
             \A q \in BioProc : bpc'[q] # "panic"
      PROVE  RoomInv'
  BY <1>0, <1>2, Zenon DEF RoomInv, NeverOutOfBuffers
<1>3. ASSUME NEW p \in BioProc, ReadBlock(p) \/ CommitRead(p) PROVE RoomInv'
  <2>1. \E x \in Buf : held[p] \subseteq {x}
    <3>1. IsFiniteSet(Buf) /\ held[p] \subseteq Buf /\ 1 \in Buf
      BY FS_Interval, CallFacts, BioFacts DEF Buf
    <3>2. held[p] = {} \/ Cardinality(held[p]) = 1
      BY Zenon, <1>3 DEF ReadBlock, CommitRead
    <3>3. held[p] = {} \/ \E x : held[p] = {x}
      BY <3>1, <3>2, FS_Subset, FS_Singleton, Zenon
    <3> QED
      BY Zenon, <3>1, <3>3
  <2>2. PICK x \in Buf : held[p] \subseteq {x}
    BY Zenon, <2>1
  <2>3. PICK k \in AnyBlock : Bget(p, k)
    BY Zenon, <1>3, BgetCallers
  <2>4. Recyclable # {}
    BY Zenon, <2>2, <2>3, BgetFinds DEF Bget
  <2>5. bpc' = [bpc EXCEPT ![p] = "lock"] /\ held' = held /\ logged' = logged
    BY Zenon, <2>3, <2>4 DEF Bget, BgetCached, BgetRecycle, Retarget, logVars
  <2>6. bpc'[p] = "lock" /\ \A q \in BioProc : q # p => bpc'[q] = bpc[q]
    BY Zenon, <2>5, CallFacts
  <2> QED
    BY <1>1, <2>2, <2>5, <2>6
<1>4. ASSUME NEW p \in BioProc, BgetLock(p) PROVE RoomInv'
  <2>1. bpc[p] = "lock" /\ want[p] \in Buf
    BY Zenon, <1>4, CallFacts DEF BgetLock, LockInv
  <2>2. /\ held' = [held EXCEPT ![p] = held[p] \cup {want[p]}] /\ logged' = logged
        /\ bpc' = [bpc EXCEPT ![p] = "run"] \/ bpc' = [bpc EXCEPT ![p] = "iderw"]
    BY Zenon, <1>4 DEF BgetLock, Return, logVars
  <2>3. PICK x \in Buf : held[p] \subseteq {x}
    BY Zenon, <1>0, <2>1
  <2>4. held'[p] \subseteq {x, want[p]} /\ bpc'[p] \in {"run", "iderw"}
        /\ \A q \in BioProc : q # p => bpc'[q] = bpc[q] /\ held'[q] = held[q]
    BY Zenon, <2>2, <2>3, CallFacts
  <2>5. bpc'[p] \notin {"lock", "brelse"} /\ bpc'[p] # "panic"
    BY Zenon, <2>4
  <2>6. \E y, z \in Buf : held'[p] \subseteq {y, z}
    BY Zenon, <2>1, <2>4
  <2> QED
    BY Zenon, <1>1, <2>2, <2>4, <2>5, <2>6
<1>5. ASSUME NEW p \in BioProc, Release(p) PROVE RoomInv'
  <2>1. PICK b \in held[p] : BrelseUnlock(p, b) /\ UNCHANGED logVars
    BY Zenon, <1>5 DEF Release
  <2>2. held' = [held EXCEPT ![p] = held[p] \ {b}] /\ bpc' = [bpc EXCEPT ![p] = "brelse"] /\ logged' = logged
    BY Zenon, <2>1 DEF BrelseUnlock, logVars
  <2>3. PICK x, y \in Buf : held[p] \subseteq {x, y}
    BY Zenon, <1>0
  <2>4. held'[p] = held[p] \ {b} /\ bpc'[p] = "brelse"
        /\ \A q \in BioProc : q # p => bpc'[q] = bpc[q] /\ held'[q] = held[q]
    BY Zenon, <2>2, CallFacts
  <2>5. \E z \in Buf : held'[p] \subseteq {z}
    BY Zenon, <2>3, <2>4
  <2>6. \E z, w \in Buf : held'[p] \subseteq {z, w}
    BY <2>5
  <2> QED
    BY Zenon, <1>1, <2>2, <2>4, <2>5, <2>6
<1>6. ASSUME NEW p \in BioProc, Brelse(p) \/ Iderw(p) \/ IderwTest(p) \/ IderwMem(p) PROVE RoomInv'
  <2>1. held' = held /\ logged' = logged /\ \E s \in {"run", "sleep"} : bpc' = [bpc EXCEPT ![p] = s]
    BY Zenon, <1>6 DEF Brelse, Iderw, IderwTest, IderwMem, Return, logVars
  <2>2. bpc'[p] \in {"run", "sleep"} /\ \A q \in BioProc : q # p => bpc'[q] = bpc[q]
    BY Zenon, <2>1, CallFacts
  <2> QED
    BY Zenon, <1>0, <1>2, <2>1, <2>2
<1>7. ASSUME NEW p \in BioProc, CommitWrite(p) PROVE RoomInv'
  <2>1. PICK k \in logged : logged' = logged \ {k}
    BY Zenon, <1>7 DEF CommitWrite
  <2>2. held' = held /\ bpc' = [bpc EXCEPT ![p] = "iderw"]
    BY Zenon, <1>7 DEF CommitWrite, Bwrite
  <2>3. bpc'[p] = "iderw" /\ \A q \in BioProc : q # p => bpc'[q] = bpc[q]
    BY Zenon, <2>2, CallFacts
  <2>4. IsFiniteSet(logged') /\ Cardinality(logged') <= Cardinality(logged)
    BY Zenon, <1>0, <2>1, FS_Subset
  <2>5. Cardinality(logged') <= MAXPIN
    BY <1>0, <2>4, FS_CardinalityType, BioAssumption
  <2> QED
    BY Zenon, <1>0, <1>2, <2>2, <2>3, <2>4, <2>5
<1>8. ASSUME NEW p \in BioProc, BlockLogged(p) PROVE RoomInv'
  <2>1. PICK k : logged' = logged \cup {k} /\ Cardinality(logged \cup {k}) <= MAXPIN
    BY <1>8, Zenon DEF BlockLogged
  <2>2. IsFiniteSet(logged')
    BY Zenon, <1>0, <2>1, FS_AddElement
  <2>3. held' = held /\ bpc' = bpc
    BY Zenon, <1>8 DEF BlockLogged, callVars
  <2> QED
    BY Zenon, <1>0, <1>2, <2>1, <2>2, <2>3
<1>9. ASSUME NEW p \in BioProc, CommitBegin(p) \/ CommitEnd(p) PROVE RoomInv'
  <2>1. held' = held /\ bpc' = bpc /\ logged' = logged
    BY Zenon, <1>9 DEF CommitBegin, CommitEnd, callVars
  <2> QED
    BY <1>0, <1>2, <2>1
<1>10. CASE DiskWorks \/ UNCHANGED bioVars
  <2>1. held' = held /\ bpc' = bpc /\ logged' = logged
    BY <1>10, Zenon DEF DiskWorks, callVars, logVars, bioVars
  <2> QED
    BY Zenon, <1>0, <1>2, <2>1
<1>11. CASE IdeIntr
  <2>1. /\ held' = held /\ logged' = logged
        /\ \A q \in BioProc : bpc'[q] = "woken" \/ bpc'[q] = bpc[q]
    BY Zenon, <1>11 DEF IdeIntr, logVars
  <2> QED
    BY Zenon, <1>0, <1>2, <2>1
<1> QED
  BY Zenon, <1>3, <1>4, <1>5, <1>6, <1>7, <1>8, <1>9, <1>10, <1>11 DEF BioNext, BioStep

LEMMA RoomInit ==
  ASSUME BioInit PROVE RoomInv
<1>1. held = [p \in BioProc |-> {}] /\ bpc = [p \in BioProc |-> "run"] /\ logged = {}
  BY Zenon DEF BioInit
<1>2. IsFiniteSet({}) /\ Cardinality({}) = 0 /\ 0 <= MAXPIN
  BY FS_EmptySet, BioAssumption
<1> QED
  BY Zenon, <1>1, <1>2, BioFacts DEF RoomInv, NeverOutOfBuffers

(* What the invariants say, in the terms of Bio: the types, and the queue. *)
LEMMA TypesHold ==
  ASSUME BioInv, DataInv PROVE BioTypeOK
<1>1. refcnt \in [Buf -> 0 .. Cardinality(BioProc)]
  <2>1. ASSUME NEW b \in Buf PROVE refcnt[b] \in 0 .. Cardinality(BioProc)
    <3>1. refcnt[b] = Cardinality(Users(b)) /\ refcnt[b] \in Nat
      BY CallFacts, CountFacts, Zenon
    <3>2. Cardinality(Users(b)) <= Cardinality(BioProc) /\ Cardinality(BioProc) \in Nat
      BY BioFacts, FS_Subset, FS_CardinalityType, Zenon DEF Users
    <3> QED
      BY <3>1, <3>2
  <2> QED
    BY Zenon, <2>1, CallFacts
<1>2. Range(mru) = Buf /\ Len(mru) = Cardinality(Buf)
  <2>1. mru \in [Buf -> Buf] /\ \A b \in Buf : \E i \in Buf : mru[i] = b
    BY Zenon, CallFacts DEF CacheType
  <2>2. Range(mru) = Buf
    BY Zenon, <2>1 DEF Range
  <2>3. Cardinality(Buf) = NBUF
    BY FS_Interval, BioFacts DEF Buf
  <2>4. Len(mru) = NBUF
    BY <2>1, BioFacts DEF Buf
  <2> QED
    BY Zenon, <2>2, <2>3, <2>4
<1> QED
  BY Zenon, <1>1, <1>2, CallFacts, DataFacts DEF BioTypeOK, CallType

LEMMA HeadServed ==
  ASSUME BioInv PROVE DiskServesHead
<1>1. idequeue # <<>> => request.blockno = blockno[Head(idequeue)]
  BY Zenon, HeadFacts
<1>2. \A p \in BioProc : bpc[p] = "sleep" => want[p] \in Range(idequeue)
  BY Zenon, CallFacts DEF QueueInv, Range
<1>3. idequeue = <<>> <=> request.cmd = "none"
  BY Zenon, CallFacts DEF QueueInv
<1> QED
  BY Zenon, <1>1, <1>2, <1>3 DEF DiskServesHead

(* A cache with room for what the log pins and for two buffers of each      *)
(* process: refcnt is exact, "bget: no buffers" is not reached, and the     *)
(* disk works for the first of those who sleep in iderw.                    *)
THEOREM BuffersAreSound == ASSUME ~DiskErrors, RoomForAll PROVE BioSpec => []BuffersSound
<1>1. BioInv /\ DataInv /\ RoomInv => BuffersSound
  BY Zenon, TypesHold, HeadServed, CallFacts DEF BuffersSound, RoomInv
<1>2. BioInit => BioInv /\ DataInv /\ RoomInv
  BY Zenon, CacheInit, DataInit, RoomInit
<1>3. BioInv /\ DataInv /\ RoomInv /\ [BioNext]_bioVars => BioInv' /\ DataInv' /\ RoomInv'
  BY Zenon, CacheStep, DataStep, RoomStep
<1> QED
  BY <1>1, <1>2, <1>3, PTL DEF BioSpec
=============================================================================
