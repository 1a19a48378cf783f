------------------------- MODULE KlogSnapshotProofs -------------------------
(***************************************************************************)
(* klog_snapshot keeps the part of KlogInv that is about its reader, so    *)
(* KlogInv is an invariant.  From it follow SnapshotSound and              *)
(* SortInBounds.                                                           *)
(***************************************************************************)
EXTENDS KlogProofs, FiniteSetTheorems

(* The provers a leaf without a pragma is given to. *)
USE SMTT(20), ZenonT(20), Z3T(60)

(* The part about a reader is kept by the writers and the other readers,   *)
(* and by the first pass of klog_snapshot.                                 *)
ReaderInv(r) == SeenInv(r) /\ CollectInv(r) /\ BufInv(r) /\ SortInv(r)

LEMMA ReaderFacts ==
  ASSUME TypeOK, NEW r \in Readers
  PROVE  /\ cpu_id[r] \in CPU /\ total[r] \in Nat /\ skip_count[r] \in Nat /\ min_seq[r] \in Nat
         /\ ii[r] \in Nat /\ jj[r] \in Nat /\ buf[r] \in Seq(Entry) /\ seen[r] \subseteq Nat
         /\ buf[r] \in [1 .. Len(buf[r]) -> Entry] /\ Len(buf[r]) \in Nat
         /\ \A j \in 1 .. Len(buf[r]) : buf[r][j].seq \in Nat /\ buf[r][j].cpu \in CPU
<1> USE KlogAssumption
<1>1. buf[r] \in Seq(Entry)
  BY Zenon DEF TypeOK, ReaderType
<1>2. \A e \in Entry : e.seq \in Nat /\ e.cpu \in CPU
  BY DEF Entry, UInt
<1>3. UInt \subseteq Nat
  BY DEF UInt
<1>4. Len(buf[r]) \in Nat /\ buf[r] \in [1 .. Len(buf[r]) -> Entry]
  BY <1>1
<1>5. seen[r] \in SUBSET UInt /\ min_seq[r] \in UInt
  BY Zenon DEF TypeOK, ReaderType
<1>6. \A j \in 1 .. Len(buf[r]) : buf[r][j].seq \in Nat /\ buf[r][j].cpu \in CPU
  BY Zenon, <1>2, <1>4
<1> QED
  BY Zenon, <1>1, <1>3, <1>4, <1>5, <1>6 DEF TypeOK, ReaderType

(* A step of another process or CPU: the locals of r do not change, the    *)
(* history grows, no ring gets an older newest entry, and the ring that r  *)
(* has locked stays as it is.                                              *)
SameLocals(r) ==
  /\ rpc'[r] = rpc[r] /\ max_entries'[r] = max_entries[r] /\ cpu_id'[r] = cpu_id[r]
  /\ total'[r] = total[r] /\ min_seq'[r] = min_seq[r] /\ skip_count'[r] = skip_count[r]
  /\ ii'[r] = ii[r] /\ jj'[r] = jj[r] /\ buf'[r] = buf[r] /\ seen'[r] = seen[r]

Grows ==
  /\ Len(logged) <= Len(logged')
  /\ \A x \in Nat : x < Len(logged) => logged'[x + 1] = logged[x + 1]
  /\ \A c \in CPU, x \in Nat : x < Len(logged) /\ Covers(c, x) => Covers(c, x)'

LEMMA GrowsSame ==
  ASSUME TypeOK, UNCHANGED <<entries, head, writer, logged>>
  PROVE  Grows
<1>1. Len(logged) \in Nat
  BY Zenon, TypeFacts
<1>2. Len(logged) <= Len(logged')
  BY <1>1
<1> QED
  BY Zenon, <1>2 DEF Grows, Covers, Newest, Storing, writer

LEMMA ReaderKept ==
  ASSUME TypeOK, TypeOK', BootInv, NEW r \in Readers, ReaderInv(r), SameLocals(r), Grows,
         rpc[r] = "copy" => head'[cpu_id[r]] = head[cpu_id[r]] /\ entries'[cpu_id[r]] = entries[cpu_id[r]]
  PROVE  ReaderInv(r)'
<1> USE DEF SameLocals
<1>1. Len(logged) \in Nat /\ Len(logged') \in Nat /\ logged'[1] = logged[1]
  <2>1. Len(logged) \in Nat /\ Len(logged) >= 1 /\ logged' \in Seq(Entry)
    BY Zenon, TypeFacts DEF BootInv, TypeOK, SharedType
  <2>2. \A x \in Nat : x < Len(logged) => logged'[x + 1] = logged[x + 1]
    BY Zenon DEF Grows
  <2>3. 0 < Len(logged) /\ 0 + 1 = 1 /\ Len(logged') \in Nat
    BY <2>1
  <2> QED
    BY <2>1, <2>2, <2>3
<1>2. SeenInv(r)'
  <2>1. ASSUME NEW x \in seen[r], x < Len(logged), Covers(logged[x + 1].cpu, x)
        PROVE  /\ x < Len(logged') /\ logged'[x + 1] = logged[x + 1]
               /\ Covers(logged[x + 1].cpu, x)'
    <3> DEFINE c == logged[x + 1].cpu
    <3>1. x \in Nat /\ x + 1 \in 1 .. Len(logged)
      <4>1. x \in Nat
        BY Zenon, ReaderFacts
      <4> QED
        BY <1>1, <2>1, <4>1
    <3>2. x < Len(logged') /\ logged'[x + 1] = logged[x + 1]
      BY <1>1, <2>1, <3>1 DEF Grows
    <3>3. c \in CPU
      BY Zenon, <3>1, TypeFacts
    <3>4. \A d \in CPU : Covers(d, x) => Covers(d, x)'
      BY Zenon, <2>1, <3>1 DEF Grows
    <3>5. Covers(c, x)'
      BY Zenon, <2>1, <3>2, <3>3, <3>4
    <3> QED
      BY Zenon, <3>2, <3>5
  <2>2. ASSUME rpc[r] \in {"count", "lock", "copy", "sort"}, NEW x \in seen[r]
        PROVE  /\ x < Len(logged') /\ min_seq[r] <= x
               /\ rpc[r] = "count" => logged'[x + 1].cpu < cpu_id[r]
               /\ Covers(logged[x + 1].cpu, x)'
    BY Zenon, <2>1, <2>2 DEF ReaderInv, SeenInv
  <2> QED
    BY Zenon, <1>1, <2>2 DEF ReaderInv, SeenInv, Collecting
<1>3. CollectInv(r)'
  <2>1. Wanted(r)' = Wanted(r)
    BY Zenon DEF Wanted
  <2>2. Collecting(r) => \A x \in Wanted(r) : logged'[x + 1] = logged[x + 1]
    BY Zenon, ReaderFacts DEF Wanted, ReaderInv, SeenInv, Collecting, Grows
  <2> QED
    BY Zenon, <2>1, <2>2, ReaderFacts DEF ReaderInv, CollectInv, Collecting
<1>4. BufInv(r)'
  <2>1. ASSUME NEW j \in 1 .. Len(buf[r]), buf[r][j].seq < Len(logged)
        PROVE  buf[r][j].seq < Len(logged') /\ logged'[buf[r][j].seq + 1] = logged[buf[r][j].seq + 1]
    <3>1. /\ buf[r][j].seq \in Nat /\ Len(logged) <= Len(logged')
          /\ logged'[buf[r][j].seq + 1] = logged[buf[r][j].seq + 1]
      BY Zenon, <2>1, ReaderFacts DEF Grows
    <3> QED
      BY <1>1, <2>1, <3>1
  <2>2. CASE ~(Collecting(r) \/ rpc[r] = "done")
    BY Zenon, <2>2 DEF BufInv, Collecting
  <2>3. CASE Collecting(r) \/ rpc[r] = "done"
    <3>1. /\ Len(buf[r]) <= max_entries[r]
          /\ \A j \in 1 .. Len(buf[r]) : /\ buf[r][j].seq < Len(logged)
                                         /\ logged[buf[r][j].seq + 1] = buf[r][j]
          /\ \A j, k \in 1 .. Len(buf[r]) : buf[r][j].seq = buf[r][k].seq => j = k
      BY Zenon, <2>3 DEF ReaderInv, BufInv
    <3>2. \A j \in 1 .. Len(buf[r]) : /\ buf[r][j].seq < Len(logged')
                                     /\ logged'[buf[r][j].seq + 1] = buf[r][j]
      BY Zenon, <2>1, <3>1
    <3>3. buf'[r] = buf[r] /\ max_entries'[r] = max_entries[r]
      BY Zenon
    <3> QED
      BY Zenon, <3>1, <3>2, <3>3 DEF BufInv
  <2> QED
    BY Zenon, <2>2, <2>3
<1>5. SortInv(r)'
  BY Zenon DEF ReaderInv, SortInv
<1> QED
  BY Zenon, <1>2, <1>3, <1>4, <1>5 DEF ReaderInv

(* The writers' steps are of that kind.                                    *)
LEMMA GrowsOutside ==
  ASSUME TypeOK, RingsInv, NEW c0 \in CPU,
         (\E m \in Msgs : KlogPrintf(c0, m)) \/ AcquireLog(c0) \/ NextSeqRead(c0)
  PROVE  Grows
<1>1. UNCHANGED <<entries, head, logged>>
  BY Zenon DEF KlogPrintf, AcquireLog, NextSeqRead, ring, seqs
<1>2. \A c \in CPU : Storing(c)' => Storing(c) /\ wseq'[c] = wseq[c]
  BY Zenon DEF KlogPrintf, AcquireLog, NextSeqRead, Storing, TypeOK, WriterType
<1> QED
  <2>1. Len(logged) <= Len(logged')
    <3>1. Len(logged) \in Nat
      BY Zenon, TypeFacts
    <3> QED
      BY <1>1, <3>1
  <2>2. ASSUME NEW c \in CPU, NEW x \in Nat, Covers(c, x) PROVE Covers(c, x)'
    BY Zenon, <1>1, <1>2, <2>2 DEF Covers, Newest
  <2> QED
    BY Zenon, <1>1, <2>1, <2>2 DEF Grows

LEMMA GrowsNextSeqWrite ==
  ASSUME TypeOK, RingsInv, NEW c0 \in CPU, NextSeqWrite(c0)
  PROVE  Grows
<1> DEFINE n == Len(logged)
           idx == head[c0] % KLOG_BUF_SIZE
<1>1. n \in Nat /\ idx \in Slot /\ wseq[c0] = n
  BY Zenon, TypeFacts DEF NextSeqWrite, RingsInv, SeqInv
<1>2. Len(logged') = n + 1 /\ \A x \in Nat : x < n => logged'[x + 1] = logged[x + 1]
  <2>1. logged \in Seq(Entry) /\ \E e : logged' = Append(logged, e)
    BY Zenon DEF NextSeqWrite, TypeOK, SharedType
  <2> QED
    BY <2>1
<1>3. UNCHANGED <<head, wseq>>
  BY Zenon DEF NextSeqWrite
<1>4. \A c \in CPU : c # c0 => entries'[c] = entries[c] /\ Storing(c)' = Storing(c)
  BY Zenon DEF NextSeqWrite, StoreEntry, Storing, TypeOK, WriterType, SharedType
<1>5. ASSUME NEW k \in Slot PROVE entries'[c0][k].seq = entries[c0][k].seq \/ entries'[c0][k].seq = n
  BY Zenon, <1>1 DEF NextSeqWrite, StoreEntry, TypeOK, SharedType
<1>6. ASSUME NEW x \in Nat, x < n, Covers(c0, x) PROVE Covers(c0, x)'
  <2>0. head[c0] - 1 \in Int
    BY TypeFacts
  <2>1. (head[c0] - 1) % KLOG_BUF_SIZE \in Slot
    BY Zenon, <2>0, SlotMod
  <2>2. Newest(c0)' >= x
    <3> DEFINE k == (head[c0] - 1) % KLOG_BUF_SIZE
    <3>1. entries[c0][k].seq >= x /\ Newest(c0)' = entries'[c0][k].seq
      BY Zenon, <1>3, <1>6 DEF Newest, Covers
    <3>2. entries'[c0][k].seq = entries[c0][k].seq \/ entries'[c0][k].seq = n
      BY Zenon, <1>5, <2>1
    <3> HIDE DEF k, n
    <3> QED
      BY <1>1, <1>6, <3>1, <3>2
  <2> QED
    BY Zenon, <1>1, <1>3, <1>6, <2>2 DEF Covers
<1>7. ASSUME NEW c \in CPU, c # c0, NEW x \in Nat, Covers(c, x) PROVE Covers(c, x)'
  BY Zenon, <1>3, <1>4, <1>7 DEF Covers, Newest
<1>8. n <= Len(logged')
  BY <1>1, <1>2
<1> QED
  BY Zenon, <1>2, <1>6, <1>7, <1>8 DEF Grows

LEMMA GrowsFillEntry ==
  ASSUME TypeOK, NEW c0 \in CPU, FillEntry(c0)
  PROVE  Grows
<1>1. UNCHANGED <<head, wseq, logged>>
  BY Zenon DEF FillEntry, seqs
<1>2. \A c \in CPU : Storing(c)' = Storing(c)
  <2>1. wpc[c0] = "fill" /\ wpc' = [wpc EXCEPT ![c0] = "publish"] /\ wpc = [c \in CPU |-> wpc[c]]
    BY Zenon DEF FillEntry, TypeOK, WriterType
  <2> QED
    BY <2>1 DEF Storing
<1>3. \A c \in CPU, k \in Slot : entries'[c][k].seq = entries[c][k].seq
  BY Zenon, TypeFacts DEF FillEntry, StoreEntry, TypeOK, SharedType
<1>4. \A c \in CPU : (head[c] - 1) % KLOG_BUF_SIZE \in Slot
  <2>1. \A c \in CPU : head[c] - 1 \in Int
    BY TypeFacts
  <2> QED
    BY Zenon, <2>1, SlotMod
<1> QED
  <2>1. Len(logged) <= Len(logged')
    <3>1. Len(logged) \in Nat
      BY Zenon, TypeFacts
    <3> QED
      BY <1>1, <3>1
  <2>2. ASSUME NEW c \in CPU, NEW x \in Nat, Covers(c, x) PROVE Covers(c, x)'
    <3>1. Newest(c)' = Newest(c)
      BY Zenon, <1>1, <1>3, <1>4 DEF Newest
    <3> QED
      BY Zenon, <1>1, <1>2, <2>2, <3>1 DEF Covers
  <2> QED
    BY Zenon, <1>1, <2>1, <2>2 DEF Grows

LEMMA GrowsPublish ==
  ASSUME TypeOK, RingsInv, NoWrap, NEW c0 \in CPU, Publish(c0)
  PROVE  Grows
<1> DEFINE h == head[c0]
<1>1. h \in Nat /\ h < Len(logged) /\ Storing(c0) /\ entries[c0][h % KLOG_BUF_SIZE].seq = wseq[c0]
  BY Zenon, TypeFacts DEF Publish, Storing, RingsInv, StoringInv
<1>2. (h + 1) % WORD = h + 1
  <2>1. h + 1 \in Nat /\ h + 1 < WORD /\ WORD \in Nat \ {0}
    <3>1. Len(logged) \in Nat /\ Len(logged) < WORD /\ WORD \in Nat
      BY Zenon, TypeFacts DEF NoWrap
    <3> HIDE DEF h
    <3> QED
      BY <1>1, <3>1
  <2> QED
    BY Zenon, <2>1, ModSmall
<1>3. head'[c0] = h + 1 /\ UNCHANGED <<entries, wseq, logged>>
  BY Zenon, <1>2 DEF Publish, TypeOK, SharedType
<1>4. ~Storing(c0)' /\ Newest(c0)' = wseq[c0]
  <2>1. ~Storing(c0)'
    BY Zenon DEF Publish, Storing, TypeOK, WriterType
  <2>2. head'[c0] - 1 = h
    BY <1>1, <1>3
  <2> QED
    BY Zenon, <1>1, <1>3, <2>1, <2>2 DEF Newest
<1>5. ASSUME NEW x \in Nat, Covers(c0, x) PROVE Covers(c0, x)'
  <2>1. x < wseq[c0] /\ wseq[c0] \in Nat
    BY Zenon, <1>1, <1>5, TypeFacts DEF Covers
  <2>2. wseq[c0] >= x /\ h + 1 >= 1
    BY <1>1, <2>1
  <2> HIDE DEF h
  <2> QED
    BY Zenon, <1>3, <1>4, <2>2 DEF Covers
<1>6. ASSUME NEW c \in CPU, c # c0, NEW x \in Nat, Covers(c, x) PROVE Covers(c, x)'
  <2>1. head'[c] = head[c] /\ Storing(c)' = Storing(c)
    BY Zenon, <1>6 DEF Publish, Storing, TypeOK, WriterType, SharedType
  <2> QED
    BY Zenon, <1>3, <1>6, <2>1 DEF Covers, Newest
<1>7. \A c \in CPU, x \in Nat : Covers(c, x) => Covers(c, x)'
  BY Zenon, <1>5, <1>6
<1>8. Len(logged) <= Len(logged') /\ logged' = logged
  BY <1>3, TypeFacts
<1> QED
  BY Zenon, <1>7, <1>8 DEF Grows

LEMMA WriterKeeps ==
  ASSUME TypeOK, TypeOK', LockInv, RingsInv, NoWrap, NEW c0 \in CPU,
         WriterStep(c0) \/ (\E m \in Msgs : KlogPrintf(c0, m)),
         NEW r \in Readers, ReaderInv(r)
  PROVE  ReaderInv(r)'
<1>1. Grows
  BY Zenon, GrowsOutside, GrowsNextSeqWrite, GrowsFillEntry, GrowsPublish DEF WriterStep
<1>2. SameLocals(r)
  BY Zenon DEF WriterStep, KlogPrintf, AcquireLog, NextSeqRead, NextSeqWrite, FillEntry, Publish,
         reader, SameLocals
<1>3. \A c \in CPU : c # c0 => head'[c] = head[c] /\ entries'[c] = entries[c]
  BY Zenon DEF WriterStep, KlogPrintf, AcquireLog, NextSeqRead, NextSeqWrite, FillEntry, Publish,
         StoreEntry, ring, TypeOK, SharedType
<1>4. rpc[r] = "copy" /\ cpu_id[r] = c0 => UNCHANGED <<head, entries>>
  <2>1. rpc[r] = "copy" /\ cpu_id[r] = c0 => lock[c0] # c0
    BY Holders DEF LockInv
  <2> QED
    BY Zenon, <2>1 DEF WriterStep, KlogPrintf, AcquireLog, NextSeqRead, NextSeqWrite, FillEntry, Publish,
                ring, LockInv
<1> QED
  BY Zenon, <1>1, <1>2, <1>3, <1>4, ReaderKept, ReaderFacts DEF RingsInv

(* So are the steps of another reader.                                     *)
LEMMA OtherReaderKeeps ==
  ASSUME TypeOK, TypeOK', RingsInv, NEW q \in Readers,
         ReaderStep(q) \/ (\E max \in MaxEntries : SnapshotCall(q, max)),
         NEW r \in Readers, r # q, ReaderInv(r)
  PROVE  ReaderInv(r)'
<1>1. UNCHANGED <<entries, head, writer, logged>>
  BY Zenon, ReaderFrame
<1>2. Grows
  BY Zenon, <1>1, GrowsSame
<1>3. SameLocals(r)
  <2> USE DEF SameLocals, TypeOK, ReaderType
  <2>1. ASSUME NEW max, SnapshotCall(q, max) PROVE SameLocals(r)
    BY <2>1 DEF SnapshotCall, Locals
  <2>2. CASE SnapshotReturn(q)
    BY <2>2 DEF SnapshotReturn, Locals
  <2>3. CASE CountRing(q)
    BY <2>3 DEF CountRing, NextRing
  <2>4. CASE LockRing(q)
    BY Zenon, <2>4 DEF LockRing
  <2>5. CASE CopyEntry(q)
    BY Zenon, <2>5 DEF CopyEntry
  <2>6. CASE UnlockRing(q)
    BY <2>6 DEF UnlockRing, NextRing
  <2>7. CASE SortCompare(q)
    BY Zenon, <2>7 DEF SortCompare
  <2>8. CASE SortWild(q) \/ SortNextPass(q) \/ SortDone(q)
    BY Zenon, <2>8 DEF SortWild, SortNextPass, SortDone
  <2> HIDE DEF SameLocals, TypeOK, ReaderType
  <2> QED
    BY Zenon, <2>1, <2>2, <2>3, <2>4, <2>5, <2>6, <2>7, <2>8 DEF ReaderStep
<1> QED
  BY Zenon, <1>1, <1>2, <1>3, ReaderKept DEF RingsInv

-----------------------------------------------------------------------------
(* A call of klog_snapshot starts and returns. *)
LEMMA ReaderCall ==
  ASSUME TypeOK, RingsInv, NEW r \in Readers,
         (\E max \in MaxEntries : SnapshotCall(r, max)) \/ SnapshotReturn(r)
  PROVE  ReaderInv(r)'
<1>1. /\ rpc'[r] \in {"idle", "count"} /\ cpu_id'[r] = 0 /\ total'[r] = 0 /\ buf'[r] = << >>
      /\ seen'[r] = {} /\ (rpc'[r] = "count" => max_entries'[r] \in MaxEntries)
  BY DEF SnapshotCall, SnapshotReturn, Locals, TypeOK, ReaderType
<1>2. logged' = logged
  BY Zenon DEF SnapshotCall, SnapshotReturn
<1>3. SeenInv(r)'
  <2>1. IsFiniteSet({}) /\ Cardinality({}) = 0
    BY Zenon, FS_EmptySet
  <2>2. logged[1].cpu \in Nat
    BY TypeFacts DEF RingsInv, BootInv
  <2>3. ~(logged'[1].cpu < cpu_id'[r])
    BY <1>1, <1>2, <2>2
  <2> QED
    BY Zenon, <1>1, <2>1, <2>3 DEF SeenInv, Collecting
<1> QED
  BY Zenon, <1>1, <1>3 DEF ReaderInv, CollectInv, BufInv, SortInv, Collecting

(* What one ring adds to the first pass: as many numbers as the ring holds *)
(* entries, those of whole entries of its CPU, the newest one among them.  *)
LEMMA RingSeqsFacts ==
  ASSUME TypeOK, LockInv, RingsInv, NEW c \in CPU, lock[c] = Free
  PROVE  /\ Retained(c) \in Nat /\ (Retained(c) = 0 <=> head[c] = 0)
         /\ IsFiniteSet(RingSeqs(c)) /\ Cardinality(RingSeqs(c)) = Retained(c)
         /\ (RingSeqs(c) = {} <=> head[c] = 0)
         /\ \A x \in RingSeqs(c) : /\ x \in Nat /\ x < Len(logged) /\ logged[x + 1].cpu = c
                                   /\ Covers(c, x)
<1> DEFINE S == 0 .. Retained(c) - 1
           T == RingSeqs(c)
           f == [k \in S |-> entries[c][k].seq]
<1>1. ~Storing(c)
  BY Zenon, Holders DEF LockInv, Storing
<1>2. Retained(c) \in Nat /\ (Retained(c) = 0 <=> head[c] = 0)
  <2>1. head[c] \in Nat /\ KLOG_BUF_SIZE \in Nat /\ KLOG_BUF_SIZE >= 1
    BY Zenon, TypeFacts
  <2> QED
    BY <2>1 DEF Retained
<1>3. S = Settled(c)
  <2>1. Settled(c) = {k \in Slot : k < head[c]}
    BY Zenon, <1>1 DEF Settled, Used
  <2>2. head[c] \in Nat /\ KLOG_BUF_SIZE \in Nat /\ KLOG_BUF_SIZE >= 1
    BY Zenon, TypeFacts
  <2> QED
    BY <2>1, <2>2 DEF Retained, Slot
<1>4. \A x \in T : \E k \in S : x = f[k]
  BY Zenon DEF RingSeqs
<1>5. f \in Bijection(S, T)
  <2>1. f \in [S -> T] /\ \A x \in T : \E k \in S : f[k] = x
    BY Zenon, <1>4 DEF RingSeqs
  <2>2. \A k, l \in S : f[k] = f[l] => k = l
    BY Zenon, <1>3 DEF RingsInv, RingInv
  <2>3. DOMAIN f = S
    BY Zenon
  <2> HIDE DEF f
  <2> QED
    BY <2>1, <2>2, <2>3, Zenon DEF Bijection, Injection, Surjection, IsInjective
<1>6. IsFiniteSet(S) /\ Cardinality(S) = Retained(c)
  <2> DEFINE m == Retained(c) - 1
  <2>1. 0 \in Int /\ m \in Int /\ (IF 0 > m THEN 0 ELSE m - 0 + 1) = Retained(c)
    BY <1>2
  <2> HIDE DEF m
  <2>2. IsFiniteSet(0 .. m) /\ Cardinality(0 .. m) = (IF 0 > m THEN 0 ELSE m - 0 + 1)
    BY Zenon, <2>1, FS_Interval
  <2>3. Cardinality(0 .. m) = Retained(c)
    BY <2>1, <2>2
  <2> QED
    BY Zenon, <2>2, <2>3 DEF m
<1>7. IsFiniteSet(T) /\ Cardinality(T) = Retained(c)
  <2>1. ExistsBijection(S, T)
    BY <1>5, Zenon DEF ExistsBijection
  <2> QED
    BY Zenon, <1>6, <2>1, FS_Bijection
<1>8. T = {} <=> head[c] = 0
  BY Zenon, <1>2, <1>7, FS_EmptySet
<1>9. ASSUME NEW x \in T
      PROVE  x \in Nat /\ x < Len(logged) /\ logged[x + 1].cpu = c /\ Covers(c, x)
  <2>1. PICK k \in S : x = entries[c][k].seq
    BY Zenon, <1>4
  <2>2. k \in Settled(c) /\ k \in Slot
    BY Zenon, <1>3 DEF Settled, Used
  <2>3. x \in Nat /\ x < Len(logged) /\ logged[x + 1].cpu = c /\ x <= Newest(c)
    <3>1. RingInv(c) /\ entries[c][k].seq \in Nat
      BY Zenon, <2>2, TypeFacts DEF RingsInv
    <3>2. /\ entries[c][k].seq < Len(logged) /\ logged[entries[c][k].seq + 1].cpu = c
          /\ entries[c][k].seq <= Newest(c)
      BY Zenon, <1>1, <2>2, <3>1 DEF RingInv
    <3> QED
      BY Zenon, <2>1, <3>1, <3>2
  <2>4. head[c] >= 1 /\ Newest(c) \in Nat
    <3>1. head[c] - 1 \in Int /\ head[c] # 0 /\ head[c] \in Nat
      <4>1. head[c] \in Nat /\ head[c] # 0
        BY Zenon, <1>8, <1>9, TypeFacts
      <4> QED
        BY <4>1
    <3>2. (head[c] - 1) % KLOG_BUF_SIZE \in Slot
      BY Zenon, <3>1, SlotMod
    <3>3. Newest(c) \in Nat
      BY Zenon, <3>2, TypeFacts DEF Newest
    <3> QED
      BY <3>1, <3>3
  <2> QED
    BY Zenon, <1>1, <2>3, <2>4 DEF Covers
<1> QED
  BY Zenon, <1>2, <1>7, <1>8, <1>9

(* One ring of the first pass.                                             *)
LEMMA ReaderCount ==
  ASSUME TypeOK, TypeOK', LockInv, RingsInv, NoWrap, NEW r \in Readers, ReaderInv(r), CountRing(r)
  PROVE  ReaderInv(r)'
<1> DEFINE c == cpu_id[r]
           S == seen[r]
           T == RingSeqs(c)
<1>1. /\ c \in CPU /\ c \in Nat /\ NCPU \in Nat /\ c <= NCPU - 1
      /\ rpc[r] = "count" /\ lock[c] = Free /\ buf[r] = << >>
  <2>1. /\ c \in CPU /\ NCPU \in Nat /\ rpc[r] = "count" /\ lock[c] = Free /\ buf[r] = << >>
    BY Zenon, ReaderFacts, TypeFacts DEF CountRing, ReaderInv, CollectInv
  <2> HIDE DEF c
  <2> QED
    BY <2>1 DEF CPU
<1>2. /\ rpc'[r] = (IF c = NCPU - 1 THEN "lock" ELSE "count")
      /\ cpu_id'[r] = (IF c = NCPU - 1 THEN 0 ELSE c + 1)
      /\ total'[r] = total[r] + Retained(c)
      /\ min_seq'[r] = Min(T \cup {min_seq[r]})
      /\ seen'[r] = S \cup T
      /\ skip_count'[r] = (IF c = NCPU - 1 /\ total'[r] > max_entries[r]
                           THEN total'[r] - max_entries[r] ELSE 0)
  <2>1. /\ rpc' = [rpc EXCEPT ![r] = IF c = NCPU - 1 THEN "lock" ELSE "count"]
        /\ cpu_id' = [cpu_id EXCEPT ![r] = IF @ = NCPU - 1 THEN 0 ELSE @ + 1]
        /\ total' = [total EXCEPT ![r] = total[r] + Retained(c)]
        /\ min_seq' = [min_seq EXCEPT ![r] = Min(T \cup {min_seq[r]})]
        /\ seen' = [seen EXCEPT ![r] = @ \cup T]
        /\ skip_count' = [skip_count EXCEPT ![r] =
                            IF c = NCPU - 1 /\ total[r] + Retained(c) > max_entries[r]
                            THEN (total[r] + Retained(c)) - max_entries[r] ELSE 0]
    BY Zenon DEF CountRing, NextRing
  <2>2. /\ rpc = [q \in Readers |-> rpc[q]] /\ cpu_id = [q \in Readers |-> cpu_id[q]]
        /\ total = [q \in Readers |-> total[q]] /\ min_seq = [q \in Readers |-> min_seq[q]]
        /\ seen = [q \in Readers |-> seen[q]] /\ skip_count = [q \in Readers |-> skip_count[q]]
    BY Zenon DEF TypeOK, ReaderType
  <2> HIDE DEF T
  <2> QED
    BY Zenon, <2>1, <2>2
<1>3. UNCHANGED <<entries, head, wpc, wseq, logged>> /\ max_entries'[r] = max_entries[r] /\ buf'[r] = buf[r]
  BY Zenon DEF CountRing, ring, writer
<1>4. /\ max_entries[r] \in MaxEntries /\ IsFiniteSet(S) /\ Cardinality(S) = total[r]
      /\ \A x \in S : /\ x \in Nat /\ x < Len(logged) /\ min_seq[r] <= x
                       /\ logged[x + 1].cpu < c /\ Covers(logged[x + 1].cpu, x)
  BY Zenon, <1>1, ReaderFacts DEF ReaderInv, SeenInv
<1>5. /\ Retained(c) \in Nat /\ IsFiniteSet(T) /\ Cardinality(T) = Retained(c)
      /\ \A x \in T : /\ x \in Nat /\ x < Len(logged) /\ logged[x + 1].cpu = c /\ Covers(c, x)
  BY Zenon, <1>1, RingSeqsFacts
<1>6. IsFiniteSet(S \cup T) /\ Cardinality(S \cup T) = total[r] + Retained(c)
  <2>1. S \cap T = {}
    BY <1>1, <1>4, <1>5
  <2>2. Cardinality(S \cap T) = 0 /\ total[r] \in Nat
    BY Zenon, <2>1, FS_EmptySet, ReaderFacts
  <2>3. IsFiniteSet(S \cup T) /\ Cardinality(S \cup T) = Cardinality(S) + Cardinality(T) - Cardinality(S \cap T)
    BY Zenon, <1>4, <1>5, FS_Union
  <2> HIDE DEF S, T
  <2> QED
    BY <1>4, <1>5, <2>2, <2>3
<1>7. \A x \in S \cup T : min_seq'[r] <= x
  <2>1. T \cup {min_seq[r]} \subseteq Nat
    BY Zenon, <1>5, ReaderFacts
  <2>2. \A x \in T \cup {min_seq[r]} : min_seq'[r] <= x
    BY Zenon, <1>2, <2>1, MinProperties
  <2>3. min_seq'[r] \in Nat /\ min_seq[r] \in Nat
    <3>1. min_seq'[r] \in UInt /\ min_seq[r] \in Nat
      BY Zenon, ReaderFacts DEF TypeOK, ReaderType
    <3> QED
      BY <3>1, KlogAssumption DEF UInt
  <2>4. ASSUME NEW x \in S PROVE min_seq'[r] <= x
    <3>1. x \in Nat /\ min_seq[r] <= x
      BY Zenon, <1>4
    <3>2. min_seq'[r] <= min_seq[r]
      BY Zenon, <2>2
    <3> QED
      BY <2>3, <3>1, <3>2
  <2> QED
    BY Zenon, <2>2, <2>4
<1>8. \A x \in S \cup T : Covers(logged[x + 1].cpu, x)'
  BY Zenon, <1>3, <1>4, <1>5 DEF Covers, Newest, Storing
<1>9. \A x \in S \cup T : x < Len(logged) /\ logged[x + 1].cpu < c + 1
  <2>1. \A x \in S : logged[x + 1].cpu \in Nat
    <3>1. \A x \in S : x + 1 \in 1 .. Len(logged)
      <4>1. Len(logged) \in Nat
        BY Zenon, TypeFacts
      <4> QED
        BY <1>4, <4>1
    <3> QED
      BY Zenon, <3>1, TypeFacts
  <2> QED
    BY <1>1, <1>4, <1>5, <2>1
<1>10. logged[1].cpu < c + 1 => S \cup T # {}
  <2>0. Len(logged) \in Nat /\ Len(logged) >= 1 /\ head[logged[1].cpu] >= 1
    BY Zenon, TypeFacts DEF RingsInv, BootInv
  <2>1. logged[1].cpu \in Nat /\ logged[1].cpu \in CPU
    <3>1. 1 \in 1 .. Len(logged)
      BY <2>0
    <3> QED
      BY Zenon, <3>1, TypeFacts
  <2>2. logged[1].cpu < c => S # {}
    BY Zenon, <1>1 DEF ReaderInv, SeenInv
  <2>3. logged[1].cpu = c => T # {}
    <3>1. ~(0 >= 1)
      OBVIOUS
    <3> QED
      BY Zenon, <1>1, <2>0, <3>1, RingSeqsFacts
  <2> QED
    BY <1>1, <2>1, <2>2, <2>3
<1>11. logged[1].cpu < NCPU
  <2>0. Len(logged) \in Nat /\ Len(logged) >= 1
    BY Zenon, TypeFacts DEF RingsInv, BootInv
  <2>1. logged[1].cpu \in CPU
    <3>1. 1 \in 1 .. Len(logged)
      BY <2>0
    <3> QED
      BY Zenon, <3>1, TypeFacts
  <2> QED
    BY <1>1, <2>1 DEF CPU
<1>12. SeenInv(r)'
  <2> HIDE DEF c, S, T
  <2>1. CASE c = NCPU - 1
    <3>1. rpc'[r] = "lock" /\ skip_count'[r] = (IF total'[r] > max_entries[r] THEN total'[r] - max_entries[r] ELSE 0)
      BY Zenon, <1>2, <2>1
    <3>2. seen'[r] # {}
      BY <1>1, <1>2, <1>10, <1>11, <2>1
    <3> QED
      BY Zenon, <1>2, <1>3, <1>4, <1>6, <1>7, <1>8, <1>9, <3>1, <3>2 DEF SeenInv, Collecting
  <2>2. CASE c # NCPU - 1
    <3>1. rpc'[r] = "count" /\ cpu_id'[r] = c + 1
      BY Zenon, <1>2, <2>2
    <3> QED
      BY Zenon, <1>2, <1>3, <1>4, <1>6, <1>7, <1>8, <1>9, <1>10, <3>1 DEF SeenInv, Collecting
  <2> QED
    BY Zenon, <2>1, <2>2
<1>13. CollectInv(r)'
  <2>1. rpc'[r] = "lock" => \A x \in seen'[r] : cpu_id'[r] <= logged[x + 1].cpu
    <3>1. \A x \in S \cup T : logged[x + 1].cpu \in Nat
      <4>1. \A x \in S \cup T : x + 1 \in 1 .. Len(logged)
        <5>1. Len(logged) \in Nat /\ \A x \in S \cup T : x \in Nat /\ x < Len(logged)
          BY Zenon, <1>4, <1>5, TypeFacts
        <5> HIDE DEF S, T
        <5> QED
          BY <5>1
      <4> QED
        BY Zenon, <4>1, TypeFacts
    <3>2. rpc'[r] = "lock" => cpu_id'[r] = 0
      BY Zenon, <1>2
    <3>3. seen'[r] = S \cup T
      BY Zenon, <1>2
    <3> HIDE DEF S, T
    <3> QED
      BY <3>1, <3>2, <3>3
  <2>2. rpc'[r] \in {"count", "lock"} /\ buf'[r] = << >> /\ Len(buf'[r]) = 0 /\ logged' = logged
    <3>1. rpc'[r] \in {"count", "lock"} /\ buf'[r] = << >> /\ logged' = logged
      BY Zenon, <1>1, <1>2, <1>3
    <3> QED
      BY <3>1
  <2>3. Wanted(r)' \subseteq seen'[r]
    BY ZenonT(60) DEF Wanted
  <2> HIDE DEF c
  <2> QED
    BY <2>1, <2>2, <2>3 DEF CollectInv, Collecting
<1>14. BufInv(r)' /\ SortInv(r)'
  <2>0. Len(buf'[r]) = 0 /\ rpc'[r] \in {"count", "lock"}
    <3>1. rpc'[r] \in {"count", "lock"} /\ buf'[r] = << >>
      BY Zenon, <1>1, <1>2, <1>3
    <3> QED
      BY <3>1
  <2>1. Len(buf'[r]) = 0 /\ rpc'[r] \in {"count", "lock"} /\ max_entries'[r] >= 0
    <3>1. Len(buf'[r]) = 0 /\ rpc'[r] \in {"count", "lock"}
      BY Zenon, <2>0
    <3>2. \A m \in MaxEntries : m >= 0
      BY KlogAssumption
    <3>3. max_entries'[r] \in MaxEntries
      BY Zenon, <1>3, <1>4
    <3> QED
      BY Zenon, <3>1, <3>2, <3>3
  <2> QED
    BY <2>1 DEF BufInv, SortInv
<1> QED
  BY Zenon, <1>12, <1>13, <1>14 DEF ReaderInv

-----------------------------------------------------------------------------
(* The second pass keeps it, and copies at least one entry.                *)

(* A step of the second pass or of the sort does not change what the first *)
(* pass found.                                                             *)
LEMMA SeenKept ==
  ASSUME NEW r \in Readers, SeenInv(r), UNCHANGED <<entries, head, wpc, wseq, logged>>,
         Collecting(r), rpc'[r] # "count", max_entries'[r] = max_entries[r], total'[r] = total[r],
         min_seq'[r] = min_seq[r], skip_count'[r] = skip_count[r], seen'[r] = seen[r]
  PROVE  SeenInv(r)'
<1>1. \A x \in seen[r] : Covers(logged[x + 1].cpu, x) => Covers(logged[x + 1].cpu, x)'
  BY Zenon DEF Covers, Newest, Storing
<1> QED
  BY Zenon, <1>1 DEF SeenInv, Collecting

(* The second pass takes the lock of the next ring.                        *)
LEMMA ReaderLock ==
  ASSUME TypeOK, TypeOK', RingsInv, NEW r \in Readers, ReaderInv(r), LockRing(r)
  PROVE  ReaderInv(r)'
<1> DEFINE c == cpu_id[r]
<1>1. /\ rpc[r] = "lock" /\ rpc'[r] = "copy" /\ ii'[r] = head[c] - Retained(c)
      /\ UNCHANGED <<entries, head, wpc, wseq, logged, max_entries, cpu_id, total, min_seq, skip_count, buf, seen>>
  BY Zenon DEF LockRing, writer, TypeOK, ReaderType
<1>2. SeenInv(r)'
  BY Zenon, <1>1, SeenKept DEF ReaderInv, Collecting
<1>3. /\ c \in CPU /\ head[c] \in Nat /\ ii'[r] \in Nat /\ ii'[r] <= head[c]
      /\ head[c] - ii'[r] <= KLOG_BUF_SIZE /\ (head[c] >= 1 => ii'[r] < head[c])
  <2>1. /\ c \in CPU /\ head[c] \in Nat /\ KLOG_BUF_SIZE \in Nat /\ KLOG_BUF_SIZE >= 1
        /\ ii'[r] = head[c] - Retained(c)
    BY Zenon, <1>1, ReaderFacts, TypeFacts
  <2> HIDE DEF c
  <2> QED
    BY <2>1 DEF Retained
<1>4. ASSUME NEW x \in Wanted(r), c = logged[x + 1].cpu PROVE head[c] >= 1
  BY Zenon, <1>1, <1>4 DEF ReaderInv, SeenInv, Wanted, Covers
<1>5. CollectInv(r)'
  <2>1. \A j \in 1 .. Len(buf[r]) : buf[r][j].cpu <= c /\ buf[r][j].cpu # c
    BY Zenon, <1>1 DEF ReaderInv, CollectInv
  <2>2. Wanted(r)' = Wanted(r)
    BY Zenon, <1>1 DEF Wanted
  <2>3. buf[r] = << >> => \A x \in Wanted(r) : c <= logged[x + 1].cpu
    BY Zenon, <1>1 DEF ReaderInv, CollectInv, Collecting
  <2> QED
    BY Zenon, <1>1, <1>3, <1>4, <2>1, <2>2, <2>3 DEF CollectInv, Collecting
<1>6. BufInv(r)' /\ SortInv(r)'
  BY Zenon, <1>1 DEF ReaderInv, BufInv, SortInv, Collecting
<1> QED
  BY Zenon, <1>2, <1>5, <1>6 DEF ReaderInv

(* The ring that r has locked, from position ii on: whole entries of its   *)
(* CPU in the order of their numbers, the newest one last.                 *)
LEMMA LockedRing ==
  ASSUME TypeOK, LockInv, RingsInv, NEW r \in Readers, ReaderInv(r), rpc[r] = "copy",
         NEW t \in ii[r] .. head[cpu_id[r]] - 1
  PROVE  LET c == cpu_id[r]
             e == entries[c][t % KLOG_BUF_SIZE] IN
         /\ t \in Nat /\ e \in Entry /\ e.seq \in Nat /\ e.seq < Len(logged)
         /\ logged[e.seq + 1] = e /\ e.cpu = c
         /\ t = head[c] - 1 => e.seq = Newest(c)
         /\ \A u \in t + 1 .. head[c] - 1 : e.seq < entries[c][u % KLOG_BUF_SIZE].seq
<1> DEFINE c == cpu_id[r]
           k == t % KLOG_BUF_SIZE
<1>1. c \in CPU /\ ~Storing(c)
  <2>1. c \in CPU
    BY Zenon, ReaderFacts
  <2>2. lock[c] = r
    BY Zenon, <2>1 DEF LockInv
  <2>3. r # c
    BY Zenon, <2>1, Holders
  <2> QED
    BY Zenon, <2>1, <2>2, <2>3 DEF LockInv, Storing
<1>2. /\ ii[r] \in Nat /\ head[c] \in Nat /\ head[c] - ii[r] <= KLOG_BUF_SIZE
      /\ t \in Nat /\ t < head[c] /\ KLOG_BUF_SIZE \in Nat \ {0}
  <2>1. ii[r] \in Nat /\ head[c] \in Nat /\ head[c] - ii[r] <= KLOG_BUF_SIZE
    BY Zenon, <1>1, ReaderFacts, TypeFacts DEF ReaderInv, CollectInv
  <2> HIDE DEF c
  <2> QED
    BY <2>1, KlogAssumption DEF c
<1>3. \A u \in ii[r] .. head[c] - 1 : u \in Live(c)
  <2>1. ASSUME NEW u \in ii[r] .. head[c] - 1
        PROVE  u \in 0 .. head[c] - 1 /\ u + KLOG_BUF_SIZE >= head[c]
    BY <1>2
  <2> QED
    BY Zenon, <1>1, <2>1 DEF Live
<1>4. k \in Slot /\ k <= t /\ k \in Nat
  BY <1>2, SlotMod, ModLeq DEF Slot
<1>5. k \in Settled(c)
  <2>1. k < head[c]
    BY <1>2, <1>4
  <2> QED
    BY Zenon, <1>1, <1>4, <2>1 DEF Settled, Used
<1>6. entries[c][k] \in Entry /\ entries[c][k].seq \in Nat
  BY Zenon, <1>1, <1>4, TypeFacts
<1>7. /\ entries[c][k].seq < Len(logged) /\ logged[entries[c][k].seq + 1] = entries[c][k]
      /\ entries[c][k].cpu = c
  BY Zenon, <1>1, <1>5 DEF RingsInv, RingInv
<1>8. t = head[c] - 1 => entries[c][k].seq = Newest(c)
  BY Zenon DEF Newest
<1>9. ASSUME NEW u \in t + 1 .. head[c] - 1
      PROVE  entries[c][k].seq < entries[c][u % KLOG_BUF_SIZE].seq
  <2>1. t \in Live(c) /\ u \in Live(c) /\ t < u
    BY <1>2, <1>3
  <2> QED
    BY Zenon, <1>1, <2>1 DEF RingsInv, RingInv
<1> QED
  BY Zenon, <1>2, <1>6, <1>7, <1>8, <1>9

(* The second pass copies the entry at ii or skips it.                     *)
LEMMA ReaderCopy ==
  ASSUME TypeOK, TypeOK', LockInv, RingsInv, NoWrap, NEW r \in Readers, ReaderInv(r), CopyEntry(r)
  PROVE  ReaderInv(r)'
<1> DEFINE c == cpu_id[r]
           e == entries[c][ii[r] % KLOG_BUF_SIZE]
           b == buf[r]
           n == Len(b)
<1>1. /\ rpc[r] = "copy" /\ rpc'[r] = "copy" /\ ii'[r] = ii[r] + 1 /\ ii[r] < head[c] /\ n < max_entries[r]
      /\ buf'[r] = (IF e.seq >= Threshold(r) THEN Append(b, e) ELSE b)
      /\ UNCHANGED <<entries, head, wpc, wseq, logged, max_entries, cpu_id, total, min_seq, skip_count, seen>>
  BY Zenon DEF CopyEntry, MoreToCopy, ring, writer, TypeOK, ReaderType
<1>2. SeenInv(r)'
  BY Zenon, <1>1, SeenKept DEF ReaderInv, Collecting
<1>3. /\ c \in CPU /\ ii[r] \in Nat /\ head[c] \in Nat /\ n \in Nat /\ max_entries[r] \in Nat
      /\ ii[r] \in ii[r] .. head[c] - 1
  <2>1. \A m \in MaxEntries \cup {0} : m \in Nat
    BY KlogAssumption
  <2>2. max_entries[r] \in MaxEntries \cup {0}
    BY Zenon DEF TypeOK, ReaderType
  <2>3. c \in CPU /\ ii[r] \in Nat /\ n \in Nat /\ head[c] \in Nat
    BY Zenon, ReaderFacts, TypeFacts
  <2>4. ii[r] < head[c] /\ max_entries[r] \in Nat
    BY Zenon, <1>1, <2>1, <2>2
  <2> HIDE DEF c, n
  <2> QED
    BY <2>3, <2>4
<1>4. /\ e \in Entry /\ e.seq \in Nat /\ e.seq < Len(logged) /\ logged[e.seq + 1] = e /\ e.cpu = c
      /\ ii[r] = head[c] - 1 => e.seq = Newest(c)
      /\ \A u \in ii[r] + 1 .. head[c] - 1 : e.seq < entries[c][u % KLOG_BUF_SIZE].seq
  BY Zenon, <1>1, <1>3, LockedRing
<1>5. /\ \A j \in 1 .. n : /\ b[j].seq < Len(logged) /\ logged[b[j].seq + 1] = b[j]
                           /\ b[j].cpu <= c
                           /\ b[j].cpu = c => \A t \in ii[r] .. head[c] - 1 :
                                                b[j].seq < entries[c][t % KLOG_BUF_SIZE].seq
      /\ \A j, k \in 1 .. n : b[j].seq = b[k].seq => j = k
  BY Zenon, <1>1 DEF ReaderInv, CollectInv, BufInv, Collecting
<1>6. \A j \in 1 .. n : b[j].seq # e.seq
  <2> SUFFICES ASSUME NEW j \in 1 .. n, b[j].seq = e.seq PROVE FALSE
    BY Zenon
  <2>1. b[j] = e
    BY Zenon, <1>4, <1>5
  <2>2. b[j].seq < e.seq
    BY Zenon, <1>3, <1>4, <1>5, <2>1
  <2> HIDE DEF b, e
  <2> QED
    BY <1>4, <2>2
<1>60. ii'[r] <= head[c] /\ head[c] - ii'[r] <= KLOG_BUF_SIZE
  <2>1. head[c] - ii[r] <= KLOG_BUF_SIZE /\ KLOG_BUF_SIZE \in Nat
    BY Zenon, <1>1, TypeFacts DEF ReaderInv, CollectInv
  <2>2. ii'[r] = ii[r] + 1 /\ ii[r] < head[c]
    BY Zenon, <1>1
  <2> HIDE DEF c
  <2> QED
    BY <1>3, <2>1, <2>2
<1>7. CASE e.seq >= Threshold(r)
  <2>1. /\ buf'[r] = Append(b, e) /\ Len(buf'[r]) = n + 1 /\ buf'[r][n + 1] = e
        /\ \A j \in 1 .. n : buf'[r][j] = b[j]
    <3>1. b \in Seq(Entry) /\ buf'[r] = Append(b, e)
      BY Zenon, <1>1, <1>7, ReaderFacts
    <3> HIDE DEF b, e
    <3> QED
      BY <1>4, <3>1
  <2>2. \A j \in 1 .. n + 1 : j \in 1 .. n \/ j = n + 1
    BY <1>3
  <2> HIDE DEF n, b, e
  <2>3. BufInv(r)'
    <3>1. Len(buf'[r]) <= max_entries[r]
      <4>1. n < max_entries[r] /\ Len(buf'[r]) = n + 1
        BY Zenon, <1>1, <2>1
      <4> QED
        BY <1>3, <4>1
    <3>2. \A j \in 1 .. n + 1 : buf'[r][j].seq < Len(logged) /\ logged[buf'[r][j].seq + 1] = buf'[r][j]
      BY Zenon, <1>4, <1>5, <2>1, <2>2
    <3>3. \A j, k \in 1 .. n + 1 : buf'[r][j].seq = buf'[r][k].seq => j = k
      BY Zenon, <1>5, <1>6, <2>1, <2>2
    <3> QED
      BY Zenon, <1>1, <2>1, <3>1, <3>2, <3>3 DEF BufInv
  <2>4. CollectInv(r)'
    <3>1. buf'[r] # << >>
      <4>1. Len(buf'[r]) = n + 1 /\ n \in Nat
        BY Zenon, <1>3, <2>1
      <4> QED
        BY <4>1
    <3>2. ii'[r] <= head[c] /\ head[c] - ii'[r] <= KLOG_BUF_SIZE
      BY Zenon, <1>60
    <3>3. ASSUME NEW j \in 1 .. n + 1
          PROVE  /\ buf'[r][j].cpu <= c
                 /\ buf'[r][j].cpu = c => \A t \in ii[r] + 1 .. head[c] - 1 :
                                            buf'[r][j].seq < entries[c][t % KLOG_BUF_SIZE].seq
      <4>1. c <= c
        <5>1. c \in Nat
          BY Zenon, <1>3, TypeFacts
        <5> HIDE DEF c
        <5> QED
          BY <5>1
      <4>2. CASE j = n + 1
        BY Zenon, <1>4, <2>1, <4>1, <4>2
      <4>3. CASE j \in 1 .. n
        <5>1. \A t \in ii[r] + 1 .. head[c] - 1 : t \in ii[r] .. head[c] - 1
          BY <1>3
        <5> QED
          BY Zenon, <1>5, <2>1, <4>3, <5>1
      <4> QED
        BY Zenon, <2>2, <4>2, <4>3
    <3> HIDE DEF c
    <3> QED
      BY Zenon, <1>1, <2>1, <3>1, <3>2, <3>3 DEF CollectInv, c
  <2> QED
    BY Zenon, <1>1, <1>2, <2>3, <2>4 DEF ReaderInv, SortInv
<1>8. CASE ~(e.seq >= Threshold(r))
  <2>1. buf'[r] = b
    BY Zenon, <1>1, <1>8
  <2>2. BufInv(r)'
    BY Zenon, <1>1, <2>1 DEF ReaderInv, BufInv, Collecting
  <2>3. ASSUME NEW x \in Wanted(r), c = logged[x + 1].cpu PROVE ii[r] + 1 < head[c]
    <3>1. /\ x \in Nat /\ x < Len(logged) /\ min_seq[r] + skip_count[r] <= x
          /\ min_seq[r] + skip_count[r] \in Nat /\ Newest(c) >= x
      <4>1. SeenInv(r) /\ x \in seen[r] /\ x >= min_seq[r] + skip_count[r] /\ rpc[r] = "copy"
        BY Zenon, <1>1 DEF Wanted, ReaderInv
      <4>2. x < Len(logged) /\ Newest(c) >= x
        BY Zenon, <2>3, <4>1 DEF SeenInv, Covers
      <4>3. seen[r] \subseteq Nat /\ min_seq[r] \in Nat /\ skip_count[r] \in Nat
        BY Zenon, ReaderFacts
      <4> HIDE DEF c
      <4> QED
        BY <4>1, <4>2, <4>3
    <3>2. Threshold(r) = min_seq[r] + skip_count[r]
      <4>1. min_seq[r] + skip_count[r] < WORD /\ WORD \in Nat \ {0}
        <5>1. Len(logged) \in Nat /\ Len(logged) < WORD /\ WORD \in Nat
          BY Zenon, TypeFacts DEF NoWrap
        <5> HIDE DEF c
        <5> QED
          BY <3>1, <5>1
      <4> QED
        BY Zenon, <3>1, <4>1, ModSmall DEF Threshold
    <3> HIDE DEF e, c
    <3>3. e.seq \in Nat /\ e.seq < min_seq[r] + skip_count[r]
      <4>1. ~(e.seq >= min_seq[r] + skip_count[r]) /\ e.seq \in Nat
        BY Zenon, <1>4, <1>8, <3>2
      <4> QED
        BY <3>1, <4>1
    <3>4. ii[r] # head[c] - 1
      <4>1. ii[r] = head[c] - 1 => e.seq = Newest(c)
        BY Zenon, <1>4
      <4> QED
        BY <3>1, <3>3, <4>1
    <3>5. ii[r] < head[c] /\ ii[r] \in Nat /\ head[c] \in Nat
      BY Zenon, <1>1, <1>3 DEF c
    <3> QED
      BY <3>4, <3>5
  <2>4. CollectInv(r)'
    <3>1. Wanted(r)' = Wanted(r)
      BY Zenon, <1>1 DEF Wanted
    <3>2. ii'[r] <= head[c] /\ head[c] - ii'[r] <= KLOG_BUF_SIZE
      BY Zenon, <1>60
    <3>3. ASSUME NEW j \in 1 .. n, b[j].cpu = c, NEW t \in ii[r] + 1 .. head[c] - 1
          PROVE  b[j].seq < entries[c][t % KLOG_BUF_SIZE].seq
      <4>1. t \in ii[r] .. head[c] - 1
        BY <1>3
      <4> QED
        BY Zenon, <1>5, <3>3, <4>1
    <3>4. b = << >> => \A x \in Wanted(r) : c <= logged[x + 1].cpu
      BY Zenon, <1>1 DEF ReaderInv, CollectInv, Collecting
    <3> QED
      BY Zenon, <1>1, <1>5, <2>1, <2>3, <3>1, <3>2, <3>3, <3>4 DEF CollectInv
  <2> QED
    BY Zenon, <1>1, <1>2, <2>2, <2>4 DEF ReaderInv, SortInv
<1> QED
  BY Zenon, <1>7, <1>8

(* Counting: the threshold cannot be above every number that was seen.  If *)
(* it were, all of them would lie in an interval of skip_count numbers,    *)
(* and skip_count is less than their count.                                *)
LEMMA WantedExists ==
  ASSUME TypeOK, NEW r \in Readers, SeenInv(r), Collecting(r)
  PROVE  Wanted(r) # {}
<1> DEFINE S == seen[r]
           lo == min_seq[r]
           k == skip_count[r]
           I == lo .. lo + k - 1
<1>1. /\ lo \in Nat /\ k \in Nat /\ total[r] \in Nat /\ S \subseteq Nat
      /\ max_entries[r] \in MaxEntries /\ S # {}
      /\ IsFiniteSet(S) /\ Cardinality(S) = total[r]
      /\ k = (IF total[r] > max_entries[r] THEN total[r] - max_entries[r] ELSE 0)
      /\ \A x \in S : lo <= x
  BY Zenon, ReaderFacts DEF SeenInv, Collecting
<1>2. max_entries[r] \in Nat /\ max_entries[r] >= 1
  <2>1. \A m \in MaxEntries : m \in Nat /\ m >= 1
    BY KlogAssumption
  <2> QED
    BY Zenon, <1>1, <2>1
<1>3. total[r] # 0
  BY Zenon, <1>1, FS_EmptySet
<1>4. k < total[r]
  BY <1>1, <1>2, <1>3
<1>5. IsFiniteSet(I) /\ Cardinality(I) = k
  <2> DEFINE hi == lo + k - 1
  <2>1. lo \in Int /\ hi \in Int /\ (IF lo > hi THEN 0 ELSE hi - lo + 1) = k
    BY <1>1
  <2> HIDE DEF hi
  <2>2. IsFiniteSet(lo .. hi) /\ Cardinality(lo .. hi) = k
    BY Zenon, <2>1, FS_Interval
  <2> QED
    BY Zenon, <2>2 DEF hi
<1> SUFFICES ASSUME Wanted(r) = {} PROVE FALSE
  BY Zenon
<1>6. S \in SUBSET I
  <2>1. \A x \in S : ~(x >= lo + k)
    BY Zenon DEF Wanted
  <2> QED
    BY <1>1, <2>1
<1>7. Cardinality(S) <= Cardinality(I)
  BY Zenon, <1>5, <1>6, FS_Subset
<1> QED
  BY <1>1, <1>4, <1>5, <1>7

(* The second pass leaves a ring.                                          *)
LEMMA ReaderUnlock ==
  ASSUME TypeOK, TypeOK', RingsInv, NoWrap, NEW r \in Readers, ReaderInv(r), UnlockRing(r)
  PROVE  ReaderInv(r)'
<1> DEFINE c == cpu_id[r]
<1>1. /\ rpc[r] = "copy" /\ ii'[r] = 0 /\ jj'[r] = 0
      /\ ~(ii[r] < head[c] /\ Len(buf[r]) < max_entries[r])
      /\ rpc'[r] = (IF c = NCPU - 1 THEN "sort" ELSE "lock")
      /\ cpu_id'[r] = (IF c = NCPU - 1 THEN 0 ELSE c + 1)
      /\ UNCHANGED <<entries, head, wpc, wseq, logged, max_entries, total, min_seq, skip_count, buf, seen>>
  <2>1. /\ rpc[r] = "copy" /\ ~MoreToCopy(r) /\ ii' = [ii EXCEPT ![r] = 0] /\ jj' = [jj EXCEPT ![r] = 0]
        /\ rpc' = [rpc EXCEPT ![r] = IF c = NCPU - 1 THEN "sort" ELSE "lock"]
        /\ cpu_id' = [cpu_id EXCEPT ![r] = IF @ = NCPU - 1 THEN 0 ELSE @ + 1]
        /\ UNCHANGED <<entries, head, wpc, wseq, logged, max_entries, total, min_seq, skip_count, buf, seen>>
    BY Zenon DEF UnlockRing, NextRing, writer
  <2>2. /\ rpc = [q \in Readers |-> rpc[q]] /\ cpu_id = [q \in Readers |-> cpu_id[q]]
        /\ ii = [q \in Readers |-> ii[q]] /\ jj = [q \in Readers |-> jj[q]]
    BY Zenon DEF TypeOK, ReaderType
  <2> QED
    BY Zenon, <2>1, <2>2 DEF MoreToCopy
<1>2. SeenInv(r)'
  BY Zenon, <1>1, SeenKept DEF ReaderInv, Collecting
<1>3. /\ c \in Nat /\ c <= NCPU - 1 /\ NCPU \in Nat /\ Wanted(r)' = Wanted(r)
      /\ Len(buf[r]) \in Nat /\ Collecting(r)
  <2>1. c \in CPU /\ NCPU \in Nat /\ Len(buf[r]) \in Nat /\ Wanted(r)' = Wanted(r) /\ Collecting(r)
    BY Zenon, <1>1, ReaderFacts, TypeFacts DEF Wanted, Collecting
  <2>2. c \in Nat /\ c <= NCPU - 1
    <3> HIDE DEF c
    <3> QED
      BY <2>1 DEF CPU
  <2> QED
    BY Zenon, <2>1, <2>2
<1>4. ASSUME buf[r] = << >>, NEW x \in Wanted(r)
      PROVE  logged[x + 1].cpu \in Nat /\ c < logged[x + 1].cpu /\ c # NCPU - 1
  <2>1. Len(buf[r]) = 0 /\ \A m \in MaxEntries : m > 0
    BY <1>4, KlogAssumption
  <2>2. ~(ii[r] < head[c])
    BY Zenon, <1>1, <2>1 DEF ReaderInv, SeenInv
  <2>3. c <= logged[x + 1].cpu /\ c # logged[x + 1].cpu
    BY Zenon, <1>1, <1>3, <1>4, <2>2 DEF ReaderInv, CollectInv
  <2>4. x \in Nat /\ x < Len(logged)
    BY Zenon, <1>1, ReaderFacts DEF Wanted, ReaderInv, SeenInv
  <2>5. x + 1 \in 1 .. Len(logged)
    <3>1. Len(logged) \in Nat
      BY Zenon, TypeFacts
    <3> QED
      BY <2>4, <3>1
  <2>6. logged[x + 1].cpu \in CPU
    BY Zenon, <2>5, TypeFacts
  <2> QED
    <3>1. c \in Nat /\ NCPU \in Nat
      BY Zenon, <1>3
    <3> HIDE DEF c
    <3> QED
      BY <2>3, <2>6, <3>1 DEF CPU
<1>5. c = NCPU - 1 => Len(buf[r]) >= 1
  <2>1. Wanted(r) # {}
    BY Zenon, <1>3, WantedExists DEF ReaderInv
  <2>2. c = NCPU - 1 => buf[r] # << >>
    BY Zenon, <1>4, <2>1
  <2>3. Len(buf[r]) = 0 => buf[r] = << >>
    <3>1. buf[r] \in Seq(Entry)
      BY Zenon, ReaderFacts
    <3> QED
      BY <3>1
  <2>4. Len(buf[r]) \in Nat
    BY Zenon, <1>3
  <2> HIDE DEF c
  <2> QED
    BY <2>2, <2>3, <2>4
<1>6. CollectInv(r)'
  <2>1. \A j \in 1 .. Len(buf[r]) : buf[r][j].cpu <= c /\ buf[r][j].cpu \in Nat
    BY Zenon, <1>1, ReaderFacts, TypeFacts DEF ReaderInv, CollectInv
  <2>2. CASE c = NCPU - 1
    <3>1. rpc'[r] = "sort" /\ buf'[r] # << >>
      <4>1. rpc'[r] = "sort" /\ buf'[r] = buf[r] /\ Len(buf[r]) >= 1
        BY Zenon, <1>1, <1>5, <2>2
      <4> QED
        BY <4>1
    <3> QED
      BY Zenon, <3>1 DEF CollectInv
  <2>3. CASE c # NCPU - 1
    <3>1. rpc'[r] = "lock" /\ cpu_id'[r] = c + 1
      BY Zenon, <1>1, <2>3
    <3>2. \A j \in 1 .. Len(buf[r]) : buf[r][j].cpu <= c + 1 /\ buf[r][j].cpu # c + 1
      <4>1. c \in Nat
        BY Zenon, <1>3
      <4> HIDE DEF c
      <4> QED
        BY <2>1, <4>1
    <3>3. buf[r] = << >> => \A x \in Wanted(r) : c + 1 <= logged[x + 1].cpu
      <4>1. ASSUME buf[r] = << >>, NEW x \in Wanted(r) PROVE c + 1 <= logged[x + 1].cpu
        <5>1. c \in Nat /\ logged[x + 1].cpu \in Nat /\ c < logged[x + 1].cpu
          BY Zenon, <1>3, <1>4, <4>1
        <5> HIDE DEF c
        <5> QED
          BY <5>1
      <4> QED
        BY Zenon, <4>1
    <3> HIDE DEF c
    <3> QED
      BY Zenon, <1>1, <1>3, <3>1, <3>2, <3>3 DEF CollectInv
  <2> QED
    BY Zenon, <2>2, <2>3
<1>7. BufInv(r)'
  BY Zenon, <1>1 DEF ReaderInv, BufInv, Collecting
<1>8. SortInv(r)'
  <2> DEFINE n == Len(buf[r])
  <2>1. CASE c = NCPU - 1
    <3>1. n >= 1 /\ 0 <= n - 1 /\ 0 <= n - 0 - 1 /\ n - 0 + 1 .. n = {} /\ 1 .. 0 = {}
      <4>1. n \in Nat /\ n >= 1
        BY Zenon, <1>3, <1>5, <2>1
      <4> HIDE DEF n
      <4> QED
        BY <4>1
    <3>2. rpc'[r] = "sort"
      BY Zenon, <1>1, <2>1
    <3> QED
      BY Zenon, <1>1, <3>1, <3>2 DEF SortInv
  <2>2. CASE c # NCPU - 1
    BY Zenon, <1>1, <2>2 DEF SortInv
  <2> QED
    BY Zenon, <2>1, <2>2
<1> QED
  BY Zenon, <1>2, <1>6, <1>7, <1>8 DEF ReaderInv

-----------------------------------------------------------------------------
(* The sort keeps it.                                                      *)

(* The bounds of the sort's loops do not wrap: the buffer is not empty.    *)
LEMMA SortBounds ==
  ASSUME TypeOK, NEW r \in Readers, ReaderInv(r), rpc[r] = "sort"
  PROVE  LET n == Len(buf[r]) IN
         /\ n \in Nat /\ n >= 1 /\ ii[r] \in Nat /\ jj[r] \in Nat /\ ii[r] <= n - 1
         /\ jj[r] <= n - ii[r] - 1
         /\ OuterBound(r) = n - 1 /\ InnerBound(r) = n - ii[r] - 1
<1> DEFINE n == Len(buf[r])
<1>1. n \in Nat /\ ii[r] \in Nat /\ jj[r] \in Nat
  BY Zenon, ReaderFacts
<1>2. n >= 1 /\ ii[r] <= n - 1 /\ jj[r] <= n - ii[r] - 1
  BY Zenon DEF ReaderInv, SortInv
<1>3. n < WORD /\ WORD \in Nat \ {0}
  <2>1. \A m \in MaxEntries : m \in Nat /\ m < WORD
    BY KlogAssumption
  <2>2. n <= max_entries[r] /\ max_entries[r] \in MaxEntries
    BY Zenon DEF ReaderInv, BufInv, SeenInv, Collecting
  <2>3. WORD \in Nat \ {0}
    BY Zenon, KlogAssumption
  <2> HIDE DEF n
  <2> QED
    BY <1>1, <2>1, <2>2, <2>3
<1> HIDE DEF n
<1>4. /\ n - 1 \in Nat /\ n - 1 < WORD /\ n - ii[r] - 1 \in Nat /\ n - ii[r] - 1 < WORD
  BY <1>1, <1>2, <1>3
<1>5. (n - 1) % WORD = n - 1 /\ (n - ii[r] - 1) % WORD = n - ii[r] - 1
  BY Zenon, <1>3, <1>4, ModSmall
<1> QED
  BY Zenon, <1>1, <1>2, <1>5 DEF OuterBound, InnerBound, n

(* One comparison: at most two neighbours change places.                   *)
LEMMA ReaderCompare ==
  ASSUME TypeOK, TypeOK', NEW r \in Readers, ReaderInv(r), SortCompare(r)
  PROVE  ReaderInv(r)'
<1> DEFINE b == buf[r]
           d == buf'[r]
           n == Len(b)
           i == ii[r]
           j == jj[r] + 1
<1>1. /\ rpc[r] = "sort" /\ rpc'[r] = "sort" /\ jj'[r] = j
      /\ jj[r] < InnerBound(r)
      /\ d = (IF b[j].seq > b[j + 1].seq THEN [b EXCEPT ![j] = b[j + 1], ![j + 1] = b[j]] ELSE b)
      /\ UNCHANGED <<entries, head, wpc, wseq, logged, max_entries, cpu_id, total, min_seq, skip_count, seen, ii>>
  BY Zenon DEF SortCompare, ring, writer, TypeOK, ReaderType
<1>2. SeenInv(r)'
  BY Zenon, <1>1, SeenKept DEF ReaderInv, Collecting
<1>3. /\ n \in Nat /\ i \in Nat /\ i <= n - 1 /\ j <= n - i - 1
      /\ j \in 1 .. n /\ j + 1 \in 1 .. n /\ j \in Nat
  <2>1. n \in Nat /\ i \in Nat /\ jj[r] \in Nat /\ i <= n - 1 /\ jj[r] < n - i - 1
    BY Zenon, <1>1, SortBounds
  <2> HIDE DEF n, i
  <2> QED
    BY <2>1
<1>4. /\ \A k \in 1 .. n : b[k].seq \in Nat
      /\ b \in [1 .. n -> Entry]
  BY Zenon, ReaderFacts
<1>5. /\ n <= max_entries[r]
      /\ \A k \in 1 .. n : b[k].seq < Len(logged) /\ logged[b[k].seq + 1] = b[k]
      /\ \A k, l \in 1 .. n : b[k].seq = b[l].seq => k = l
      /\ \A k \in 1 .. n, l \in n - i + 1 .. n : k < l => b[k].seq < b[l].seq
      /\ \A k \in 1 .. j - 1 : b[k].seq < b[j].seq
  <2>1. jj[r] = j - 1
    <3>1. jj[r] \in Nat
      BY Zenon, ReaderFacts
    <3> QED
      BY <3>1
  <2> QED
    BY Zenon, <1>1, <2>1 DEF ReaderInv, BufInv, SortInv, Collecting
<1>6. Len(d) = n /\ DOMAIN d = 1 .. n
  <2>1. b \in Seq(Entry) /\ d \in Seq(Entry) /\ DOMAIN d = DOMAIN b
    BY Zenon, <1>1, ReaderFacts DEF TypeOK, ReaderType
  <2> QED
    BY <2>1
<1> HIDE DEF d, b, n, i, j
<1>7. \A k \in 1 .. n : k # j /\ k # j + 1 => d[k] = b[k]
  BY Zenon, <1>1, <1>3, <1>4
<1>8. \/ d[j] = b[j] /\ d[j + 1] = b[j + 1] /\ b[j].seq < b[j + 1].seq
      \/ d[j] = b[j + 1] /\ d[j + 1] = b[j] /\ b[j + 1].seq < b[j].seq
  <2>1. b[j].seq # b[j + 1].seq
    BY <1>3, <1>5
  <2>2. b[j].seq \in Nat /\ b[j + 1].seq \in Nat /\ j # j + 1
    <3>1. j # j + 1
      BY <1>3
    <3> QED
      BY Zenon, <1>3, <1>4, <3>1
  <2>3. b[j].seq < b[j + 1].seq \/ b[j].seq > b[j + 1].seq
    BY <2>1, <2>2
  <2>4. b[j].seq < b[j + 1].seq => ~(b[j].seq > b[j + 1].seq)
    BY <2>2
  <2>5. b[j].seq > b[j + 1].seq => b[j + 1].seq < b[j].seq
    BY <2>2
  <2>6. CASE b[j].seq < b[j + 1].seq
    <3>1. d = b
      BY Zenon, <1>1, <2>4, <2>6
    <3> QED
      BY Zenon, <2>6, <3>1
  <2>7. CASE b[j].seq > b[j + 1].seq
    <3>1. d = [b EXCEPT ![j] = b[j + 1], ![j + 1] = b[j]]
      BY Zenon, <1>1, <2>7
    <3>2. d[j] = b[j + 1] /\ d[j + 1] = b[j]
      BY <1>3, <1>4, <2>2, <3>1
    <3> QED
      BY Zenon, <2>5, <2>7, <3>2
  <2> QED
    BY Zenon, <2>3, <2>6, <2>7
<1>9. \A k, l \in 1 .. n : d[k].seq = d[l].seq => k = l
  <2>1. \A k \in 1 .. n : k # j /\ k # j + 1 => b[k].seq # b[j].seq /\ b[k].seq # b[j + 1].seq
    BY Zenon, <1>3, <1>5
  <2>2. b[j].seq # b[j + 1].seq
    BY <1>3, <1>5
  <2>3. \A k, l \in 1 .. n : k # j /\ k # j + 1 /\ l # j /\ l # j + 1 /\ d[k].seq = d[l].seq => k = l
    BY Zenon, <1>5, <1>7
  <2> QED
    BY Zenon, <1>3, <1>7, <1>8, <2>1, <2>2, <2>3
<1>10. \A k \in 1 .. n : d[k].seq < Len(logged) /\ logged[d[k].seq + 1] = d[k]
  <2>1. ASSUME NEW k \in 1 .. n PROVE \E l \in 1 .. n : d[k] = b[l]
    BY Zenon, <1>3, <1>7, <1>8
  <2> QED
    BY ZenonT(60), <1>5, <2>1
<1>11. \A k \in 1 .. j : d[k].seq < d[j + 1].seq
  <2>1. ASSUME NEW k \in 1 .. j - 1 PROVE d[k].seq < d[j + 1].seq
    <3>1. k \in 1 .. n /\ k # j /\ k # j + 1
      BY <1>3
    <3>2. d[k] = b[k] /\ b[k].seq < b[j].seq
      BY Zenon, <1>5, <1>7, <3>1
    <3>3. b[k].seq \in Nat /\ b[j].seq \in Nat /\ b[j + 1].seq \in Nat
      BY Zenon, <1>3, <1>4, <3>1
    <3> QED
      BY <1>8, <3>2, <3>3
  <2>2. d[j].seq < d[j + 1].seq
    BY Zenon, <1>8
  <2>3. \A k \in 1 .. j : k \in 1 .. j - 1 \/ k = j
    BY <1>3
  <2> QED
    BY Zenon, <2>1, <2>2, <2>3
<1>12. \A k \in 1 .. n, l \in n - i + 1 .. n : k < l => d[k].seq < d[l].seq
  <2> SUFFICES ASSUME NEW k \in 1 .. n, NEW l \in n - i + 1 .. n, k < l PROVE d[k].seq < d[l].seq
    BY Zenon
  <2>0. l \in 1 .. n /\ j + 1 < l /\ j < l
    BY <1>3
  <2>1. d[l] = b[l]
    BY <1>3, <1>7, <2>0
  <2>2. /\ b[j].seq < b[l].seq /\ b[j + 1].seq < b[l].seq /\ b[k].seq < b[l].seq
    BY Zenon, <1>3, <1>5, <2>0
  <2> QED
    BY Zenon, <1>3, <1>7, <1>8, <2>1, <2>2
<1>13. BufInv(r)'
  BY Zenon, <1>1, <1>5, <1>6, <1>9, <1>10 DEF BufInv, d, n
<1>14. SortInv(r)'
  <2>1. n >= 1 /\ j <= n - i - 1 /\ i <= n - 1
    BY <1>3
  <2> QED
    BY Zenon, <1>1, <1>6, <1>11, <1>12, <2>1 DEF SortInv, d, i
<1>15. CollectInv(r)'
  <2>1. d # << >>
    BY <1>3, <1>6
  <2> QED
    BY Zenon, <1>1, <2>1 DEF CollectInv, d
<1> QED
  BY Zenon, <1>2, <1>13, <1>14, <1>15 DEF ReaderInv

(* The end of a pass and the end of the sort; a wild comparison does not   *)
(* happen.                                                                 *)
LEMMA ReaderSort ==
  ASSUME TypeOK, TypeOK', NEW r \in Readers, ReaderInv(r),
         SortWild(r) \/ SortNextPass(r) \/ SortDone(r)
  PROVE  ReaderInv(r)'
<1> DEFINE b == buf[r]
           n == Len(b)
           i == ii[r]
<1>1. /\ rpc[r] = "sort"
      /\ UNCHANGED <<entries, head, wpc, wseq, logged, max_entries, cpu_id, total, min_seq, skip_count, seen, buf>>
  BY Zenon DEF SortWild, SortNextPass, SortDone, ring, writer
<1>2. /\ n \in Nat /\ n >= 1 /\ i \in Nat /\ jj[r] \in Nat /\ i <= n - 1 /\ jj[r] <= n - i - 1
      /\ OuterBound(r) = n - 1 /\ InnerBound(r) = n - i - 1
  BY Zenon, <1>1, SortBounds
<1>3. /\ \A k \in 1 .. n, l \in n - i + 1 .. n : k < l => b[k].seq < b[l].seq
      /\ \A k \in 1 .. jj[r] : b[k].seq < b[jj[r] + 1].seq
  BY Zenon, <1>1 DEF ReaderInv, SortInv
<1>4. ~SortWild(r)
  BY <1>2 DEF SortWild
<1>5. b # << >>
  BY <1>2
<1>6. CASE SortNextPass(r)
  <2>1. rpc'[r] = "sort" /\ ii'[r] = i + 1 /\ jj'[r] = 0 /\ i < n - 1 /\ jj[r] = n - i - 1
    <3>1. /\ rpc' = rpc /\ ii' = [ii EXCEPT ![r] = i + 1] /\ jj' = [jj EXCEPT ![r] = 0]
          /\ i < OuterBound(r) /\ jj[r] >= InnerBound(r)
      BY Zenon, <1>6 DEF SortNextPass
    <3>2. ii'[r] = i + 1 /\ jj'[r] = 0 /\ rpc'[r] = "sort"
      BY Zenon, <1>1, <3>1 DEF TypeOK, ReaderType
    <3>3. i < n - 1 /\ jj[r] >= n - i - 1
      BY Zenon, <1>2, <3>1
    <3> HIDE DEF n, i
    <3> QED
      BY <1>2, <3>2, <3>3
  <2>2. SeenInv(r)'
    BY Zenon, <1>1, <2>1, SeenKept DEF ReaderInv, Collecting
  <2>3. CollectInv(r)' /\ BufInv(r)'
    BY Zenon, <1>1, <1>5, <2>1 DEF ReaderInv, CollectInv, BufInv, Collecting
  <2>4. \A k \in 1 .. n, l \in n - (i + 1) + 1 .. n : k < l => b[k].seq < b[l].seq
    <3> SUFFICES ASSUME NEW k \in 1 .. n, NEW l \in n - (i + 1) + 1 .. n, k < l PROVE b[k].seq < b[l].seq
      BY Zenon
    <3>0. \A m \in 1 .. n - i - 1 : b[m].seq < b[n - i].seq
      <4>1. jj[r] + 1 = n - i
        <5> HIDE DEF b, n, i
        <5> QED
          BY <1>2, <2>1
      <4> QED
        BY Zenon, <1>3, <2>1, <4>1
    <3> HIDE DEF b, n, i
    <3>1. CASE l = n - i
      <4>1. k \in 1 .. n - i - 1
        BY <1>2, <3>1
      <4> QED
        BY Zenon, <3>0, <3>1, <4>1
    <3>2. CASE l \in n - i + 1 .. n
      BY Zenon, <1>3, <3>2
    <3> QED
      BY <1>2, <3>1, <3>2
  <2>5. SortInv(r)'
    <3>1. i + 1 <= n - 1 /\ 0 <= n - (i + 1) - 1 /\ 1 .. 0 = {}
      BY <1>2, <2>1
    <3> HIDE DEF n, i
    <3> QED
      BY Zenon, <1>1, <1>2, <2>1, <2>4, <3>1 DEF SortInv, n
  <2> QED
    BY Zenon, <2>2, <2>3, <2>5 DEF ReaderInv
<1>7. CASE SortDone(r)
  <2>0. rpc'[r] = "done" /\ i >= OuterBound(r)
    BY Zenon, <1>7 DEF SortDone, TypeOK, ReaderType
  <2>1. rpc'[r] = "done" /\ i = n - 1
    <3> HIDE DEF n, i
    <3> QED
      BY <1>2, <2>0
  <2>2. SeenInv(r)'
    BY Zenon, <2>1 DEF SeenInv, Collecting
  <2>3. CollectInv(r)' /\ BufInv(r)'
    BY Zenon, <1>1, <1>5, <2>1 DEF ReaderInv, CollectInv, BufInv, Collecting
  <2>4. \A k, l \in 1 .. n : k < l => b[k].seq < b[l].seq
    <3> HIDE DEF b, n, i
    <3>1. \A k, l \in 1 .. n : k < l => l \in n - i + 1 .. n
      BY <1>2, <2>1
    <3> QED
      BY Zenon, <1>3, <3>1
  <2>5. SortInv(r)'
    <3> HIDE DEF n
    <3> QED
      BY Zenon, <1>1, <1>2, <2>1, <2>4 DEF SortInv, n
  <2> QED
    BY Zenon, <2>2, <2>3, <2>5 DEF ReaderInv
<1> QED
  BY Zenon, <1>4, <1>6, <1>7

-----------------------------------------------------------------------------
LEMMA InitReader == ASSUME Init, NEW r \in Readers PROVE ReaderInv(r)
<1>1. rpc[r] = "idle" /\ buf[r] = << >>
  <2>1. rpc = [q \in Readers |-> "idle"] /\ buf = [q \in Readers |-> << >>]
    BY Zenon DEF Init
  <2> QED
    BY Zenon, <2>1
<1> QED
  BY Zenon, <1>1 DEF ReaderInv, SeenInv, CollectInv, BufInv, SortInv, Collecting

LEMMA NextReader ==
  ASSUME TypeOK, TypeOK', LockInv, RingsInv, NoWrap, [Next]_vars, NEW r \in Readers, ReaderInv(r)
  PROVE  ReaderInv(r)'
<1>1. CASE UNCHANGED vars
  <2>1. SameLocals(r) /\ UNCHANGED <<entries, head, writer, logged>>
    BY Zenon, <1>1 DEF vars, ring, reader, SameLocals
  <2>2. Grows
    BY Zenon, <2>1, GrowsSame
  <2> QED
    BY Zenon, <2>1, <2>2, ReaderKept DEF RingsInv
<1>2. ASSUME NEW c \in CPU, WriterStep(c) \/ \E m \in Msgs : KlogPrintf(c, m)
      PROVE  ReaderInv(r)'
  BY Zenon, <1>2, WriterKeeps
<1>3. ASSUME NEW q \in Readers, ReaderStep(q) \/ \E max \in MaxEntries : SnapshotCall(q, max)
      PROVE  ReaderInv(r)'
  <2>1. CASE q # r
    BY Zenon, <1>3, <2>1, OtherReaderKeeps
  <2>2. CASE q = r
    BY Zenon, <1>3, <2>2, ReaderCall, ReaderCount, ReaderLock, ReaderCopy, ReaderUnlock, ReaderCompare,
       ReaderSort DEF ReaderStep
  <2> QED
    BY Zenon, <2>1, <2>2
<1> QED
  BY Zenon, <1>1, <1>2, <1>3 DEF Next

(* KlogInv holds in every state of the kernel log: the lock discipline     *)
(* always, the rest until the sequence numbers wrap.                       *)
THEOREM KlogInvariant == Spec => []KlogInv
<1> DEFINE Inv == TypeOK /\ LockInv /\ (NoWrap => RingsInv /\ \A r \in Readers : ReaderInv(r))
<1>1. Init => Inv
  BY Zenon, InitType, InitLock, InitRings, InitReader
<1>2. Inv /\ [Next]_vars => Inv'
  <2> SUFFICES ASSUME Inv, [Next]_vars PROVE Inv'
    BY Zenon
  <2>1. TypeOK' /\ LockInv'
    BY Zenon, NextType, NextLock
  <2>2. ASSUME NoWrap' PROVE RingsInv' /\ \A r \in Readers : ReaderInv(r)'
    <3>1. NoWrap
      BY Zenon, <2>2, NoWrapBack
    <3> QED
      BY Zenon, <2>1, <2>2, <3>1, NextRings, NextReader
  <2> QED
    BY Zenon, <2>1, <2>2
<1>3. Inv => KlogInv
  BY Zenon DEF KlogInv, RingsInv, ReaderInv
<1> QED
  BY <1>1, <1>2, <1>3, PTL DEF Spec

(* What a reader gets from klog_snapshot is a subsequence of what was      *)
(* logged: whole entries, none twice, in order, whatever the writers do.   *)
THEOREM SnapshotCorrect == Spec => []SnapshotSound
<1>1. TypeOK /\ KlogInv => SnapshotSound
  <2> SUFFICES ASSUME TypeOK, KlogInv, NoWrap, NEW r \in Readers, rpc[r] = "done"
               PROVE  Range(buf[r]) \subseteq Range(logged) /\ Increasing(buf[r])
    BY Zenon DEF SnapshotSound
  <2>1. DOMAIN buf[r] = 1 .. Len(buf[r]) /\ DOMAIN logged = 1 .. Len(logged) /\ Len(logged) \in Nat
    BY Zenon, ReaderFacts, TypeFacts
  <2>2. ASSUME NEW j \in 1 .. Len(buf[r]) PROVE \E k \in 1 .. Len(logged) : logged[k] = buf[r][j]
    <3>1. buf[r][j].seq < Len(logged) /\ logged[buf[r][j].seq + 1] = buf[r][j]
      BY Zenon DEF KlogInv, BufInv
    <3>2. buf[r][j].seq \in Nat
      BY Zenon, ReaderFacts
    <3>3. buf[r][j].seq + 1 \in 1 .. Len(logged)
      BY <2>1, <3>1, <3>2
    <3> QED
      BY Zenon, <3>1, <3>3
  <2>3. Increasing(buf[r])
    BY Zenon, <2>1 DEF KlogInv, SortInv, Increasing
  <2> QED
    BY Zenon, <2>1, <2>2, <2>3 DEF Range
<1> QED
  BY <1>1, TypeCorrect, KlogInvariant, PTL

(* The sort of klog_snapshot, whose bounds are unsigned, never runs on an  *)
(* empty buffer: without klog_clear the second pass always copies one      *)
(* entry at least.                                                         *)
THEOREM SortSafe == Spec => []SortInBounds
<1>1. KlogInv => SortInBounds
  BY Zenon DEF KlogInv, CollectInv, SortInBounds
<1> QED
  BY <1>1, KlogInvariant, PTL
=============================================================================
