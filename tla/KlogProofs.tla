----------------------------- MODULE KlogProofs -----------------------------
(***************************************************************************)
(* Proofs about the kernel log (Klog), for every number of CPUs, every     *)
(* ring size and every set of readers.                                     *)
(***************************************************************************)
EXTENDS KlogInv, WellFoundedInduction, TLAPS

(* The provers a leaf without a pragma is given to. *)
USE SMTT(20), ZenonT(20), Z3T(60)

LEMMA ModRange ==
  ASSUME NEW a \in Int, NEW n \in Nat \ {0}
  PROVE  a % n \in 0 .. n - 1
OBVIOUS

LEMMA ModSmall ==
  ASSUME NEW a \in Nat, NEW n \in Nat \ {0}, a < n
  PROVE  a % n = a
OBVIOUS

LEMMA ModLeq ==
  ASSUME NEW a \in Nat, NEW n \in Nat \ {0}
  PROVE  a % n <= a
OBVIOUS

LEMMA ModDistinct ==
  ASSUME NEW a \in Nat, NEW b \in Nat, NEW n \in Nat \ {0}, a < b, b < a + n
  PROVE  a % n # b % n
<1> DEFINE p == a \div n
           q == b \div n
<1>1. p \in Int /\ q \in Int
  OBVIOUS
<1>2. a = n * p + (a % n) /\ b = n * q + (b % n)
  OBVIOUS
<1>3. a % n = b % n => b - a = n * (q - p)
  BY <1>1, <1>2
<1>4. q - p <= 0 => n * (q - p) <= 0
  BY <1>1
<1>5. q - p >= 1 => n * (q - p) >= n
  BY <1>1
<1> QED
  BY <1>1, <1>3, <1>4, <1>5

LEMMA SlotMod == \A a \in Int : a % KLOG_BUF_SIZE \in Slot
  BY Zenon, KlogAssumption, ModRange DEF Slot

LEMMA WordMod == \A a \in Int : a % WORD \in UInt
  BY Zenon, KlogAssumption, ModRange DEF UInt

(* A nonempty set of natural numbers has a least element, which Min returns. *)
LEMMA MinProperties ==
  ASSUME NEW S, S \subseteq Nat, S # {}
  PROVE  Min(S) \in S /\ \A y \in S : Min(S) <= y
<1> DEFINE R == {ss \in Nat \X Nat : ss[1] < ss[2]}
<1>1. IsWellFoundedOn(R, Nat)
  <2>1. R = OpToRel(<, Nat)
    BY Zenon DEF OpToRel
  <2> QED
    BY <2>1, NatLessThanWellFounded, Zenon
<1>2. PICK x \in S : \A y \in S : ~ (<<y, x>> \in R)
  <2> HIDE DEF R
  <2> QED
    BY <1>1, WFMin, Zenon
<1>3. ASSUME NEW y \in S PROVE x <= y
  <2>1. x \in Nat /\ y \in Nat
    OBVIOUS
  <2>2. <<y, x>> \in Nat \X Nat => ~(y < x)
    BY Zenon, <1>2
  <2> QED
    BY <2>1, <2>2
<1> QED
  BY Zenon, <1>3 DEF Min

LEMMA InitType == Init => TypeOK
  BY KlogAssumption DEF Init, TypeOK, SharedType, WriterType, ReaderType, CPU, Slot, UInt, Entry

(* Every step keeps every variable in its type. *)
LEMMA NextType == TypeOK /\ [Next]_vars => TypeOK'
<1> SUFFICES ASSUME TypeOK, [Next]_vars PROVE TypeOK'
  OBVIOUS
<1> USE KlogAssumption DEF TypeOK, ring, seqs, writer, reader
<1>1. ASSUME NEW c \in CPU, NEW m \in Msgs, KlogPrintf(c, m) PROVE TypeOK'
  <2>1. 0 \in UInt
    BY DEF UInt
  <2> QED
    BY Zenon, <1>1, <2>1 DEF KlogPrintf, SharedType, WriterType, ReaderType
<1>2. ASSUME NEW c \in CPU, AcquireLog(c) PROVE TypeOK'
  BY Zenon, <1>2 DEF AcquireLog, SharedType, WriterType, ReaderType
<1>3. ASSUME NEW c \in CPU, NextSeqRead(c) PROVE TypeOK'
  BY Zenon, <1>3 DEF NextSeqRead, SharedType, WriterType, ReaderType
<1>4. ASSUME NEW c \in CPU, NextSeqWrite(c) PROVE TypeOK'
  <2>0. head[c] \in Int /\ wseq[c] + 1 \in Int
    BY DEF SharedType, WriterType, UInt
  <2>1. head[c] % KLOG_BUF_SIZE \in Slot /\ (wseq[c] + 1) % WORD \in UInt
    BY Zenon, <2>0, SlotMod, WordMod
  <2>2. entries[c][head[c] % KLOG_BUF_SIZE] \in Entry
    BY <2>1 DEF SharedType
  <2>3. SharedType'
    <3> DEFINE k == head[c] % KLOG_BUF_SIZE
               e == [seq |-> wseq[c], cpu |-> entries[c][k].cpu, msg |-> entries[c][k].msg]
               l == [seq |-> wseq[c], cpu |-> c, msg |-> wmsg[c]]
    <3>1. e \in Entry /\ l \in Entry
      BY Zenon, <2>2 DEF WriterType, Entry
    <3>2. /\ entries' = [entries EXCEPT ![c] = [@ EXCEPT ![k] = e]] /\ logged' = Append(logged, l)
          /\ seq_lock' = Free /\ global_seq' = (wseq[c] + 1) % WORD /\ UNCHANGED <<lock, head>>
      BY Zenon, <1>4 DEF NextSeqWrite, StoreEntry
    <3> HIDE DEF k, e, l
    <3>3. entries' \in [CPU -> [Slot -> Entry]]
      BY Zenon, <2>1, <3>1, <3>2 DEF SharedType, k
    <3>4. logged' \in Seq(Entry)
      BY <3>1, <3>2 DEF SharedType
    <3> QED
      BY Zenon, <2>1, <3>2, <3>3, <3>4 DEF SharedType
  <2> QED
    BY Zenon, <1>4, <2>3 DEF NextSeqWrite, WriterType, ReaderType
<1>5. ASSUME NEW c \in CPU, FillEntry(c) PROVE TypeOK'
  <2>1. head[c] % KLOG_BUF_SIZE \in Slot
    BY SlotMod DEF SharedType, UInt
  <2>2. entries[c][head[c] % KLOG_BUF_SIZE] \in Entry
    BY <2>1 DEF SharedType
  <2>3. SharedType'
    <3> DEFINE k == head[c] % KLOG_BUF_SIZE
               e == [seq |-> entries[c][k].seq, cpu |-> c, msg |-> wmsg[c]]
    <3>1. e \in Entry
      BY Zenon, <2>2 DEF WriterType, Entry
    <3>2. entries' = [entries EXCEPT ![c] = [@ EXCEPT ![k] = e]] /\ UNCHANGED <<lock, head, seqs, logged>>
      BY Zenon, <1>5 DEF FillEntry, StoreEntry
    <3> HIDE DEF k, e
    <3>3. entries' \in [CPU -> [Slot -> Entry]]
      BY Zenon, <2>1, <3>1, <3>2 DEF SharedType, k
    <3> QED
      BY Zenon, <3>2, <3>3 DEF SharedType
  <2> QED
    BY Zenon, <1>5, <2>3 DEF FillEntry, WriterType, ReaderType
<1>6. ASSUME NEW c \in CPU, Publish(c) PROVE TypeOK'
  <2>0. head[c] + 1 \in Int
    BY DEF SharedType, UInt
  <2>1. (head[c] + 1) % WORD \in UInt
    BY Zenon, <2>0, WordMod
  <2> QED
    BY Zenon, <1>6, <2>1 DEF Publish, SharedType, WriterType, ReaderType
<1>7. ASSUME NEW r \in Readers, NEW max \in MaxEntries, SnapshotCall(r, max) PROVE TypeOK'
  <2>1. 0 \in CPU /\ WORD - 1 \in UInt /\ head \in [CPU -> UInt]
    BY DEF CPU, UInt, SharedType
  <2>2. 0 \in Nat /\ << >> \in Seq(Entry) /\ {} \in SUBSET UInt
    OBVIOUS
  <2> QED
    BY Zenon, <1>7, <2>1, <2>2 DEF SnapshotCall, Locals, SharedType, WriterType, ReaderType
<1>8. ASSUME NEW r \in Readers, CountRing(r) PROVE TypeOK'
  <2>1. cpu_id[r] \in CPU /\ Retained(cpu_id[r]) \in Nat
    BY DEF ReaderType, SharedType, Retained, UInt
  <2>2. RingSeqs(cpu_id[r]) \subseteq UInt
    <3>1. ASSUME NEW k \in 0 .. Retained(cpu_id[r]) - 1 PROVE k \in Slot
      BY <2>1 DEF Retained, Slot, SharedType, UInt
    <3> QED
      BY <2>1, <3>1 DEF RingSeqs, SharedType, Entry
  <2>3. Min(RingSeqs(cpu_id[r]) \cup {min_seq[r]}) \in UInt
    <3> DEFINE S == RingSeqs(cpu_id[r]) \cup {min_seq[r]}
    <3>1. S \subseteq UInt /\ S # {} /\ UInt \subseteq Nat
      BY <2>2 DEF ReaderType, UInt
    <3>2. Min(S) \in S
      <4> HIDE DEF S
      <4> QED
        BY <3>1, MinProperties, Zenon
    <3> QED
      BY Zenon, <3>1, <3>2
  <2>4. SharedType' /\ WriterType'
    BY Zenon, <1>8 DEF CountRing, SharedType, WriterType
  <2>5. seen' \in [Readers -> SUBSET UInt] /\ min_seq' \in [Readers -> UInt]
    BY Zenon, <1>8, <2>2, <2>3 DEF CountRing, ReaderType
  <2>6. total' \in [Readers -> Nat] /\ skip_count' \in [Readers -> Nat]
    <3>1. max_entries[r] \in Nat /\ total[r] \in Nat
      <4>1. MaxEntries \cup {0} \subseteq Nat
        OBVIOUS
      <4> QED
        BY Zenon, <4>1 DEF ReaderType
    <3> QED
      <4> DEFINE c == cpu_id[r]
                 sum == total[r] + Retained(c)
                 skip == IF c = NCPU - 1 /\ sum > max_entries[r] THEN sum - max_entries[r] ELSE 0
      <4>1. total' = [total EXCEPT ![r] = sum] /\ skip_count' = [skip_count EXCEPT ![r] = skip]
        BY Zenon, <1>8 DEF CountRing
      <4>2. sum \in Nat /\ skip \in Nat
        BY <2>1, <3>1
      <4> HIDE DEF sum, skip
      <4> QED
        BY Zenon, <4>1, <4>2 DEF ReaderType
  <2>7. cpu_id' \in [Readers -> CPU]
    <3>1. cpu_id \in [Readers -> CPU] /\ cpu_id' = [cpu_id EXCEPT ![r] = IF @ = NCPU - 1 THEN 0 ELSE @ + 1]
      BY Zenon, <1>8 DEF CountRing, NextRing, ReaderType
    <3>2. (IF cpu_id[r] = NCPU - 1 THEN 0 ELSE cpu_id[r] + 1) \in CPU
      BY <2>1 DEF CPU
    <3> QED
      BY Zenon, <3>1, <3>2
  <2>8. rpc' \in [Readers -> {"idle", "count", "lock", "copy", "sort", "done", "wild"}]
    BY Zenon, <1>8 DEF CountRing, NextRing, ReaderType
  <2>9. UNCHANGED <<max_entries, ii, jj, buf, from>>
    BY Zenon, <1>8 DEF CountRing
  <2> QED
    BY Zenon, <2>4, <2>5, <2>6, <2>7, <2>8, <2>9 DEF ReaderType
<1>9. ASSUME NEW r \in Readers, LockRing(r) PROVE TypeOK'
  <2>1. cpu_id[r] \in CPU /\ head[cpu_id[r]] - Retained(cpu_id[r]) \in Nat
    BY DEF ReaderType, SharedType, Retained, UInt
  <2> QED
    BY Zenon, <1>9, <2>1 DEF LockRing, SharedType, WriterType, ReaderType
<1>10. ASSUME NEW r \in Readers, CopyEntry(r) PROVE TypeOK'
  <2>1. ii[r] % KLOG_BUF_SIZE \in Slot
    BY SlotMod DEF ReaderType
  <2>2. entries[cpu_id[r]][ii[r] % KLOG_BUF_SIZE] \in Entry
    BY <2>1 DEF SharedType, ReaderType
  <2>3. SharedType' /\ WriterType'
    BY Zenon, <1>10 DEF CopyEntry, SharedType, WriterType
  <2> DEFINE e == entries[cpu_id[r]][ii[r] % KLOG_BUF_SIZE]
             b == IF e.seq >= Threshold(r) THEN Append(buf[r], e) ELSE buf[r]
  <2>4. /\ buf' = [buf EXCEPT ![r] = b] /\ ii' = [ii EXCEPT ![r] = ii[r] + 1]
        /\ UNCHANGED <<rpc, max_entries, cpu_id, total, min_seq, skip_count, jj, seen, from>>
    BY Zenon, <1>10 DEF CopyEntry
  <2>5. buf[r] \in Seq(Entry) /\ ii[r] \in Nat
    BY Zenon DEF ReaderType
  <2>6. b \in Seq(Entry) /\ ii[r] + 1 \in Nat
    BY <2>2, <2>5
  <2> HIDE DEF b
  <2> QED
    BY Zenon, <2>3, <2>4, <2>6 DEF ReaderType
<1>11. ASSUME NEW r \in Readers, UnlockRing(r) PROVE TypeOK'
  <2>1. SharedType' /\ WriterType'
    BY Zenon, <1>11 DEF UnlockRing, SharedType, WriterType
  <2>2. cpu_id' \in [Readers -> CPU]
    <3>1. /\ cpu_id \in [Readers -> CPU]
          /\ cpu_id' = [cpu_id EXCEPT ![r] = IF @ = NCPU - 1 THEN 0 ELSE @ + 1]
      BY Zenon, <1>11 DEF UnlockRing, NextRing, ReaderType
    <3>2. (IF cpu_id[r] = NCPU - 1 THEN 0 ELSE cpu_id[r] + 1) \in CPU
      BY <3>1 DEF CPU
    <3> QED
      BY Zenon, <3>1, <3>2
  <2>3. rpc' \in [Readers -> {"idle", "count", "lock", "copy", "sort", "done", "wild"}]
    BY Zenon, <1>11 DEF UnlockRing, NextRing, ReaderType
  <2>4. ii' \in [Readers -> Nat] /\ jj' \in [Readers -> Nat]
    BY Zenon, <1>11, 0 \in Nat DEF UnlockRing, ReaderType
  <2>5. UNCHANGED <<max_entries, total, min_seq, skip_count, buf, seen, from>>
    BY Zenon, <1>11 DEF UnlockRing
  <2> QED
    BY Zenon, <2>1, <2>2, <2>3, <2>4, <2>5 DEF ReaderType
<1>12. ASSUME NEW r \in Readers, SortCompare(r) PROVE TypeOK'
  <2>1. SharedType' /\ WriterType'
    BY Zenon, <1>12 DEF SortCompare, SharedType, WriterType
  <2> DEFINE b == buf[r]
             j == jj[r] + 1
             nb == IF b[j].seq > b[j + 1].seq
                   THEN [b EXCEPT ![j] = b[j + 1], ![j + 1] = b[j]] ELSE b
  <2>2. b \in Seq(Entry) /\ j \in Nat /\ j >= 1
    BY DEF ReaderType
  <2>3. nb \in Seq(Entry)
    <3>1. j < Len(b)
      BY Zenon, <1>12 DEF SortCompare
    <3> QED
      BY <2>2, <3>1
  <2>4. buf' = [buf EXCEPT ![r] = nb] /\ jj' = [jj EXCEPT ![r] = j]
    BY Zenon, <1>12 DEF SortCompare
  <2> HIDE DEF nb, j
  <2>5. buf' \in [Readers -> Seq(Entry)] /\ jj' \in [Readers -> Nat]
    BY <2>2, <2>3, <2>4 DEF ReaderType
  <2> QED
    BY Zenon, <1>12, <2>1, <2>5 DEF SortCompare, ReaderType
<1>13. ASSUME NEW r \in Readers, SortWild(r) PROVE TypeOK'
  BY Zenon, <1>13 DEF SortWild, SharedType, WriterType, ReaderType
<1>14. ASSUME NEW r \in Readers, SortNextPass(r) PROVE TypeOK'
  <2>1. ii[r] + 1 \in Nat /\ 0 \in Nat
    BY DEF ReaderType
  <2> QED
    BY Zenon, <1>14, <2>1 DEF SortNextPass, SharedType, WriterType, ReaderType
<1>15. ASSUME NEW r \in Readers, SortDone(r) PROVE TypeOK'
  BY Zenon, <1>15 DEF SortDone, SharedType, WriterType, ReaderType
<1>16. ASSUME NEW r \in Readers, SnapshotReturn(r) PROVE TypeOK'
  <2>1. 0 \in CPU /\ 0 \in UInt
    BY DEF CPU, UInt
  <2>2. 0 \in Nat /\ << >> \in Seq(Entry) /\ {} \in SUBSET UInt /\ [c \in CPU |-> 0] \in [CPU -> UInt]
    BY <2>1
  <2> QED
    BY Zenon, <1>16, <2>1, <2>2 DEF SnapshotReturn, Locals, SharedType, WriterType, ReaderType
<1>17. CASE UNCHANGED vars
  BY Zenon, <1>17 DEF vars, SharedType, WriterType, ReaderType
<1> QED
  BY Zenon, <1>1, <1>2, <1>3, <1>4, <1>5, <1>6, <1>7, <1>8, <1>9, <1>10, <1>11, <1>12,
     <1>13, <1>14, <1>15, <1>16, <1>17 DEF Next, WriterStep, ReaderStep

(* TypeOK holds in every state: no index, counter or buffer of klog.c      *)
(* leaves its range, whatever the interleaving.                            *)
THEOREM TypeCorrect == Spec => []TypeOK
  BY InitType, NextType, PTL DEF Spec

-----------------------------------------------------------------------------
(* The locks: a holder is a writer of that CPU or a reader of that ring. *)
LEMMA Holders ==
  /\ \A c \in CPU : c # Free /\ c \notin Readers
  /\ \A r \in Readers : r # Free /\ r \notin CPU
  BY KlogAssumption

LEMMA InitLock == Init => LockInv
  BY Holders DEF Init, LockInv

LEMMA NextLock == TypeOK /\ LockInv /\ [Next]_vars => LockInv'
<1> SUFFICES ASSUME TypeOK, LockInv, [Next]_vars PROVE LockInv'
  BY Zenon
<1>0. /\ lock = [c \in CPU |-> lock[c]] /\ wpc = [c \in CPU |-> wpc[c]]
      /\ rpc = [r \in Readers |-> rpc[r]] /\ cpu_id \in [Readers -> CPU]
  BY Zenon DEF TypeOK, SharedType, WriterType, ReaderType
<1>00. CASE UNCHANGED <<lock, seq_lock, wpc, rpc, cpu_id>>
  BY <1>00 DEF LockInv
<1> USE DEF ring, seqs, writer, reader
<1>1. ASSUME NEW c \in CPU, NEW m \in Msgs, KlogPrintf(c, m) PROVE LockInv'
  <2>1. wpc[c] = "idle" /\ wpc' = [wpc EXCEPT ![c] = "acquire"] /\ UNCHANGED <<lock, seq_lock, rpc, cpu_id>>
    BY Zenon, <1>0, <1>1 DEF KlogPrintf
  <2> QED
    BY <1>0, <2>1, Holders DEF LockInv
<1>2. ASSUME NEW c \in CPU, AcquireLog(c) PROVE LockInv'
  <2>1. /\ wpc[c] = "acquire" /\ lock[c] = Free /\ lock' = [lock EXCEPT ![c] = c]
        /\ wpc' = [wpc EXCEPT ![c] = "seq"] /\ UNCHANGED <<seq_lock, rpc, cpu_id>>
    BY Zenon, <1>0, <1>2 DEF AcquireLog
  <2> QED
    BY <1>0, <2>1, Holders DEF LockInv
<1>3. ASSUME NEW c \in CPU, NextSeqRead(c) PROVE LockInv'
  <2>1. /\ wpc[c] = "seq" /\ seq_lock = Free /\ seq_lock' = c
        /\ wpc' = [wpc EXCEPT ![c] = "seq_write"] /\ UNCHANGED <<lock, rpc, cpu_id>>
    BY Zenon, <1>0, <1>3 DEF NextSeqRead
  <2> QED
    BY <1>0, <2>1, Holders DEF LockInv
<1>4. ASSUME NEW c \in CPU, NextSeqWrite(c) PROVE LockInv'
  <2>1. /\ wpc[c] = "seq_write" /\ seq_lock' = Free
        /\ wpc' = [wpc EXCEPT ![c] = "fill"] /\ UNCHANGED <<lock, rpc, cpu_id>>
    BY Zenon, <1>0, <1>4 DEF NextSeqWrite
  <2> QED
    BY <1>0, <2>1, Holders DEF LockInv
<1>5. ASSUME NEW c \in CPU, FillEntry(c) PROVE LockInv'
  <2>1. wpc[c] = "fill" /\ wpc' = [wpc EXCEPT ![c] = "publish"] /\ UNCHANGED <<lock, seq_lock, rpc, cpu_id>>
    BY Zenon, <1>0, <1>5 DEF FillEntry
  <2> QED
    BY <1>0, <2>1, Holders DEF LockInv
<1>6. ASSUME NEW c \in CPU, Publish(c) PROVE LockInv'
  <2>1. /\ wpc[c] = "publish" /\ lock' = [lock EXCEPT ![c] = Free]
        /\ wpc' = [wpc EXCEPT ![c] = "idle"] /\ UNCHANGED <<seq_lock, rpc, cpu_id>>
    BY Zenon, <1>0, <1>6 DEF Publish
  <2> QED
    BY <1>0, <2>1, Holders DEF LockInv
<1>7. ASSUME NEW r \in Readers, NEW max \in MaxEntries, SnapshotCall(r, max) PROVE LockInv'
  <2>1. /\ rpc[r] = "idle" /\ rpc' = [rpc EXCEPT ![r] = "count"]
        /\ cpu_id' = [cpu_id EXCEPT ![r] = 0] /\ UNCHANGED <<lock, seq_lock, wpc>>
    BY Zenon, <1>0, <1>7 DEF SnapshotCall, Locals
  <2> QED
    BY <1>0, <2>1, Holders DEF LockInv
<1>8. ASSUME NEW r \in Readers, CountRing(r) PROVE LockInv'
  <2>1. /\ rpc[r] = "count" /\ rpc'[r] \in {"count", "lock"} /\ UNCHANGED <<lock, seq_lock, wpc>>
        /\ \A q \in Readers : q # r => rpc'[q] = rpc[q] /\ cpu_id'[q] = cpu_id[q]
    BY Zenon, <1>0, <1>8 DEF CountRing, NextRing
  <2> QED
    BY <1>0, <2>1, Holders DEF LockInv
<1>9. ASSUME NEW r \in Readers, LockRing(r) PROVE LockInv'
  <2>1. /\ rpc[r] = "lock" /\ lock[cpu_id[r]] = Free /\ lock' = [lock EXCEPT ![cpu_id[r]] = r]
        /\ rpc' = [rpc EXCEPT ![r] = "copy"] /\ UNCHANGED <<seq_lock, wpc, cpu_id>>
    BY Zenon, <1>0, <1>9 DEF LockRing
  <2> QED
    BY <1>0, <2>1, Holders DEF LockInv
<1>10. ASSUME NEW r \in Readers, CopyEntry(r) PROVE LockInv'
  BY Zenon, <1>00, <1>10 DEF CopyEntry
<1>11. ASSUME NEW r \in Readers, UnlockRing(r) PROVE LockInv'
  <2>1. /\ rpc[r] = "copy" /\ rpc'[r] \in {"lock", "sort"} /\ UNCHANGED <<seq_lock, wpc>>
        /\ lock' = [lock EXCEPT ![cpu_id[r]] = Free]
        /\ \A q \in Readers : q # r => rpc'[q] = rpc[q] /\ cpu_id'[q] = cpu_id[q]
    BY Zenon, <1>0, <1>11 DEF UnlockRing, NextRing
  <2> QED
    BY <1>0, <2>1, Holders DEF LockInv
<1>12. ASSUME NEW r \in Readers, SortCompare(r) PROVE LockInv'
  BY Zenon, <1>00, <1>12 DEF SortCompare
<1>13. ASSUME NEW r \in Readers, SortWild(r) PROVE LockInv'
  <2>1. rpc[r] = "sort" /\ rpc' = [rpc EXCEPT ![r] = "wild"] /\ UNCHANGED <<lock, seq_lock, wpc, cpu_id>>
    BY Zenon, <1>0, <1>13 DEF SortWild
  <2> QED
    BY <1>0, <2>1, Holders DEF LockInv
<1>14. ASSUME NEW r \in Readers, SortNextPass(r) PROVE LockInv'
  BY Zenon, <1>00, <1>14 DEF SortNextPass
<1>15. ASSUME NEW r \in Readers, SortDone(r) PROVE LockInv'
  <2>1. rpc[r] = "sort" /\ rpc' = [rpc EXCEPT ![r] = "done"] /\ UNCHANGED <<lock, seq_lock, wpc, cpu_id>>
    BY Zenon, <1>0, <1>15 DEF SortDone
  <2> QED
    BY <1>0, <2>1, Holders DEF LockInv
<1>16. ASSUME NEW r \in Readers, SnapshotReturn(r) PROVE LockInv'
  <2>1. /\ rpc[r] = "done" /\ rpc' = [rpc EXCEPT ![r] = "idle"]
        /\ cpu_id' = [cpu_id EXCEPT ![r] = 0] /\ UNCHANGED <<lock, seq_lock, wpc>>
    BY Zenon, <1>0, <1>16 DEF SnapshotReturn, Locals
  <2> QED
    BY <1>0, <2>1, Holders DEF LockInv
<1>17. CASE UNCHANGED vars
  BY Zenon, <1>00, <1>17 DEF vars
<1> QED
  BY Zenon, <1>1, <1>2, <1>3, <1>4, <1>5, <1>6, <1>7, <1>8, <1>9, <1>10, <1>11, <1>12,
     <1>13, <1>14, <1>15, <1>16, <1>17 DEF Next, WriterStep, ReaderStep

-----------------------------------------------------------------------------
(* The part of KlogInv that is about the writers and the rings, which no   *)
(* reader changes, is an invariant of the kernel log.                      *)
RingsInv ==
  /\ SeqInv /\ BootInv
  /\ \A c \in CPU : StoringInv(c) /\ RingInv(c)

LEMMA TypeFacts ==
  ASSUME TypeOK
  PROVE  /\ KLOG_BUF_SIZE \in Nat /\ KLOG_BUF_SIZE >= 1 /\ WORD \in Nat /\ NCPU \in Nat
         /\ Len(logged) \in Nat /\ logged \in [1 .. Len(logged) -> Entry]
         /\ \A i \in 1 .. Len(logged) : logged[i].seq \in Nat /\ logged[i].cpu \in CPU
         /\ \A c \in CPU : c \in Nat /\ head[c] \in Nat /\ wseq[c] \in Nat
         /\ \A c \in CPU : head[c] % KLOG_BUF_SIZE \in Slot
         /\ \A c \in CPU, k \in Slot : entries[c][k] \in Entry /\ entries[c][k].seq \in Nat
<1> USE KlogAssumption
<1>1. \A c \in CPU : c \in Nat /\ head[c] \in Nat /\ wseq[c] \in Nat
  BY DEF TypeOK, SharedType, WriterType, CPU, UInt
<1>2. \A c \in CPU : head[c] % KLOG_BUF_SIZE \in Slot
  BY <1>1, SlotMod
<1>3. \A c \in CPU, k \in Slot : entries[c][k] \in Entry
  BY DEF TypeOK, SharedType
<1>4. \A e \in Entry : e.seq \in Nat /\ e.cpu \in CPU
  BY DEF Entry, UInt
<1>5. Len(logged) \in Nat /\ logged \in [1 .. Len(logged) -> Entry]
  BY DEF TypeOK, SharedType
<1> QED
  BY <1>1, <1>2, <1>3, <1>4, <1>5

(* No step of a reader changes what the rings' invariant is about.         *)
LEMMA ReaderFrame ==
  ASSUME NEW r \in Readers,
         ReaderStep(r) \/ \E max \in MaxEntries : SnapshotCall(r, max)
  PROVE  UNCHANGED <<entries, head, global_seq, writer, logged>>
  BY Zenon DEF ReaderStep, SnapshotCall, CountRing, LockRing, CopyEntry, UnlockRing, SortCompare,
         SortWild, SortNextPass, SortDone, SnapshotReturn, ring, seqs

(* A step that leaves the settled entries of a ring alone keeps RingInv.   *)
LEMMA RingKept ==
  ASSUME NEW c \in CPU, RingInv(c), UNCHANGED logged, Storing(c)' = Storing(c),
         Settled(c)' = Settled(c), Live(c)' = Live(c), Storing(c) \/ Newest(c)' = Newest(c),
         head'[c] = head[c], Storing(c) => wseq'[c] = wseq[c],
         \A k \in Settled(c) : entries'[c][k] = entries[c][k],
         \A i \in Live(c) : entries'[c][i % KLOG_BUF_SIZE] = entries[c][i % KLOG_BUF_SIZE]
  PROVE  RingInv(c)'
<1>1. head'[c] <= Len(logged')
  BY Zenon DEF RingInv
<1>2. \A k \in Settled(c)' : /\ entries'[c][k].seq < Len(logged') /\ entries'[c][k].cpu = c
                             /\ logged'[entries'[c][k].seq + 1] = entries'[c][k]
  BY Zenon DEF RingInv
<1>3. ASSUME NEW k \in Settled(c), NEW l \in Settled(c), entries'[c][k].seq = entries'[c][l].seq
      PROVE  k = l
  <2>1. entries[c][k].seq = entries[c][l].seq
    BY Zenon, <1>3
  <2> QED
    BY Zenon, <2>1 DEF RingInv
<1>4. ~Storing(c)' => \A k \in Settled(c)' : entries'[c][k].seq <= Newest(c)'
  BY Zenon DEF RingInv
<1>5. Storing(c)' => \A k \in Settled(c)' : entries'[c][k].seq < wseq'[c]
  BY Zenon DEF RingInv
<1>6. \A i, j \in Live(c)' : i < j =>
        entries'[c][i % KLOG_BUF_SIZE].seq < entries'[c][j % KLOG_BUF_SIZE].seq
  BY Zenon DEF RingInv
<1> QED
  BY Zenon, <1>1, <1>2, <1>3, <1>4, <1>5, <1>6 DEF RingInv

LEMMA RingsFrame ==
  ASSUME RingsInv, UNCHANGED <<entries, head, global_seq, writer, logged>>
  PROVE  RingsInv'
<1>1. SeqInv' /\ BootInv'
  BY Zenon DEF RingsInv, SeqInv, BootInv, writer
<1>2. ASSUME NEW c \in CPU PROVE StoringInv(c)' /\ RingInv(c)'
  <2>1. Storing(c)' = Storing(c) /\ Newest(c)' = Newest(c)
    BY Zenon DEF Storing, Newest, writer
  <2>2. Settled(c)' = Settled(c) /\ Live(c)' = Live(c)
    BY Zenon, <2>1 DEF Settled, Used, Live
  <2>3. StoringInv(c)'
    BY Zenon, <2>1 DEF RingsInv, StoringInv, writer
  <2>4. RingInv(c)'
    <3>1. RingInv(c) /\ head'[c] = head[c] /\ wseq'[c] = wseq[c] /\ entries'[c] = entries[c]
      BY Zenon DEF RingsInv, writer
    <3> QED
      BY Zenon, <2>1, <2>2, <3>1, RingKept
  <2> QED
    BY Zenon, <2>3, <2>4
<1> QED
  BY Zenon, <1>1, <1>2 DEF RingsInv

LEMMA InitRings == Init => RingsInv
<1> SUFFICES ASSUME Init PROVE RingsInv
  BY Zenon
<1> USE KlogAssumption
<1>1. PICK b \in CPU, m \in Msgs : Init!(b, m)
  BY Zenon DEF Init
<1> DEFINE boot == [seq |-> 0, cpu |-> b, msg |-> m]
<1>2. logged = << boot >> /\ Len(logged) = 1 /\ logged[1] = boot
  BY Zenon, <1>1
<1>3. \A c \in CPU : ~Storing(c) /\ wpc[c] = "idle"
  BY Zenon, <1>1 DEF Storing
<1>4. \A c \in CPU : head[c] = (IF c = b THEN 1 ELSE 0)
  BY Zenon, <1>1
<1>5. SeqInv /\ BootInv
  BY <1>1, <1>2, <1>3, <1>4 DEF SeqInv, BootInv
<1>6. ASSUME NEW c \in CPU PROVE StoringInv(c)
  BY Zenon, <1>3 DEF StoringInv
<1>7. ASSUME NEW c \in CPU PROVE RingInv(c)
  <2>1. Settled(c) = IF c = b THEN {0} ELSE {}
    BY <1>3, <1>4 DEF Settled, Used, Slot
  <2>2. 0 \in Slot /\ c = b => entries[c][0] = boot
    BY Zenon, <1>1
  <2>3. Live(c) \subseteq 0 .. head[c] - 1
    BY Zenon DEF Live
  <2>4. c = b => Newest(c) = 0
    BY <1>4, <2>2, ModSmall DEF Newest, Slot
  <2>5. head[c] <= Len(logged)
    BY <1>2, <1>4
  <2>6. ASSUME NEW k \in Settled(c)
        PROVE  /\ k = 0 /\ entries[c][k].seq < Len(logged) /\ entries[c][k].cpu = c
               /\ logged[entries[c][k].seq + 1] = entries[c][k] /\ entries[c][k].seq <= Newest(c)
    <3>1. k = 0 /\ c = b /\ entries[c][k] = boot /\ 0 \in Slot
      <4>1. 0 \in Slot
        BY DEF Slot
      <4> QED
        BY Zenon, <2>1, <2>2, <2>6, <4>1
    <3>2. boot.seq = 0 /\ boot.cpu = b
      OBVIOUS
    <3> HIDE DEF boot
    <3>3. entries[c][k].seq = 0 /\ entries[c][k].cpu = c /\ Newest(c) = 0 /\ logged[1] = entries[c][k]
      BY Zenon, <1>2, <2>4, <3>1, <3>2
    <3> QED
      BY <1>2, <3>1, <3>3
  <2>7. \A i, j \in Live(c) : ~(i < j)
    <3>1. 0 .. head[c] - 1 \subseteq {0}
      BY <1>4
    <3> QED
      BY <2>3, <3>1
  <2> QED
    BY Zenon, <1>3, <2>5, <2>6, <2>7 DEF RingInv
<1> QED
  BY Zenon, <1>5, <1>6, <1>7 DEF RingsInv

(* A step of a writer outside of the stores to the ring: the rings and the *)
(* history are unchanged.                                                  *)
LEMMA RingsOutside ==
  ASSUME TypeOK, LockInv, RingsInv, NEW c0 \in CPU,
         (\E m \in Msgs : KlogPrintf(c0, m)) \/ AcquireLog(c0) \/ NextSeqRead(c0)
  PROVE  RingsInv'
<1>1. UNCHANGED <<entries, head, global_seq, logged>>
  BY Zenon DEF KlogPrintf, AcquireLog, NextSeqRead, ring, seqs
<1>2. /\ \A c \in CPU : Storing(c)' = Storing(c)
      /\ \A c \in CPU : Storing(c) => c # c0 /\ wseq'[c] = wseq[c] /\ wmsg'[c] = wmsg[c] /\ wpc'[c] = wpc[c]
  <2>1. ~Storing(c0) /\ ~Storing(c0)'
    BY Zenon DEF KlogPrintf, AcquireLog, NextSeqRead, Storing, TypeOK, WriterType
  <2>2. \A c \in CPU : c # c0 => wseq'[c] = wseq[c] /\ wmsg'[c] = wmsg[c] /\ wpc'[c] = wpc[c]
    BY Zenon DEF KlogPrintf, AcquireLog, NextSeqRead, TypeOK, WriterType
  <2> QED
    BY <2>1, <2>2 DEF Storing
<1>3. SeqInv' /\ BootInv'
  <2>1. \A c \in CPU : wpc'[c] = "seq_write" => wseq'[c] = global_seq
    BY Zenon DEF KlogPrintf, AcquireLog, NextSeqRead, RingsInv, SeqInv, TypeOK, WriterType
  <2> QED
    BY Zenon, <1>1, <2>1 DEF RingsInv, SeqInv, BootInv
<1>4. ASSUME NEW c \in CPU PROVE StoringInv(c)' /\ RingInv(c)'
  <2>1. Newest(c)' = Newest(c) /\ Settled(c)' = Settled(c) /\ Live(c)' = Live(c)
    BY Zenon, <1>1, <1>2 DEF Newest, Settled, Used, Live
  <2>2. StoringInv(c)'
    BY Zenon, <1>1, <1>2 DEF RingsInv, StoringInv
  <2>3. RingInv(c)'
    <3>1. RingInv(c) /\ head'[c] = head[c] /\ entries'[c] = entries[c] /\ (Storing(c) => wseq'[c] = wseq[c])
      BY Zenon, <1>1, <1>2 DEF RingsInv
    <3> QED
      BY Zenon, <1>1, <1>2, <2>1, <3>1, RingKept
  <2> QED
    BY Zenon, <2>2, <2>3
<1> QED
  BY Zenon, <1>3, <1>4 DEF RingsInv

(* The entry gets its number: it becomes the newest of all.                *)
LEMMA RingsNextSeqWrite ==
  ASSUME TypeOK, LockInv, RingsInv, NoWrap', NEW c0 \in CPU, NextSeqWrite(c0)
  PROVE  RingsInv'
<1> DEFINE n == Len(logged)
           idx == head[c0] % KLOG_BUF_SIZE
           new == [seq |-> wseq[c0], cpu |-> c0, msg |-> wmsg[c0]]
<1>1. n \in Nat /\ idx \in Slot /\ new \in Entry
  BY Zenon, TypeFacts DEF NextSeqWrite, TypeOK, WriterType, Entry
<1>2. logged' = Append(logged, new) /\ logged \in Seq(Entry)
  BY Zenon DEF NextSeqWrite, TypeOK, SharedType
<1>3. Len(logged') = n + 1 /\ logged'[n + 1] = new /\ \A i \in 1 .. n : logged'[i] = logged[i]
  <2> HIDE DEF new
  <2> QED
    BY <1>2
<1>30. \A x \in Nat : x < n => logged'[x + 1] = logged[x + 1]
  <2>1. \A x \in Nat : x < n => x + 1 \in 1 .. n
    BY <1>1
  <2> QED
    BY Zenon, <1>3, <2>1
<1>4. wseq[c0] = n /\ n + 1 < WORD
  <2>1. Len(logged') = n + 1
    BY Zenon, <1>3
  <2> QED
    BY Zenon, <2>1 DEF NextSeqWrite, RingsInv, SeqInv, NoWrap
<1>5. global_seq' = n + 1
  <2>1. global_seq' = (n + 1) % WORD /\ WORD \in Nat \ {0}
    <3>1. WORD \in Nat \ {0}
      BY KlogAssumption
    <3> QED
      BY Zenon, <1>4, <3>1 DEF NextSeqWrite
  <2>2. n + 1 \in Nat
    BY <1>1
  <2> QED
    BY Zenon, <1>4, <2>1, <2>2, ModSmall
<1>6. UNCHANGED <<head, wseq, wmsg>> /\ wpc' = [wpc EXCEPT ![c0] = "fill"]
  BY Zenon DEF NextSeqWrite
<1>7. /\ ~Storing(c0) /\ Storing(c0)'
      /\ \A c \in CPU : c # c0 => wpc'[c] = wpc[c] /\ Storing(c)' = Storing(c)
  BY Zenon, <1>6 DEF Storing, NextSeqWrite, TypeOK, WriterType
<1>8. /\ \A c \in CPU : c # c0 => entries'[c] = entries[c]
      /\ \A k \in Slot : k # idx => entries'[c0][k] = entries[c0][k]
      /\ entries'[c0][idx].seq = n
  BY Zenon, <1>1, <1>4 DEF NextSeqWrite, StoreEntry, TypeOK, SharedType
<1>9. SeqInv' /\ BootInv'
  <2>1. \A i \in 1 .. n + 1 : logged'[i].seq = i - 1
    <3>1. \A i \in 1 .. n : logged[i].seq = i - 1
      BY Zenon DEF RingsInv, SeqInv
    <3>2. logged'[n + 1].seq = n
      BY <1>3, <1>4
    <3> HIDE DEF n, new
    <3> QED
      BY <1>1, <1>3, <3>1, <3>2
  <2>2. \A c \in CPU : wpc'[c] = "seq_write" => c # c0 /\ seq_lock = c /\ seq_lock = c0
    <3>0. wpc[c0] = "seq_write"
      BY Zenon DEF NextSeqWrite
    <3>1. seq_lock = c0 /\ \A c \in CPU : wpc[c] = "seq_write" => seq_lock = c
      BY Zenon, <3>0 DEF LockInv
    <3>2. wpc'[c0] = "fill"
      BY Zenon, <1>6 DEF TypeOK, WriterType
    <3> QED
      BY Zenon, <1>7, <3>1, <3>2
  <2>3. BootInv'
    <3>1. n >= 1 /\ head[logged[1].cpu] >= 1
      BY Zenon DEF RingsInv, BootInv
    <3>2. n + 1 >= 1 /\ 1 \in 1 .. n
      BY <1>1, <3>1
    <3> QED
      BY Zenon, <1>3, <1>6, <3>1, <3>2 DEF BootInv
  <2> QED
    BY Zenon, <1>3, <1>5, <2>1, <2>2, <2>3 DEF SeqInv
<1>10. StoringInv(c0)'
  <2>1. head[c0] < n + 1 /\ n < n + 1
    <3>1. head[c0] <= n /\ head[c0] \in Nat
      BY Zenon, TypeFacts DEF RingsInv, RingInv
    <3> QED
      BY <1>1, <3>1
  <2>2. logged'[wseq[c0] + 1] = new
    BY Zenon, <1>3, <1>4
  <2>3. wpc'[c0] = "fill"
    BY Zenon, <1>6 DEF TypeOK, WriterType
  <2> QED
    BY Zenon, <1>3, <1>4, <1>6, <1>8, <2>1, <2>2, <2>3 DEF StoringInv
<1>11. RingInv(c0)'
  <2>1. Settled(c0)' \subseteq Settled(c0) /\ idx \notin Settled(c0)' /\ Settled(c0)' \subseteq Slot
    BY Zenon, <1>6, <1>7 DEF Settled, Used
  <2>2. \A k \in Settled(c0)' : entries'[c0][k] = entries[c0][k] /\ entries[c0][k].seq < n
    BY Zenon, <1>8, <2>1 DEF RingsInv, RingInv
  <2>3. ASSUME NEW i \in Live(c0)' PROVE i \in Live(c0) /\ i % KLOG_BUF_SIZE \in Slot \ {idx}
    <3>1. i \in Nat /\ i < head[c0] /\ i + KLOG_BUF_SIZE > head[c0]
      <4>1. i \in 0 .. head[c0] - 1 /\ i + KLOG_BUF_SIZE > head[c0]
        BY Zenon, <1>6, <1>7, <2>3 DEF Live
      <4>2. head[c0] \in Nat
        BY Zenon, TypeFacts
      <4> QED
        BY <4>1, <4>2
    <3>2. i % KLOG_BUF_SIZE # idx
      BY <3>1, ModDistinct, TypeFacts
    <3>3. i \in Live(c0)
      <4>1. head[c0] \in Nat /\ KLOG_BUF_SIZE \in Nat
        BY Zenon, TypeFacts
      <4>2. i \in 0 .. head[c0] - 1 /\ i + KLOG_BUF_SIZE > head[c0] /\ i + KLOG_BUF_SIZE >= head[c0]
        BY <3>1, <4>1
      <4> QED
        BY Zenon, <4>2 DEF Live
    <3>4. i % KLOG_BUF_SIZE \in Slot
      BY <3>1, SlotMod
    <3> QED
      BY Zenon, <3>2, <3>3, <3>4
  <2>4. \A i, j \in Live(c0)' : i < j =>
          entries'[c0][i % KLOG_BUF_SIZE].seq < entries'[c0][j % KLOG_BUF_SIZE].seq
    BY Zenon, <1>8, <2>3 DEF RingsInv, RingInv
  <2>5. \A k \in Settled(c0)' : /\ entries'[c0][k].seq < Len(logged')
                                /\ logged'[entries'[c0][k].seq + 1] = entries'[c0][k]
                                /\ entries'[c0][k].cpu = c0
    <3> TAKE k \in Settled(c0)'
    <3>1. k \in Settled(c0) /\ k \in Slot /\ entries[c0][k].seq \in Nat
      BY Zenon, <2>1, TypeFacts
    <3>2. /\ entries[c0][k].seq < n /\ entries[c0][k].cpu = c0
          /\ logged[entries[c0][k].seq + 1] = entries[c0][k]
      BY Zenon, <3>1 DEF RingsInv, RingInv
    <3>3. entries'[c0][k] = entries[c0][k]
      BY Zenon, <2>2
    <3>4. entries[c0][k].seq < n + 1 /\ logged'[entries[c0][k].seq + 1] = entries[c0][k]
      BY <1>1, <1>30, <3>1, <3>2
    <3> QED
      BY Zenon, <1>3, <3>2, <3>3, <3>4
  <2>6. \A k, l \in Settled(c0)' : entries'[c0][k].seq = entries'[c0][l].seq => k = l
    <3>1. \A k, l \in Settled(c0) : entries[c0][k].seq = entries[c0][l].seq => k = l
      BY Zenon DEF RingsInv, RingInv
    <3> QED
      BY Zenon, <2>1, <2>2, <3>1
  <2>7. head'[c0] <= Len(logged')
    <3>1. head[c0] <= n /\ head[c0] \in Nat /\ head' = head
      BY Zenon, <1>6, TypeFacts DEF RingsInv, RingInv
    <3> QED
      BY <1>1, <1>3, <3>1
  <2> QED
    BY Zenon, <1>4, <1>6, <1>7, <2>2, <2>4, <2>5, <2>6, <2>7 DEF RingInv
<1>12. ASSUME NEW c \in CPU, c # c0 PROVE StoringInv(c)' /\ RingInv(c)'
  <2>1. Newest(c)' = Newest(c) /\ Settled(c)' = Settled(c) /\ Live(c)' = Live(c)
    BY Zenon, <1>6, <1>7, <1>8, <1>12 DEF Newest, Settled, Used, Live
  <2>2. StoringInv(c)'
    <3>1. wseq[c] \in Nat /\ head[c] \in Nat
      BY Zenon, TypeFacts
    <3>2. Storing(c)' => head[c] < n /\ wseq[c] < n
      BY Zenon, <1>7, <1>12 DEF RingsInv, StoringInv
    <3>3. Storing(c)' => logged'[wseq[c] + 1] = logged[wseq[c] + 1]
      BY Zenon, <1>30, <3>1, <3>2
    <3>4. Storing(c)' => head[c] < n + 1 /\ wseq[c] < n + 1
      BY <1>1, <3>1, <3>2
    <3>5. StoringInv(c)
      BY Zenon DEF RingsInv
    <3> HIDE DEF n
    <3> QED
      BY Zenon, <1>3, <1>6, <1>7, <1>8, <1>12, <3>3, <3>4, <3>5 DEF StoringInv
  <2>3. Settled(c) \subseteq Slot
    BY Zenon DEF Settled, Used
  <2>4. RingInv(c)'
    <3>1. ASSUME NEW k \in Settled(c)
          PROVE  /\ entries[c][k].seq < n + 1 /\ entries[c][k].cpu = c
                 /\ logged'[entries[c][k].seq + 1] = entries[c][k]
      <4>1. entries[c][k].seq \in Nat
        BY Zenon, <2>3, TypeFacts
      <4>2. entries[c][k].seq < n /\ logged[entries[c][k].seq + 1] = entries[c][k] /\ entries[c][k].cpu = c
        BY Zenon DEF RingsInv, RingInv
      <4> QED
        BY <1>1, <1>30, <4>1, <4>2
    <3>3. RingInv(c)
      BY Zenon DEF RingsInv
    <3>2. head[c] <= n + 1
      <4>1. head[c] <= n /\ head[c] \in Nat
        BY Zenon, <3>3, TypeFacts DEF RingInv
      <4> QED
        BY <1>1, <4>1
    <3>4. /\ Storing(c)' = Storing(c) /\ entries'[c] = entries[c] /\ head'[c] = head[c]
          /\ wseq'[c] = wseq[c] /\ Len(logged') = n + 1
      BY Zenon, <1>3, <1>6, <1>7, <1>8, <1>12
    <3> HIDE DEF n
    <3> QED
      BY ZenonT(60), <2>1, <3>1, <3>2, <3>3, <3>4 DEF RingInv
  <2> QED
    BY Zenon, <2>2, <2>4
<1> QED
  BY Zenon, <1>9, <1>10, <1>11, <1>12 DEF RingsInv

(* The other fields of the entry are stored: it is now whole.              *)
LEMMA RingsFillEntry ==
  ASSUME TypeOK, LockInv, RingsInv, NEW c0 \in CPU, FillEntry(c0)
  PROVE  RingsInv'
<1> DEFINE idx == head[c0] % KLOG_BUF_SIZE
           new == [seq |-> wseq[c0], cpu |-> c0, msg |-> wmsg[c0]]
<1>1. idx \in Slot
  BY Zenon, TypeFacts
<1>2. Storing(c0) /\ UNCHANGED <<head, wseq, wmsg, global_seq, logged>>
  BY Zenon DEF FillEntry, Storing, seqs
<1>3. \A c \in CPU : Storing(c)' = Storing(c) /\ (c # c0 => wpc'[c] = wpc[c])
  <2>1. wpc[c0] = "fill" /\ wpc' = [wpc EXCEPT ![c0] = "publish"] /\ wpc = [c \in CPU |-> wpc[c]]
    BY Zenon DEF FillEntry, TypeOK, WriterType
  <2> QED
    BY <2>1 DEF Storing
<1>4. /\ \A c \in CPU : c # c0 => entries'[c] = entries[c]
      /\ \A k \in Slot : k # idx => entries'[c0][k] = entries[c0][k]
      /\ entries'[c0][idx] = new
  BY Zenon, <1>1, <1>2 DEF FillEntry, StoreEntry, TypeOK, SharedType, RingsInv, StoringInv
<1>5. SeqInv' /\ BootInv'
  <2>1. \A c \in CPU : wpc'[c] = "seq_write" => wpc[c] = "seq_write"
    BY Zenon DEF FillEntry, TypeOK, WriterType
  <2> QED
    BY Zenon, <1>2, <2>1 DEF RingsInv, SeqInv, BootInv
<1>6. StoringInv(c0)'
  <2>1. StoringInv(c0)
    BY Zenon DEF RingsInv
  <2>2. new.seq = wseq[c0] /\ logged[wseq[c0] + 1] = new
    BY Zenon, <1>2, <2>1 DEF StoringInv
  <2> HIDE DEF new
  <2>3. entries'[c0][head'[c0] % KLOG_BUF_SIZE] = new
    BY Zenon, <1>2, <1>4
  <2> QED
    BY Zenon, <1>2, <2>1, <2>2, <2>3 DEF StoringInv
<1>7. \A c \in CPU : Settled(c)' = Settled(c) /\ Live(c)' = Live(c)
  BY ZenonT(60), <1>2, <1>3 DEF Settled, Used, Live
<1>8. RingInv(c0)'
  <2>1. \A k \in Settled(c0) : entries'[c0][k] = entries[c0][k]
    BY Zenon, <1>2, <1>4 DEF Settled, Used
  <2>2. ASSUME NEW i \in Live(c0)
        PROVE entries'[c0][i % KLOG_BUF_SIZE] = entries[c0][i % KLOG_BUF_SIZE]
    <3>1. i \in Nat /\ i < head[c0] /\ i + KLOG_BUF_SIZE > head[c0]
      <4>1. i \in 0 .. head[c0] - 1 /\ i + KLOG_BUF_SIZE > head[c0]
        BY Zenon, <1>2, <2>2 DEF Live
      <4>2. head[c0] \in Nat
        BY Zenon, TypeFacts
      <4> QED
        BY <4>1, <4>2
    <3>2. i % KLOG_BUF_SIZE # idx
      BY <3>1, ModDistinct, TypeFacts
    <3> QED
      BY <1>4, <3>1, <3>2, SlotMod
  <2>3. RingInv(c0)
    BY Zenon DEF RingsInv
  <2> QED
    BY Zenon, <1>2, <1>3, <1>7, <2>1, <2>2, <2>3, RingKept
<1>9. ASSUME NEW c \in CPU, c # c0 PROVE StoringInv(c)' /\ RingInv(c)'
  <2>1. Newest(c)' = Newest(c)
    BY Zenon, <1>2, <1>4, <1>9 DEF Newest
  <2>0. StoringInv(c) /\ RingInv(c)
    BY Zenon DEF RingsInv
  <2>2. StoringInv(c)'
    BY Zenon, <1>2, <1>3, <1>4, <1>9, <2>0 DEF StoringInv
  <2>3. RingInv(c)'
    BY Zenon, <1>2, <1>3, <1>4, <1>7, <1>9, <2>0, <2>1, RingKept
  <2> QED
    BY Zenon, <2>2, <2>3
<1> QED
  BY Zenon, <1>5, <1>6, <1>8, <1>9 DEF RingsInv

(* head++ makes the entry the newest of its ring.                          *)
LEMMA RingsPublish ==
  ASSUME TypeOK, LockInv, RingsInv, NoWrap, NEW c0 \in CPU, Publish(c0)
  PROVE  RingsInv'
<1> DEFINE h == head[c0]
           idx == h % KLOG_BUF_SIZE
           new == entries[c0][idx]
<1>1. h \in Nat /\ idx \in Slot /\ h < Len(logged) /\ Storing(c0)
  BY Zenon, TypeFacts DEF Publish, Storing, RingsInv, StoringInv
<1>2. /\ new.seq = wseq[c0] /\ new.cpu = c0 /\ new.seq < Len(logged) /\ logged[new.seq + 1] = new
  <2>1. /\ new.seq = wseq[c0] /\ wseq[c0] < Len(logged) /\ new = logged[wseq[c0] + 1]
        /\ logged[wseq[c0] + 1] = [seq |-> wseq[c0], cpu |-> c0, msg |-> wmsg[c0]]
    BY Zenon, <1>1 DEF Publish, RingsInv, StoringInv
  <2> HIDE DEF new
  <2> QED
    BY <2>1
<1>3. (h + 1) % WORD = h + 1
  <2>1. h + 1 \in Nat /\ h + 1 < WORD /\ WORD \in Nat \ {0}
    BY <1>1, TypeFacts DEF NoWrap
  <2> QED
    BY Zenon, <2>1, ModSmall
<1>4. /\ head'[c0] = h + 1 /\ UNCHANGED <<entries, wseq, wmsg, global_seq, logged>>
      /\ \A c \in CPU : c # c0 => head'[c] = head[c]
  BY Zenon, <1>3 DEF Publish, seqs, TypeOK, SharedType
<1>5. /\ ~Storing(c0)'
      /\ \A c \in CPU : c # c0 => wpc'[c] = wpc[c] /\ Storing(c)' = Storing(c)
  BY Zenon DEF Publish, Storing, TypeOK, WriterType
<1>6. SeqInv' /\ BootInv'
  <2>1. \A c \in CPU : wpc'[c] = "seq_write" => wpc[c] = "seq_write"
    BY Zenon DEF Publish, TypeOK, WriterType
  <2>2. \A c \in CPU : head[c] \in Nat /\ head'[c] \in Nat /\ head'[c] >= head[c]
    <3>1. \A c \in CPU : head[c] \in Nat
      BY Zenon, TypeFacts
    <3> QED
      BY <1>4, <3>1
  <2>3. logged[1].cpu \in CPU /\ Len(logged) >= 1 /\ head[logged[1].cpu] >= 1
    <3>1. Len(logged) >= 1 /\ head[logged[1].cpu] >= 1 /\ Len(logged) \in Nat
      BY Zenon, TypeFacts DEF RingsInv, BootInv
    <3>2. 1 \in 1 .. Len(logged)
      BY <3>1
    <3> QED
      BY Zenon, <3>1, <3>2, TypeFacts
  <2>4. head'[logged[1].cpu] \in Nat /\ head[logged[1].cpu] \in Nat
    BY Zenon, <2>2, <2>3
  <2>5. BootInv'
    <3>1. head'[logged[1].cpu] >= head[logged[1].cpu]
      BY Zenon, <2>2, <2>3
    <3>2. head'[logged[1].cpu] >= 1
      BY <2>3, <2>4, <3>1
    <3> QED
      BY Zenon, <1>4, <2>3, <3>2 DEF BootInv
  <2> QED
    BY Zenon, <1>4, <2>1, <2>5 DEF RingsInv, SeqInv
<1>7. StoringInv(c0)'
  BY Zenon, <1>5 DEF StoringInv
<1>8. RingInv(c0)'
  <2>1. Settled(c0)' \subseteq Settled(c0) \cup {idx}
    <3>1. ASSUME NEW k \in Settled(c0)', k # idx PROVE k \in Settled(c0)
      <4>1. k \in Slot /\ k < h + 1
        BY Zenon, <1>4 DEF Settled, Used
      <4>2. k # h
        BY <1>1, <3>1, <4>1, ModSmall, KlogAssumption DEF Slot
      <4> QED
        BY <1>1, <3>1, <4>1, <4>2 DEF Settled, Used, Slot
    <3> QED
      BY Zenon, <3>1
  <2>2. ASSUME NEW i \in Live(c0) PROVE i % KLOG_BUF_SIZE \in Settled(c0)
    <3>1. i \in Nat /\ i < h /\ i + KLOG_BUF_SIZE > h
      <4>1. i \in 0 .. h - 1 /\ i + KLOG_BUF_SIZE > h
        BY Zenon, <1>1, <2>2 DEF Live
      <4> HIDE DEF h
      <4> QED
        BY <1>1, <4>1
    <3>2. i % KLOG_BUF_SIZE # idx
      BY <1>1, <3>1, ModDistinct, TypeFacts
    <3>3. i % KLOG_BUF_SIZE \in Slot /\ i % KLOG_BUF_SIZE <= i
      BY <3>1, SlotMod, ModLeq, TypeFacts
    <3>4. i % KLOG_BUF_SIZE < h
      BY <1>1, <3>1, <3>3 DEF Slot
    <3> QED
      BY Zenon, <3>2, <3>3, <3>4 DEF Settled, Used
  <2>3. Live(c0)' \subseteq Live(c0) \cup {h}
    <3>1. ASSUME NEW i \in Live(c0)' PROVE i \in Live(c0) \/ i = h
      <4>1. i \in 0 .. (h + 1) - 1 /\ i + KLOG_BUF_SIZE >= h + 1
        BY Zenon, <1>4, <1>5, <3>1 DEF Live
      <4>2. KLOG_BUF_SIZE \in Nat
        BY Zenon, TypeFacts
      <4>3. i # h => i \in 0 .. h - 1 /\ i + KLOG_BUF_SIZE > h
        BY <1>1, <4>1, <4>2
      <4> QED
        BY Zenon, <1>1, <4>3 DEF Live
    <3> QED
      BY Zenon, <3>1
  <2>4. \A k \in Settled(c0) : entries[c0][k].seq < new.seq
    BY Zenon, <1>1, <1>2 DEF RingsInv, RingInv
  <2>5. Newest(c0)' = new.seq
    <3>1. head'[c0] - 1 = h
      BY <1>1, <1>4
    <3> QED
      BY Zenon, <1>4, <3>1 DEF Newest
  <2>6. \A i, j \in Live(c0)' : i < j =>
          entries[c0][i % KLOG_BUF_SIZE].seq < entries[c0][j % KLOG_BUF_SIZE].seq
    <3> SUFFICES ASSUME NEW i \in Live(c0)', NEW j \in Live(c0)', i < j
                 PROVE entries[c0][i % KLOG_BUF_SIZE].seq < entries[c0][j % KLOG_BUF_SIZE].seq
      BY Zenon
    <3>1. i \in Live(c0)
      <4>1. i \in 0 .. (h + 1) - 1 /\ j \in 0 .. (h + 1) - 1
        BY Zenon, <1>4 DEF Live
      <4>2. i # h
        BY <1>1, <4>1
      <4> QED
        BY Zenon, <2>3, <4>2
    <3>2. CASE j \in Live(c0)
      BY Zenon, <3>1, <3>2 DEF RingsInv, RingInv
    <3>3. CASE j = h
      BY ZenonT(60), <2>2, <2>4, <3>1, <3>3
    <3> QED
      BY Zenon, <2>3, <3>2, <3>3
  <2>7. \A k \in Settled(c0)' : /\ entries[c0][k].seq < Len(logged)
                                /\ logged[entries[c0][k].seq + 1] = entries[c0][k]
                                /\ entries[c0][k].cpu = c0 /\ entries[c0][k].seq <= new.seq
    <3>1. \A k \in Settled(c0) : entries[c0][k].seq \in Nat
      BY Zenon, TypeFacts DEF Settled, Used
    <3>2. RingInv(c0) /\ new.seq \in Nat
      BY Zenon, <1>1, TypeFacts DEF RingsInv
    <3>3. ASSUME NEW k \in Settled(c0) PROVE entries[c0][k].seq <= new.seq
      <4>1. entries[c0][k].seq < new.seq /\ entries[c0][k].seq \in Nat
        BY Zenon, <2>4, <3>1
      <4> HIDE DEF new
      <4> QED
        BY <3>2, <4>1
    <3>4. new.seq <= new.seq
      BY <3>2
    <3> QED
      BY Zenon, <1>2, <2>1, <3>2, <3>3, <3>4 DEF RingInv
  <2>8. \A k, l \in Settled(c0)' : entries[c0][k].seq = entries[c0][l].seq => k = l
    <3>1. \A k \in Settled(c0) : entries[c0][k].seq # new.seq
      <4>1. new.seq \in Nat /\ \A k \in Settled(c0) : entries[c0][k].seq \in Nat
        BY Zenon, <1>1, TypeFacts DEF Settled, Used
      <4> HIDE DEF new
      <4> QED
        BY <2>4, <4>1
    <3>2. \A k, l \in Settled(c0) : entries[c0][k].seq = entries[c0][l].seq => k = l
      BY Zenon DEF RingsInv, RingInv
    <3> QED
      BY Zenon, <2>1, <3>1, <3>2
  <2>9. h + 1 <= Len(logged)
    <3>1. Len(logged) \in Nat
      BY Zenon, TypeFacts
    <3> QED
      BY <1>1, <3>1
  <2> HIDE DEF h
  <2> QED
    BY Zenon, <1>4, <1>5, <2>5, <2>6, <2>7, <2>8, <2>9 DEF RingInv
<1>9. ASSUME NEW c \in CPU, c # c0 PROVE StoringInv(c)' /\ RingInv(c)'
  <2>1. /\ Newest(c)' = Newest(c) /\ Settled(c)' = Settled(c) /\ Live(c)' = Live(c)
    BY Zenon, <1>4, <1>5, <1>9 DEF Newest, Settled, Used, Live
  <2>2. StoringInv(c)'
    BY ZenonT(60), <1>4, <1>5, <1>9 DEF RingsInv, StoringInv
  <2>3. RingInv(c)'
    BY Zenon, <1>4, <1>5, <1>9, <2>1, RingKept DEF RingsInv
  <2> QED
    BY Zenon, <2>2, <2>3
<1> QED
  BY Zenon, <1>6, <1>7, <1>8, <1>9 DEF RingsInv

(* The history only grows, so a state without wrap comes from one.         *)
LEMMA NoWrapBack == TypeOK /\ [Next]_vars /\ NoWrap' => NoWrap
<1> SUFFICES ASSUME TypeOK, [Next]_vars, NoWrap' PROVE NoWrap
  BY Zenon
<1>1. CASE UNCHANGED logged
  BY Zenon, <1>1 DEF NoWrap
<1>2. ASSUME NEW c \in CPU, NextSeqWrite(c) PROVE NoWrap
  <2>1. logged \in Seq(Entry) /\ \E e : logged' = Append(logged, e)
    BY Zenon, <1>2 DEF NextSeqWrite, TypeOK, SharedType
  <2>2. Len(logged') = Len(logged) + 1 /\ Len(logged) \in Nat
    BY <2>1
  <2> QED
    BY <2>2, KlogAssumption DEF NoWrap
<1>3. ASSUME NEW c \in CPU, WriterStep(c) \/ \E m \in Msgs : KlogPrintf(c, m)
      PROVE  NoWrap
  BY Zenon, <1>1, <1>2, <1>3 DEF WriterStep, KlogPrintf, AcquireLog, NextSeqRead, FillEntry, Publish
<1> QED
  BY Zenon, <1>1, <1>3, ReaderFrame DEF Next, vars

LEMMA NextRings == TypeOK /\ LockInv /\ RingsInv /\ [Next]_vars /\ NoWrap' => RingsInv'
<1> SUFFICES ASSUME TypeOK, LockInv, RingsInv, [Next]_vars, NoWrap' PROVE RingsInv'
  BY Zenon
<1>1. NoWrap
  BY Zenon, NoWrapBack
<1>2. CASE UNCHANGED vars
  BY Zenon, <1>2, RingsFrame DEF vars, ring, seqs
<1>3. ASSUME NEW r \in Readers, ReaderStep(r) \/ \E max \in MaxEntries : SnapshotCall(r, max)
      PROVE  RingsInv'
  BY Zenon, <1>3, ReaderFrame, RingsFrame
<1>4. ASSUME NEW c \in CPU, WriterStep(c) \/ \E m \in Msgs : KlogPrintf(c, m)
      PROVE  RingsInv'
  BY Zenon, <1>1, <1>4, RingsOutside, RingsNextSeqWrite, RingsFillEntry, RingsPublish DEF WriterStep
<1> QED
  BY Zenon, <1>2, <1>3, <1>4 DEF Next

-----------------------------------------------------------------------------
(***************************************************************************)
(* The order of the entries, also past 2^32 of them: the counter, and a    *)
(* writer inside next_seq, are at the number of the next entry mod 2^32.   *)
(***************************************************************************)
NumberInv ==
  /\ global_seq = Len(logged) % WORD
  /\ SeqTotalOrder
  /\ \A c \in CPU : wpc[c] = "seq_write" => wseq[c] = global_seq

LEMMA ModSucc ==
  ASSUME NEW a \in Nat, NEW n \in Nat \ {0}
  PROVE  ((a % n) + 1) % n = (a + 1) % n
<1> DEFINE q == a \div n
           m == a % n
<1>1. q \in Nat /\ m \in 0 .. n - 1 /\ a = n * q + m
  OBVIOUS
<1>2. CASE m + 1 < n
  <2>1. (m + 1) % n = m + 1
    BY <1>1, <1>2
  <2>2. (n * q + (m + 1)) % n = m + 1
    BY <1>1, <1>2
  <2> QED
    BY <1>1, <2>1, <2>2
<1>3. CASE m + 1 = n
  <2>1. (m + 1) % n = 0
    BY <1>3
  <2>2. n * q + n = n * (q + 1) /\ (n * (q + 1)) % n = 0
    BY <1>1
  <2> QED
    BY <1>1, <1>3, <2>1, <2>2
<1> QED
  BY <1>1, <1>2, <1>3

LEMMA NextNumber == TypeOK /\ LockInv /\ NumberInv /\ [Next]_vars => NumberInv'
<1> SUFFICES ASSUME TypeOK, LockInv, NumberInv, [Next]_vars PROVE NumberInv'
  BY Zenon
<1>1. CASE UNCHANGED <<global_seq, logged, writer>>
  BY Zenon, <1>1 DEF NumberInv, SeqTotalOrder, writer
<1>2. ASSUME NEW c \in CPU, (\E m \in Msgs : KlogPrintf(c, m)) \/ AcquireLog(c)
                              \/ NextSeqRead(c) \/ FillEntry(c) \/ Publish(c)
      PROVE  NumberInv'
  BY Zenon, <1>2 DEF NumberInv, SeqTotalOrder, KlogPrintf, AcquireLog, NextSeqRead, FillEntry, Publish,
              seqs, TypeOK, WriterType
<1>3. ASSUME NEW c \in CPU, NextSeqWrite(c) PROVE NumberInv'
  <2> DEFINE n == Len(logged)
             new == [seq |-> wseq[c], cpu |-> c, msg |-> wmsg[c]]
  <2>0. logged \in Seq(Entry) /\ logged' = Append(logged, new) /\ wpc[c] = "seq_write" /\ seq_lock = c
    BY Zenon, <1>3 DEF NextSeqWrite, LockInv, TypeOK, SharedType
  <2>1. /\ n \in Nat /\ Len(logged') = n + 1 /\ \A i \in 1 .. n : logged'[i] = logged[i]
        /\ logged'[n + 1] = new /\ DOMAIN logged' = 1 .. n + 1
    <3> HIDE DEF new
    <3> QED
      BY <2>0
  <2>2. logged'[n + 1].seq = n % WORD
    <3>1. new.seq = wseq[c]
      OBVIOUS
    <3> HIDE DEF new
    <3> QED
      BY Zenon, <2>0, <2>1, <3>1 DEF NumberInv
  <2>3. global_seq' = (n + 1) % WORD
    BY Zenon, <1>3, <2>1, ModSucc, KlogAssumption DEF NextSeqWrite, NumberInv
  <2>4. \A d \in CPU : wpc'[d] # "seq_write"
    <3>1. wpc' = [wpc EXCEPT ![c] = "fill"] /\ wpc = [d \in CPU |-> wpc[d]]
      BY Zenon, <1>3 DEF NextSeqWrite, TypeOK, WriterType
    <3>2. \A d \in CPU : wpc[d] = "seq_write" => seq_lock = d
      BY Zenon DEF LockInv
    <3> QED
      BY <2>0, <3>1, <3>2
  <2>5. \A i \in 1 .. n : logged'[i].seq = (i - 1) % WORD
    BY Zenon, <2>1, TypeFacts DEF NumberInv, SeqTotalOrder
  <2>6. SeqTotalOrder'
    <3>1. (n + 1) - 1 = n
      BY <2>1
    <3>2. \A i \in 1 .. n + 1 : i \in 1 .. n \/ i = n + 1
      BY <2>1
    <3> HIDE DEF n
    <3> QED
      BY Zenon, <2>1, <2>2, <2>5, <3>1, <3>2 DEF SeqTotalOrder
  <2> QED
    BY Zenon, <2>1, <2>3, <2>4, <2>6 DEF NumberInv
<1> QED
  BY Zenon, <1>1, <1>2, <1>3, ReaderFrame DEF Next, WriterStep, vars, seqs

(* next_seq numbers the entries of all CPUs 0, 1, 2, ... without a gap or  *)
(* a repetition (mod 2^32), whatever the number of CPUs, the size of the   *)
(* rings and the interleaving.                                             *)
THEOREM TotalOrder == Spec => []SeqTotalOrder
<1>1. Init => NumberInv
  <2> SUFFICES ASSUME Init PROVE NumberInv
    BY Zenon
  <2>0. PICK b \in CPU, m \in Msgs : Init!(b, m)
    BY Zenon DEF Init
  <2>1. global_seq = 1 /\ \A c \in CPU : wpc[c] = "idle"
    BY Zenon, <2>0
  <2>2. /\ Len(logged) = 1 /\ DOMAIN logged = {1} /\ logged[1].seq = 0
    <3>1. logged = << [seq |-> 0, cpu |-> b, msg |-> m] >>
      BY Zenon, <2>0
    <3> QED
      BY <3>1
  <2>3. 1 % WORD = 1 /\ 0 % WORD = 0
    BY ModSmall, KlogAssumption
  <2>4. SeqTotalOrder
    BY <2>2, <2>3 DEF SeqTotalOrder
  <2> QED
    BY <2>1, <2>2, <2>3, <2>4 DEF NumberInv
<1>2. NumberInv => SeqTotalOrder
  BY Zenon DEF NumberInv
<1> QED
  BY <1>1, <1>2, InitType, NextType, InitLock, NextLock, NextNumber, PTL DEF Spec
=============================================================================
