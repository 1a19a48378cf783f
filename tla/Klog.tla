-------------------------------- MODULE Klog --------------------------------
(***************************************************************************)
(* The kernel log of xv6 (klog.c): one ring buffer of entries per CPU, a   *)
(* global sequence counter that orders the entries of all CPUs, writers    *)
(* that run with interrupts off (hence at most one per CPU), and readers   *)
(* that take a snapshot of all the rings in two passes.                    *)
(*                                                                         *)
(* A writer's step is the code between two points at which another CPU can *)
(* see a difference: taking a lock, each store to a shared entry, and the  *)
(* release.  A reader's first pass over one ring is one step, since its    *)
(* critical section only reads what the ring's lock protects; its second   *)
(* pass copies one entry per step.  Process scheduling is left out: any    *)
(* number of readers may take steps while the writers take theirs.         *)
(*                                                                         *)
(* The message, level, pid and time of an entry are one value of Msgs.     *)
(***************************************************************************)
EXTENDS Integers, Sequences, FiniteSets, FiniteSetsExt, Functions

CONSTANTS
  NCPU,           \* number of per-CPU rings
  KLOG_BUF_SIZE,  \* entries in a ring
  WORD,           \* 2^32: the number of values of a uint
  Msgs,           \* what callers log
  Readers,        \* processes that call klog_snapshot
  MaxEntries,     \* the max_entries values that callers pass
  MaxLog,         \* bound: no call of klog_printf starts after this many entries
  Free            \* the holder of a lock that nobody holds

CPU == 0 .. NCPU - 1

ASSUME KlogAssumption ==
  /\ NCPU \in Nat \ {0}
  /\ KLOG_BUF_SIZE \in Nat \ {0}
  /\ WORD \in Nat \ {0, 1}
  /\ KLOG_BUF_SIZE < WORD
  /\ MaxEntries \subseteq 1 .. WORD - 1
  /\ Free \notin CPU \cup Readers
  /\ CPU \cap Readers = {}

VARIABLES
  lock,        \* cpu_logs[c].lock: its holder
  entries,     \* cpu_logs[c].entries
  head,        \* cpu_logs[c].head
  seq_lock,    \* holder of seq_lock
  global_seq,  \* next sequence number
  \* the klog_printf call running on CPU c: where it is, what it logs, its number
  wpc, wmsg, wseq,
  \* the locals of the klog_snapshot call of reader r, and where it is
  rpc, max_entries, cpu_id, total, min_seq, skip_count, ii, jj, buf,
  \* history: the sequence numbers that the first pass of r counted, the heads
  \* when its call started, and all entries in the order they were numbered
  seen, from, logged

ring == <<lock, entries, head>>
seqs == <<seq_lock, global_seq>>
writer == <<wpc, wmsg, wseq>>
reader == <<rpc, max_entries, cpu_id, total, min_seq, skip_count, ii, jj, buf, seen, from>>
vars == <<ring, seqs, writer, reader, logged>>

Slot == 0 .. KLOG_BUF_SIZE - 1
UInt == 0 .. WORD - 1
Entry == [seq : UInt, cpu : CPU, msg : Msgs]

(* The number of entries of ring c that a reader looks at. *)
Retained(c) == IF head[c] > KLOG_BUF_SIZE THEN KLOG_BUF_SIZE ELSE head[c]

(***************************************************************************)
(* klog_init: empty rings and free locks, then the call klog_printf(       *)
(* "klog: logging subsystem initialized") on the boot CPU b, before any    *)
(* other CPU or process runs.  Static storage starts as zeros: an unused   *)
(* slot holds sequence number 0.                                           *)
(***************************************************************************)
Init ==
  \E b \in CPU, m \in Msgs :
    LET boot == [seq |-> 0, cpu |-> b, msg |-> m] IN
    /\ lock = [c \in CPU |-> Free]
    /\ entries = [c \in CPU |-> [k \in Slot |->
                    IF c = b /\ k = 0 THEN boot ELSE [seq |-> 0, cpu |-> 0, msg |-> m]]]
    /\ head = [c \in CPU |-> IF c = b THEN 1 ELSE 0]
    /\ seq_lock = Free
    /\ global_seq = 1
    /\ wpc = [c \in CPU |-> "idle"]
    /\ wmsg = [c \in CPU |-> m]
    /\ wseq = [c \in CPU |-> 0]
    /\ rpc = [r \in Readers |-> "idle"]
    /\ max_entries = [r \in Readers |-> 0]
    /\ cpu_id = [r \in Readers |-> 0]
    /\ total = [r \in Readers |-> 0]
    /\ min_seq = [r \in Readers |-> 0]
    /\ skip_count = [r \in Readers |-> 0]
    /\ ii = [r \in Readers |-> 0]
    /\ jj = [r \in Readers |-> 0]
    /\ buf = [r \in Readers |-> << >>]
    /\ seen = [r \in Readers |-> {}]
    /\ from = [r \in Readers |-> [c \in CPU |-> 0]]
    /\ logged = << boot >>

-----------------------------------------------------------------------------
(***************************************************************************)
(* Writers: klog_printf_internal on CPU c, interrupts off from pushcli to  *)
(* popcli.  The message is formatted into a private buffer first.          *)
(***************************************************************************)
KlogPrintf(c, m) ==
  /\ wpc[c] = "idle"
  /\ Len(logged) < MaxLog
  /\ wpc' = [wpc EXCEPT ![c] = "acquire"]
  /\ wmsg' = [wmsg EXCEPT ![c] = m]
  /\ wseq' = [wseq EXCEPT ![c] = 0]
  /\ UNCHANGED <<ring, seqs, reader, logged>>

(* acquire(&log->lock) *)
AcquireLog(c) ==
  /\ wpc[c] = "acquire"
  /\ lock[c] = Free
  /\ lock' = [lock EXCEPT ![c] = c]
  /\ wpc' = [wpc EXCEPT ![c] = "seq"]
  /\ UNCHANGED <<entries, head, seqs, wmsg, wseq, reader, logged>>

(* A slip: next_seq without seq_lock *)
NextSeqReadUnlocked(c) ==
  /\ wpc[c] = "seq"
  /\ seq_lock' = c
  /\ wseq' = [wseq EXCEPT ![c] = global_seq]
  /\ wpc' = [wpc EXCEPT ![c] = "seq_write"]
  /\ UNCHANGED <<ring, global_seq, wmsg, reader, logged>>

(* next_seq: acquire(&seq_lock) and the read of global_seq *)
NextSeqRead(c) ==
  /\ wpc[c] = "seq"
  /\ seq_lock = Free
  /\ seq_lock' = c
  /\ wseq' = [wseq EXCEPT ![c] = global_seq]
  /\ wpc' = [wpc EXCEPT ![c] = "seq_write"]
  /\ UNCHANGED <<ring, global_seq, wmsg, reader, logged>>

(* A slip: the slot after the one that is next to be used *)
StoreEntryAfter(c, e) ==
  entries' = [entries EXCEPT ![c] = [@ EXCEPT ![(head[c] + 1) % KLOG_BUF_SIZE] = e]]

(* The store e of a writer into the slot of ring c that is next to be used *)
StoreEntry(c, e) ==
  entries' = [entries EXCEPT ![c] = [@ EXCEPT ![head[c] % KLOG_BUF_SIZE] = e]]

(* next_seq: the increment of global_seq and release(&seq_lock); the store *)
(* of the result to entry->seq                                             *)
NextSeqWrite(c) ==
  LET old == entries[c][head[c] % KLOG_BUF_SIZE] IN
  /\ wpc[c] = "seq_write"
  /\ global_seq' = (wseq[c] + 1) % WORD
  /\ seq_lock' = Free
  /\ StoreEntry(c, [seq |-> wseq[c], cpu |-> old.cpu, msg |-> old.msg])
  /\ logged' = Append(logged, [seq |-> wseq[c], cpu |-> c, msg |-> wmsg[c]])
  /\ wpc' = [wpc EXCEPT ![c] = "fill"]
  /\ UNCHANGED <<lock, head, wmsg, wseq, reader>>

(* The stores of timestamp, cpu, pid, level and msg *)
FillEntry(c) ==
  LET old == entries[c][head[c] % KLOG_BUF_SIZE] IN
  /\ wpc[c] = "fill"
  /\ StoreEntry(c, [seq |-> old.seq, cpu |-> c, msg |-> wmsg[c]])
  /\ wpc' = [wpc EXCEPT ![c] = "publish"]
  /\ UNCHANGED <<lock, head, seqs, wmsg, wseq, reader, logged>>

(* log->head++; release(&log->lock); popcli() *)
Publish(c) ==
  /\ wpc[c] = "publish"
  /\ head' = [head EXCEPT ![c] = (head[c] + 1) % WORD]
  /\ lock' = [lock EXCEPT ![c] = Free]
  /\ wpc' = [wpc EXCEPT ![c] = "idle"]
  /\ UNCHANGED <<entries, seqs, wmsg, wseq, reader, logged>>

-----------------------------------------------------------------------------
(***************************************************************************)
(* Readers: klog_snapshot(buf, max_entries) called by reader r.            *)
(***************************************************************************)
Locals(r, pc, max, low, heads) ==
  /\ rpc' = [rpc EXCEPT ![r] = pc]
  /\ max_entries' = [max_entries EXCEPT ![r] = max]
  /\ cpu_id' = [cpu_id EXCEPT ![r] = 0]
  /\ total' = [total EXCEPT ![r] = 0]
  /\ min_seq' = [min_seq EXCEPT ![r] = low]
  /\ skip_count' = [skip_count EXCEPT ![r] = 0]
  /\ ii' = [ii EXCEPT ![r] = 0]
  /\ jj' = [jj EXCEPT ![r] = 0]
  /\ buf' = [buf EXCEPT ![r] = << >>]
  /\ seen' = [seen EXCEPT ![r] = {}]
  /\ from' = [from EXCEPT ![r] = heads]

SnapshotCall(r, max) ==
  /\ rpc[r] = "idle"
  /\ Locals(r, "count", max, WORD - 1, head)
  /\ UNCHANGED <<ring, seqs, writer, logged>>

(* return count: the locals are gone *)
SnapshotReturn(r) ==
  /\ rpc[r] = "done"
  /\ Locals(r, "idle", 0, 0, [c \in CPU |-> 0])
  /\ UNCHANGED <<ring, seqs, writer, logged>>

(* The loops over the rings: cpu_id++, and the next part of the call after *)
(* the last ring                                                           *)
NextRing(r, again, after) ==
  /\ cpu_id' = [cpu_id EXCEPT ![r] = IF @ = NCPU - 1 THEN 0 ELSE @ + 1]
  /\ rpc' = [rpc EXCEPT ![r] = IF cpu_id[r] = NCPU - 1 THEN after ELSE again]

(* First pass, ring cpu_id: add the retained entries to total and lower    *)
(* min_seq; after the last ring compute skip_count.                        *)
RingSeqs(c) == {entries[c][k].seq : k \in 0 .. Retained(c) - 1}

CountRing(r) ==
  LET c == cpu_id[r]
      sum == total[r] + Retained(c)
  IN
  /\ rpc[r] = "count"
  /\ lock[c] = Free
  /\ total' = [total EXCEPT ![r] = sum]
  /\ min_seq' = [min_seq EXCEPT ![r] = Min(RingSeqs(c) \cup {@})]
  /\ seen' = [seen EXCEPT ![r] = @ \cup RingSeqs(c)]
  /\ skip_count' = [skip_count EXCEPT ![r] =
       IF c = NCPU - 1 /\ sum > max_entries[r] THEN sum - max_entries[r] ELSE 0]
  /\ NextRing(r, "count", "lock")
  /\ UNCHANGED <<ring, seqs, writer, max_entries, ii, jj, buf, from, logged>>

(* A slip: the second pass copies a ring without its lock *)
LockRingUnlocked(r) ==
  LET c == cpu_id[r] IN
  /\ rpc[r] = "lock"
  /\ ii' = [ii EXCEPT ![r] = head[c] - Retained(c)]
  /\ rpc' = [rpc EXCEPT ![r] = "copy"]
  /\ UNCHANGED <<ring, seqs, writer, max_entries, cpu_id, total,
                 min_seq, skip_count, jj, buf, seen, from, logged>>

(* Second pass, ring cpu_id: acquire its lock, start at its oldest entry *)
LockRing(r) ==
  LET c == cpu_id[r] IN
  /\ rpc[r] = "lock"
  /\ lock[c] = Free
  /\ lock' = [lock EXCEPT ![c] = r]
  /\ ii' = [ii EXCEPT ![r] = head[c] - Retained(c)]
  /\ rpc' = [rpc EXCEPT ![r] = "copy"]
  /\ UNCHANGED <<entries, head, seqs, writer, max_entries, cpu_id, total,
                 min_seq, skip_count, jj, buf, seen, from, logged>>

(* Slips: skip the entry at the threshold too; skip nothing *)
ThresholdStrict(r) == (min_seq[r] + skip_count[r] + 1) % WORD
ThresholdNone(r) == min_seq[r]

(* The least sequence number that the second pass does not skip, a uint *)
Threshold(r) == (min_seq[r] + skip_count[r]) % WORD
MoreToCopy(r) == ii[r] < head[cpu_id[r]] /\ Len(buf[r]) < max_entries[r]

(* A slip: skipping an entry does not advance the loop *)
CopyEntryStuck(r) ==
  LET e == entries[cpu_id[r]][ii[r] % KLOG_BUF_SIZE] IN
  /\ rpc[r] = "copy"
  /\ MoreToCopy(r)
  /\ buf' = [buf EXCEPT ![r] = IF e.seq >= Threshold(r) THEN Append(@, e) ELSE @]
  /\ ii' = [ii EXCEPT ![r] = IF e.seq >= Threshold(r) THEN @ + 1 ELSE @]
  /\ UNCHANGED <<ring, seqs, writer, rpc, max_entries, cpu_id, total, min_seq,
                 skip_count, jj, seen, from, logged>>

(* One iteration of the second pass' loop: copy the entry or skip it *)
CopyEntry(r) ==
  LET e == entries[cpu_id[r]][ii[r] % KLOG_BUF_SIZE] IN
  /\ rpc[r] = "copy"
  /\ MoreToCopy(r)
  /\ buf' = [buf EXCEPT ![r] = IF e.seq >= Threshold(r) THEN Append(@, e) ELSE @]
  /\ ii' = [ii EXCEPT ![r] = @ + 1]
  /\ UNCHANGED <<ring, seqs, writer, rpc, max_entries, cpu_id, total, min_seq,
                 skip_count, jj, seen, from, logged>>

(* The loop is over: release the ring's lock, go to the next ring or sort *)
UnlockRing(r) ==
  /\ rpc[r] = "copy"
  /\ ~MoreToCopy(r)
  /\ lock' = [lock EXCEPT ![cpu_id[r]] = Free]
  /\ NextRing(r, "lock", "sort")
  /\ ii' = [ii EXCEPT ![r] = 0]
  /\ jj' = [jj EXCEPT ![r] = 0]
  /\ UNCHANGED <<entries, head, seqs, writer, max_entries, total, min_seq,
                 skip_count, buf, seen, from, logged>>

(***************************************************************************)
(* The bubble sort by seq.  i and j are uint, so the bounds count - 1 and  *)
(* count - i - 1 are too: with count = 0 they wrap, and the loop compares  *)
(* what lies past the buffer ("wild").                                     *)
(***************************************************************************)
OuterBound(r) == (Len(buf[r]) - 1) % WORD
InnerBound(r) == (Len(buf[r]) - ii[r] - 1) % WORD

SortCompare(r) ==
  LET b == buf[r]
      j == jj[r] + 1
  IN
  /\ rpc[r] = "sort"
  /\ ii[r] < OuterBound(r) /\ jj[r] < InnerBound(r)
  /\ j < Len(b)
  /\ buf' = [buf EXCEPT ![r] = IF b[j].seq > b[j + 1].seq
                               THEN [b EXCEPT ![j] = b[j + 1], ![j + 1] = b[j]] ELSE b]
  /\ jj' = [jj EXCEPT ![r] = j]
  /\ UNCHANGED <<ring, seqs, writer, rpc, max_entries, cpu_id, total, min_seq,
                 skip_count, ii, seen, from, logged>>

SortWild(r) ==
  /\ rpc[r] = "sort"
  /\ ii[r] < OuterBound(r) /\ jj[r] < InnerBound(r)
  /\ jj[r] + 1 >= Len(buf[r])
  /\ rpc' = [rpc EXCEPT ![r] = "wild"]
  /\ UNCHANGED <<ring, seqs, writer, max_entries, cpu_id, total, min_seq,
                 skip_count, ii, jj, buf, seen, from, logged>>

SortNextPass(r) ==
  /\ rpc[r] = "sort"
  /\ ii[r] < OuterBound(r) /\ jj[r] >= InnerBound(r)
  /\ ii' = [ii EXCEPT ![r] = @ + 1]
  /\ jj' = [jj EXCEPT ![r] = 0]
  /\ UNCHANGED <<ring, seqs, writer, rpc, max_entries, cpu_id, total, min_seq,
                 skip_count, buf, seen, from, logged>>

SortDone(r) ==
  /\ rpc[r] = "sort"
  /\ ii[r] >= OuterBound(r)
  /\ rpc' = [rpc EXCEPT ![r] = "done"]
  /\ UNCHANGED <<ring, seqs, writer, max_entries, cpu_id, total, min_seq,
                 skip_count, ii, jj, buf, seen, from, logged>>

-----------------------------------------------------------------------------
WriterStep(c) ==
  \/ AcquireLog(c) \/ NextSeqRead(c) \/ NextSeqWrite(c) \/ FillEntry(c) \/ Publish(c)

ReaderStep(r) ==
  \/ CountRing(r) \/ LockRing(r) \/ CopyEntry(r) \/ UnlockRing(r)
  \/ SortCompare(r) \/ SortWild(r) \/ SortNextPass(r) \/ SortDone(r) \/ SnapshotReturn(r)

Next ==
  \/ \E c \in CPU : WriterStep(c) \/ \E m \in Msgs : KlogPrintf(c, m)
  \/ \E r \in Readers : ReaderStep(r) \/ \E max \in MaxEntries : SnapshotCall(r, max)

Spec == Init /\ [][Next]_vars

(* Interrupts are off while a lock is held, so a CPU inside klog.c keeps   *)
(* running; a CPU that spins on a lock (xchg) gets it when it is free      *)
(* again and again, hence the strong fairness of the steps that acquire.   *)
Fairness ==
  /\ \A c \in CPU : SF_vars(AcquireLog(c)) /\ SF_vars(NextSeqRead(c))
                   /\ WF_vars(NextSeqWrite(c) \/ FillEntry(c) \/ Publish(c))
  /\ \A r \in Readers : SF_vars(CountRing(r)) /\ SF_vars(LockRing(r))
        /\ WF_vars(CopyEntry(r) \/ UnlockRing(r) \/ SortCompare(r) \/ SortNextPass(r)
                     \/ SortDone(r) \/ SnapshotReturn(r))

FairSpec == Spec /\ Fairness
-----------------------------------------------------------------------------
(* Type invariant: the shared state, the writers' and the readers' calls.  *)
SharedType ==
  /\ lock \in [CPU -> CPU \cup Readers \cup {Free}]
  /\ entries \in [CPU -> [Slot -> Entry]]
  /\ head \in [CPU -> UInt]
  /\ seq_lock \in CPU \cup {Free} /\ global_seq \in UInt
  /\ logged \in Seq(Entry)

WriterType ==
  /\ wpc \in [CPU -> {"idle", "acquire", "seq", "seq_write", "fill", "publish"}]
  /\ wmsg \in [CPU -> Msgs] /\ wseq \in [CPU -> UInt]

ReaderType ==
  /\ rpc \in [Readers -> {"idle", "count", "lock", "copy", "sort", "done", "wild"}]
  /\ max_entries \in [Readers -> MaxEntries \cup {0}]
  /\ cpu_id \in [Readers -> CPU]
  /\ total \in [Readers -> Nat] /\ skip_count \in [Readers -> Nat]
  /\ min_seq \in [Readers -> UInt]
  /\ ii \in [Readers -> Nat] /\ jj \in [Readers -> Nat]
  /\ buf \in [Readers -> Seq(Entry)]
  /\ seen \in [Readers -> SUBSET UInt] /\ from \in [Readers -> [CPU -> UInt]]

TypeOK == SharedType /\ WriterType /\ ReaderType

(* Fewer than 2^32 - 1 entries so far: no sequence number has wrapped and  *)
(* none is the initial min_seq of klog_snapshot, 0xFFFFFFFF.               *)
NoWrap == Len(logged) < WORD

(* The entries of CPU c, oldest first, and the part of them that a reader  *)
(* of ring c finds.                                                        *)
LogOf(c) == SelectSeq(logged, LAMBDA e : e.cpu = c)
LastOf(s, n) == SubSeq(s, Len(s) - n + 1, Len(s))
Window(c) == [k \in 1 .. Retained(c) |->
                entries[c][(head[c] - Retained(c) + k - 1) % KLOG_BUF_SIZE]]

(* next_seq numbers the entries of all CPUs without a gap or a repetition, *)
(* whatever the interleaving of the writers.                               *)
SeqTotalOrder == \A i \in DOMAIN logged : logged[i].seq = (i - 1) % WORD

(* A ring that no writer has locked holds the last entries logged on its   *)
(* CPU, whole and in order: KLOG_BUF_SIZE of them, or all if there are     *)
(* fewer.                                                                  *)
RingHoldsLast ==
  NoWrap => \A c \in CPU : lock[c] # c => Window(c) = LastOf(LogOf(c), Retained(c))

(* A snapshot is a subsequence of what was logged: whole entries, none     *)
(* twice, in the order of their sequence numbers.                          *)
Increasing(b) == \A i, j \in DOMAIN b : i < j => b[i].seq < b[j].seq
SnapshotSound ==
  NoWrap => \A r \in Readers : rpc[r] = "done" =>
    /\ Range(buf[r]) \subseteq Range(logged)
    /\ Increasing(buf[r])

(* The entries of one CPU in a snapshot are consecutive entries of it: the *)
(* copy of a ring misses nothing that a concurrent writer overwrites.      *)
SnapshotNoHoles ==
  NoWrap => \A r \in Readers, c \in CPU : rpc[r] = "done" =>
    LET mine == SelectSeq(buf[r], LAMBDA e : e.cpu = c) IN
    \E k \in 0 .. Len(LogOf(c)) - Len(mine) : mine = SubSeq(LogOf(c), k + 1, k + Len(mine))

(* The second pass always finds an entry, so that the sort, whose unsigned *)
(* bound count - 1 would wrap, never runs on an empty buffer.              *)
SortInBounds == NoWrap => \A r \in Readers : rpc[r] # "wild"
(* What klog_snapshot promises ("returns LAST (most recent) entries") when *)
(* nothing was published since the call: the max_entries most recent ones  *)
(* of all that the rings hold.                                             *)
Quiet(r) == rpc[r] = "done" /\ head = from[r]
Held == UNION {Range(LastOf(SubSeq(LogOf(c), 1, head[c]), Retained(c))) : c \in CPU}
MostRecent(S, n) == {e \in S : Cardinality({f \in S : f.seq > e.seq}) < n}
ReturnsLast(r) == Range(buf[r]) = MostRecent(Held, max_entries[r])

SnapshotReturnsLast == NoWrap => \A r \in Readers : Quiet(r) => ReturnsLast(r)

(* The promise is kept while no ring has overwritten an entry, and also    *)
(* when everything that the rings hold fits into the caller's buffer.      *)
SnapshotReturnsLastUnlessOverwritten ==
  NoWrap => \A r \in Readers :
    Quiet(r) /\ (\/ \A c \in CPU : head[c] <= KLOG_BUF_SIZE
                 \/ total[r] <= max_entries[r]) => ReturnsLast(r)

(* Every klog_printf call returns: no writer is left waiting for a lock.   *)
WriterReturns == \A c \in CPU : wpc[c] # "idle" ~> wpc[c] = "idle"

(* Every klog_snapshot call returns to its caller.                         *)
SnapshotReturns == \A r \in Readers : rpc[r] = "count" ~> rpc[r] = "idle"

(* Every call of klog_printf and of klog_snapshot returns.                 *)
CallsReturn == WriterReturns /\ SnapshotReturns
=============================================================================
