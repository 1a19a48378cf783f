------------------------------ MODULE KlogInv ------------------------------
(***************************************************************************)
(* The inductive invariant behind SeqTotalOrder, SnapshotSound and         *)
(* SortInBounds; KlogSnapshotProofs.tla proves that Spec maintains it.     *)
(***************************************************************************)
EXTENDS Klog

Storing(c) == wpc[c] \in {"fill", "publish"}
Collecting(r) == rpc[r] \in {"lock", "copy", "sort"}

(* Each lock is held by the call that is inside its critical section.      *)
LockInv ==
  /\ \A c \in CPU : wpc[c] \in {"seq", "seq_write", "fill", "publish"} <=> lock[c] = c
  /\ \A c \in CPU : wpc[c] = "seq_write" <=> seq_lock = c
  /\ \A r \in Readers, c \in CPU : lock[c] = r <=> rpc[r] = "copy" /\ cpu_id[r] = c

(* The counter and the history agree; a writer in next_seq read the counter. *)
SeqInv ==
  /\ global_seq = Len(logged)
  /\ \A i \in 1 .. Len(logged) : logged[i].seq = i - 1
  /\ \A c \in CPU : wpc[c] = "seq_write" => wseq[c] = global_seq

(* What a writer of CPU c has stored so far is the entry that it logged.   *)
StoringInv(c) ==
  LET e == entries[c][head[c] % KLOG_BUF_SIZE] IN
  Storing(c) =>
    /\ head[c] < Len(logged)
    /\ wseq[c] < Len(logged)
    /\ logged[wseq[c] + 1] = [seq |-> wseq[c], cpu |-> c, msg |-> wmsg[c]]
    /\ e.seq = wseq[c]
    /\ wpc[c] = "publish" => e = logged[wseq[c] + 1]

(* Every other used slot of ring c holds a whole logged entry of CPU c; no *)
(* two used slots hold the same one; the slot written last has the largest *)
(* sequence number.                                                        *)
Used(c) == {k \in Slot : k < head[c]}
Settled(c) == {k \in Used(c) : ~(Storing(c) /\ k = head[c] % KLOG_BUF_SIZE)}
Newest(c) == entries[c][(head[c] - 1) % KLOG_BUF_SIZE].seq

(* The positions of ring c whose entries are not overwritten, oldest first. *)
Live(c) == {i \in 0 .. head[c] - 1 :
              IF Storing(c) THEN i + KLOG_BUF_SIZE > head[c] ELSE i + KLOG_BUF_SIZE >= head[c]}

RingInv(c) ==
  /\ head[c] <= Len(logged)
  /\ \A k \in Settled(c) : LET e == entries[c][k] IN
       e.seq < Len(logged) /\ logged[e.seq + 1] = e /\ e.cpu = c
  /\ \A k, l \in Settled(c) : entries[c][k].seq = entries[c][l].seq => k = l
  /\ ~Storing(c) => \A k \in Settled(c) : entries[c][k].seq <= Newest(c)
  /\ Storing(c) => \A k \in Settled(c) : entries[c][k].seq < wseq[c]
  /\ \A i, j \in Live(c) : i < j =>
       entries[c][i % KLOG_BUF_SIZE].seq < entries[c][j % KLOG_BUF_SIZE].seq

(* The newest entry of ring c is at least as new as x.                     *)
Covers(c, x) == head[c] >= 1 /\ Newest(c) >= x /\ (Storing(c) => x < wseq[c])

(* The first pass of r saw total different entries, none before min_seq,   *)
(* each on a ring it has scanned, whose newest entry is at least as new.   *)
SeenInv(r) ==
  /\ rpc[r] \in {"count", "lock", "copy", "sort"} =>
       /\ max_entries[r] \in MaxEntries
       /\ IsFiniteSet(seen[r]) /\ Cardinality(seen[r]) = total[r]
       /\ \A x \in seen[r] :
            /\ x < Len(logged) /\ min_seq[r] <= x
            /\ rpc[r] = "count" => logged[x + 1].cpu < cpu_id[r]
            /\ Covers(logged[x + 1].cpu, x)
  /\ rpc[r] = "count" /\ logged[1].cpu < cpu_id[r] => seen[r] # {}
  /\ Collecting(r) => seen[r] # {} /\ skip_count[r] = (IF total[r] > max_entries[r] THEN total[r] - max_entries[r] ELSE 0)

(* The second pass of r has copied an entry once it is past a ring with an *)
(* entry that the threshold lets through, and reaches the newest entry of  *)
(* such a ring before it gives up on it.  What it copied was logged.       *)
Wanted(r) == {x \in seen[r] : x >= min_seq[r] + skip_count[r]}
CollectInv(r) ==
  /\ rpc[r] \in {"idle", "count"} => buf[r] = << >>
  /\ rpc[r] # "wild"
  /\ rpc[r] = "copy" => ii[r] <= head[cpu_id[r]] /\ head[cpu_id[r]] - ii[r] <= KLOG_BUF_SIZE
  /\ Collecting(r) /\ buf[r] = << >> =>
       \A x \in Wanted(r) :
         /\ rpc[r] # "sort" /\ cpu_id[r] <= logged[x + 1].cpu
         /\ rpc[r] = "copy" /\ cpu_id[r] = logged[x + 1].cpu => ii[r] < head[cpu_id[r]]
  /\ rpc[r] \in {"lock", "copy"} => \A j \in 1 .. Len(buf[r]) :
       /\ buf[r][j].cpu <= cpu_id[r]
       /\ buf[r][j].cpu = cpu_id[r] => rpc[r] = "copy" /\
            \A t \in ii[r] .. head[cpu_id[r]] - 1 :
              buf[r][j].seq < entries[cpu_id[r]][t % KLOG_BUF_SIZE].seq

(* What r copied was logged, and no entry was copied twice.                *)
BufInv(r) ==
  LET b == buf[r] IN
  Collecting(r) \/ rpc[r] = "done" =>
    /\ Len(b) <= max_entries[r]
    /\ \A j \in 1 .. Len(b) : b[j].seq < Len(logged) /\ logged[b[j].seq + 1] = b[j]
    /\ \A j, k \in 1 .. Len(b) : b[j].seq = b[k].seq => j = k

(* The bubble sort: the last i entries are in place, and the entry at j is *)
(* the largest so far.                                                     *)
SortInv(r) ==
  LET b == buf[r]
      n == Len(b)
      i == ii[r]
      j == jj[r]
  IN
  /\ rpc[r] = "sort" =>
       /\ n >= 1 /\ i <= n - 1 /\ j <= n - i - 1
       /\ \A k \in 1 .. n, l \in n - i + 1 .. n : k < l => b[k].seq < b[l].seq
       /\ \A k \in 1 .. j : b[k].seq < b[j + 1].seq
  /\ rpc[r] = "done" => n >= 1 /\ \A k, l \in 1 .. n : k < l => b[k].seq < b[l].seq

BootInv == Len(logged) >= 1 /\ head[logged[1].cpu] >= 1

KlogInv ==
  /\ LockInv
  /\ NoWrap =>
       /\ SeqInv /\ BootInv
       /\ \A c \in CPU : StoringInv(c) /\ RingInv(c)
       /\ \A r \in Readers : SeenInv(r) /\ CollectInv(r) /\ BufInv(r) /\ SortInv(r)
=============================================================================
