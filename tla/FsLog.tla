------------------------------- MODULE FsLog -------------------------------
(***************************************************************************)
(* The file system's redo log (log.c) on a disk that may lose power        *)
(* between any two block writes.                                           *)
(*                                                                         *)
(* A process brackets each file system operation with begin_op and end_op  *)
(* and changes blocks in the buffer cache with log_write; the last end_op  *)
(* commits what all operations since the last commit wrote.                *)
(*                                                                         *)
(* The cache is what bread returns: an evicted block was clean, and is     *)
(* read again from the disk.  One bwrite is one step.  Steps of log.lock's *)
(* critical sections are single steps too, but the test that log_write     *)
(* makes before it takes the lock is a step of its own.                    *)
(***************************************************************************)
EXTENDS Integers, Sequences, FiniteSets, Functions

CONSTANTS
  Block,        \* home blocks
  Data,         \* contents of a block
  Proc,         \* processes
  MAXOPBLOCKS,  \* blocks that begin_op reserves for an operation
  LOGSIZE,      \* blocks that begin_op hands out
  size,         \* log.size: blocks of the log on disk, its header included
  NoBlock,      \* no buffer
  OpBlocks      \* blocks that an operation really writes

ASSUME FsLogAssumption ==
  /\ MAXOPBLOCKS \in Nat /\ LOGSIZE \in Nat /\ size \in Nat /\ OpBlocks \in Nat
  /\ IsFiniteSet(Proc)
  /\ NoBlock \notin Block

VARIABLES
  disk,         \* the home blocks on disk
  logblk,       \* the log's data blocks on disk
  dh,           \* the log's header block on disk: block[0 .. n - 1]
  cache,        \* the home blocks as bread returns them
  lh,           \* log.lh in memory
  outstanding,
  committing,
  mode,         \* "boot", "recover", "run"; "panic": with log.lock held;
                \* "past": what follows the log on disk is overwritten
  tail,         \* the loop counter of write_log and install_trans
  pc,           \* where each process is
  blk,          \* the buffer that a process has locked and modified
  wrote         \* the blocks that the operation of a process has logged

ondisk == <<disk, logblk, dh>>
vars == <<ondisk, cache, lh, outstanding, committing, mode, tail, pc, blk, wrote>>

Slots == 0 .. size - 2
InOp == {p \in Proc : pc[p] \in {"op", "modified", "checked", "panic"}}

(* A disk as mkfs made it, the kernel about to start. *)
Init ==
  /\ disk \in [Block -> Data]
  /\ \E v \in Data : logblk = [t \in Slots |-> v]
  /\ dh = << >>
  /\ cache = disk
  /\ lh = << >>
  /\ outstanding = 0
  /\ committing = 0
  /\ mode = "boot"
  /\ tail = 0
  /\ pc = [p \in Proc |-> "idle"]
  /\ blk = [p \in Proc |-> NoBlock]
  /\ wrote = [p \in Proc |-> {}]

-----------------------------------------------------------------------------
(* One round of install_trans: the next log block goes to its home. *)
InstallBlock ==
  /\ tail < Len(lh)
  /\ disk' = [disk EXCEPT ![lh[tail + 1]] = logblk[tail]]
  /\ cache' = [cache EXCEPT ![lh[tail + 1]] = logblk[tail]]
  /\ tail' = tail + 1

(* initlog and recover_from_log: read_head, install_trans, an empty header. *)
ReadHead ==
  /\ mode = "boot"
  /\ mode' = "recover"
  /\ lh' = dh
  /\ tail' = 0
  /\ UNCHANGED <<ondisk, cache, outstanding, committing, pc, blk, wrote>>

RecoverInstall ==
  /\ mode = "recover"
  /\ InstallBlock
  /\ UNCHANGED <<logblk, dh, lh, outstanding, committing, mode, pc, blk, wrote>>

RecoverErase ==
  /\ mode = "recover"
  /\ tail = Len(lh)
  /\ lh' = << >>
  /\ dh' = << >>
  /\ tail' = 0
  /\ mode' = "run"
  /\ UNCHANGED <<disk, logblk, cache, outstanding, committing, pc, blk, wrote>>

(* Power fails, or the kernel that panicked is reset: memory is lost. *)
Crash ==
  /\ mode # "boot"
  /\ mode' = "boot"
  /\ cache' = disk
  /\ lh' = << >>
  /\ outstanding' = 0
  /\ committing' = 0
  /\ tail' = 0
  /\ pc' = [p \in Proc |-> "idle"]
  /\ blk' = [p \in Proc |-> NoBlock]
  /\ wrote' = [p \in Proc |-> {}]
  /\ UNCHANGED ondisk

-----------------------------------------------------------------------------
(* begin_op *)
Call(p) ==
  /\ mode = "run"
  /\ pc[p] = "idle"
  /\ pc' = [pc EXCEPT ![p] = "begin"]
  /\ UNCHANGED <<ondisk, cache, lh, outstanding, committing, mode, tail, blk, wrote>>

(* A slip: the operation that begins is not counted. *)
MustWaitUncounted == committing = 1 \/ Len(lh) + outstanding * MAXOPBLOCKS > LOGSIZE

MustWait == committing = 1 \/ Len(lh) + (outstanding + 1) * MAXOPBLOCKS > LOGSIZE

BeginSleep(p) ==
  /\ mode = "run"
  /\ pc[p] = "begin"
  /\ MustWait
  /\ pc' = [pc EXCEPT ![p] = "sleep"]
  /\ UNCHANGED <<ondisk, cache, lh, outstanding, committing, mode, tail, blk, wrote>>

BeginOp(p) ==
  /\ mode = "run"
  /\ pc[p] = "begin"
  /\ ~MustWait
  /\ outstanding' = outstanding + 1
  /\ pc' = [pc EXCEPT ![p] = "op"]
  /\ UNCHANGED <<ondisk, cache, lh, committing, mode, tail, blk, wrote>>

(* An operation locks a buffer and modifies it (bread); OpBlocks limits how *)
(* many blocks it modifies.                                                *)
Modify(p, b, v) ==
  /\ mode = "run"
  /\ pc[p] = "op"
  /\ \A q \in Proc : blk[q] # b
  /\ Cardinality(wrote[p] \cup {b}) <= OpBlocks
  /\ cache' = [cache EXCEPT ![b] = v]
  /\ blk' = [blk EXCEPT ![p] = b]
  /\ pc' = [pc EXCEPT ![p] = "modified"]
  /\ UNCHANGED <<ondisk, lh, outstanding, committing, mode, tail, wrote>>

(* log_write: the two tests, without log.lock.  A process that panics keeps *)
(* its CPU and its buffer; the others go on.                               *)
TooBig == Len(lh) >= LOGSIZE \/ Len(lh) >= size - 1

LogWriteTest(p) ==
  /\ mode = "run"
  /\ pc[p] = "modified"
  /\ pc' = [pc EXCEPT ![p] = IF TooBig \/ outstanding < 1 THEN "panic" ELSE "checked"]
  /\ UNCHANGED <<ondisk, cache, lh, outstanding, committing, mode, tail, blk, wrote>>

(* A slip: a block that is already in the header is recorded again. *)
LogWriteTwice(p) ==
  /\ mode = "run"
  /\ pc[p] = "checked"
  /\ lh' = Append(lh, blk[p])
  /\ wrote' = [wrote EXCEPT ![p] = @ \cup {blk[p]}]
  /\ blk' = [blk EXCEPT ![p] = NoBlock]
  /\ pc' = [pc EXCEPT ![p] = "op"]
  /\ UNCHANGED <<ondisk, cache, outstanding, committing, mode, tail>>

(* log_write: under log.lock, record the block or absorb it; then brelse *)
LogWrite(p) ==
  /\ mode = "run"
  /\ pc[p] = "checked"
  /\ lh' = IF blk[p] \in Range(lh) THEN lh ELSE Append(lh, blk[p])
  /\ wrote' = [wrote EXCEPT ![p] = @ \cup {blk[p]}]
  /\ blk' = [blk EXCEPT ![p] = NoBlock]
  /\ pc' = [pc EXCEPT ![p] = "op"]
  /\ UNCHANGED <<ondisk, cache, outstanding, committing, mode, tail>>

-----------------------------------------------------------------------------
(* wakeup(&log) by p, which goes on at next *)
WakeupLog(p, next) ==
  pc' = [q \in Proc |-> IF q = p THEN next ELSE IF pc[q] = "sleep" THEN "begin" ELSE pc[q]]

(* end_op: the last operation commits. *)
EndOp(p) ==
  /\ mode = "run"
  /\ pc[p] = "op"
  /\ outstanding' = outstanding - 1
  /\ wrote' = [wrote EXCEPT ![p] = {}]
  /\ IF committing = 1
     THEN mode' = "panic" /\ UNCHANGED <<pc, committing, tail>>
     ELSE /\ IF outstanding' = 0
             THEN /\ committing' = 1
                  /\ pc' = [pc EXCEPT ![p] = IF lh = << >> THEN "finish" ELSE "write_log"]
             ELSE WakeupLog(p, "idle") /\ UNCHANGED committing
          /\ tail' = 0
          /\ UNCHANGED mode
  /\ UNCHANGED <<ondisk, cache, lh, blk>>

(* write_log: the next block goes to the log; when the log is full, to the *)
(* block that follows it, and the model stops there.                       *)
WriteLog(p) ==
  /\ mode = "run"
  /\ pc[p] = "write_log"
  /\ tail < Len(lh)
  /\ IF tail \in Slots
     THEN /\ logblk' = [logblk EXCEPT ![tail] = cache[lh[tail + 1]]]
          /\ tail' = tail + 1
          /\ UNCHANGED mode
     ELSE mode' = "past" /\ UNCHANGED <<logblk, tail>>
  /\ UNCHANGED <<disk, dh, cache, lh, outstanding, committing, pc, blk, wrote>>

(* A slip: the header is written before the last block is in the log. *)
WriteHeadEarly(p) ==
  /\ mode = "run"
  /\ pc[p] = "write_log"
  /\ tail = Len(lh) - 1
  /\ dh' = lh
  /\ tail' = 0
  /\ pc' = [pc EXCEPT ![p] = "install"]
  /\ UNCHANGED <<disk, logblk, cache, lh, outstanding, committing, mode, blk, wrote>>

(* write_head: the transaction commits *)
WriteHead(p) ==
  /\ mode = "run"
  /\ pc[p] = "write_log"
  /\ tail = Len(lh)
  /\ dh' = lh
  /\ tail' = 0
  /\ pc' = [pc EXCEPT ![p] = "install"]
  /\ UNCHANGED <<disk, logblk, cache, lh, outstanding, committing, mode, blk, wrote>>

Install(p) ==
  /\ mode = "run"
  /\ pc[p] = "install"
  /\ InstallBlock
  /\ UNCHANGED <<logblk, dh, lh, outstanding, committing, mode, pc, blk, wrote>>

(* A slip: the header is erased before the last block is installed. *)
EraseEarly(p) ==
  /\ mode = "run"
  /\ pc[p] = "install"
  /\ tail = Len(lh) - 1
  /\ lh' = << >>
  /\ dh' = << >>
  /\ tail' = 0
  /\ pc' = [pc EXCEPT ![p] = "finish"]
  /\ UNCHANGED <<disk, logblk, cache, outstanding, committing, mode, blk, wrote>>

(* log.lh.n = 0; write_head: erase the transaction from the log *)
Erase(p) ==
  /\ mode = "run"
  /\ pc[p] = "install"
  /\ tail = Len(lh)
  /\ lh' = << >>
  /\ dh' = << >>
  /\ tail' = 0
  /\ pc' = [pc EXCEPT ![p] = "finish"]
  /\ UNCHANGED <<disk, logblk, cache, outstanding, committing, mode, blk, wrote>>

(* A slip: nobody is woken after the commit. *)
FinishSilent(p) ==
  /\ mode = "run"
  /\ pc[p] = "finish"
  /\ committing' = 0
  /\ pc' = [pc EXCEPT ![p] = "idle"]
  /\ UNCHANGED <<ondisk, cache, lh, outstanding, mode, tail, blk, wrote>>

(* end_op after commit: let the waiting operations in *)
Finish(p) ==
  /\ mode = "run"
  /\ pc[p] = "finish"
  /\ committing' = 0
  /\ WakeupLog(p, "idle")
  /\ UNCHANGED <<ondisk, cache, lh, outstanding, mode, tail, blk, wrote>>

-----------------------------------------------------------------------------
ProcStep(p) ==
  \/ BeginSleep(p) \/ BeginOp(p) \/ LogWriteTest(p) \/ LogWrite(p) \/ EndOp(p)
  \/ WriteLog(p) \/ WriteHead(p) \/ Install(p) \/ Erase(p) \/ Finish(p)

Next ==
  \/ ReadHead \/ RecoverInstall \/ RecoverErase \/ Crash
  \/ \E p \in Proc : \/ Call(p) \/ ProcStep(p)
                     \/ \E b \in Block, v \in Data : Modify(p, b, v)

Spec == Init /\ [][Next]_vars
(* Every process is scheduled, the disk answers, and an operation does not *)
(* write for ever: a system call writes a bounded number of blocks.        *)
Fairness ==
  /\ \A p \in Proc : WF_vars(ProcStep(p)) /\ SF_vars(EndOp(p))

FairSpec == Spec /\ Fairness
-----------------------------------------------------------------------------
TypeOK ==
  /\ disk \in [Block -> Data] /\ logblk \in [Slots -> Data] /\ dh \in Seq(Block)
  /\ cache \in [Block -> Data] /\ lh \in Seq(Block)
  /\ outstanding \in Int /\ committing \in {0, 1} /\ tail \in Nat
  /\ mode \in {"boot", "recover", "run", "panic", "past"}
  /\ pc \in [Proc -> {"idle", "begin", "sleep", "op", "modified", "checked",
                      "write_log", "install", "finish", "panic"}]
  /\ blk \in [Proc -> Block \cup {NoBlock}]
  /\ wrote \in [Proc -> SUBSET Block]

(* The home blocks that recovery makes of blocks d, log blocks l, header h. *)
Replay(d, l, h) ==
  [b \in Block |-> IF \E t \in 1 .. Len(h) : h[t] = b
                   THEN l[(CHOOSE t \in 1 .. Len(h) : h[t] = b) - 1] ELSE d[b]]

Recovered == Replay(disk, logblk, dh)
Current == IF mode \in {"boot", "recover"} THEN Recovered ELSE cache

(* The log implements an atomic disk: whenever power fails, recovery finds *)
(* the writes of whole operations only.                                    *)
Atomic == INSTANCE AtomicDisk WITH stable <- Recovered, current <- Current, active <- InOp

AtomicSpec == Atomic!Spec

(* When no operation is running or committing, everything is durable.      *)
Durable ==
  mode = "run" /\ outstanding = 0 /\ committing = 0 => Recovered = cache /\ disk = cache

(* A process that sleeps in begin_op will be woken up: an operation that   *)
(* will end, or a commit that will finish, is under way.                   *)
NoLostWakeup ==
  (\E p \in Proc : pc[p] = "sleep") => outstanding > 0 \/ committing = 1

(* Nobody is inside an operation while the log is being committed, and one *)
(* process at most commits.                                                *)
CommitAlone ==
  /\ outstanding = Cardinality(InOp) \/ mode # "run"
  /\ committing = 1 => InOp = {}
  /\ \A p, q \in Proc : {pc[p], pc[q]} \subseteq {"write_log", "install", "finish"} => p = q

(* A process that sleeps in begin_op wakes up.                              *)
WokenUp == \A p \in Proc : pc[p] = "sleep" ~> pc[p] # "sleep"

(* begin_op reserves enough room: no operation makes log_write panic.      *)
NoPanic == mode # "panic" /\ \A p \in Proc : pc[p] # "panic"

(* The log never grows past its blocks on disk.                            *)
LogFits == Len(lh) <= size - 1
=============================================================================
