------------------------------ MODULE FsLogInv ------------------------------
(***************************************************************************)
(* The inductive invariant of FsLog: what makes its properties true.       *)
(* FsLogProofs.tla proves it.                                              *)
(***************************************************************************)
EXTENDS FsLog

Committers == {p \in Proc : pc[p] \in {"write_log", "install", "finish"}}
At(l) == \E p \in Proc : pc[p] = l

(* The log writes that the operations under way may still make: a pair for *)
(* each block of OpBlocks that an operation has not used.                  *)
Room == {r \in InOp \X (1 .. OpBlocks) : r[2] > Cardinality(wrote[r[1]])}

(* An operation leaves one of its MAXOPBLOCKS blocks unused, so that the   *)
(* header, which log.size counts and LOGSIZE does not, has its place.      *)
Enough ==
  /\ OpBlocks < MAXOPBLOCKS
  /\ OpBlocks + 2 <= LOGSIZE /\ MAXOPBLOCKS <= LOGSIZE
  /\ LOGSIZE <= size

(* outstanding counts the operations under way; committing says that one   *)
(* process commits and that no operation is under way.                     *)
OpsInv ==
  /\ mode \in {"boot", "recover", "run"}
  /\ outstanding = Cardinality(InOp)
  /\ committing = 1 <=> Committers # {}
  /\ committing = 1 => InOp = {}
  /\ \A p, q \in Committers : p = q
  /\ mode # "run" => \A p \in Proc : pc[p] = "idle"
  /\ \A p \in Proc : pc[p] = "sleep" => InOp # {} \/ committing = 1
  /\ \A p \in Proc : pc[p] # "panic"
  /\ \A p \in Proc : blk[p] \in Block <=> (pc[p] \in {"modified", "checked"})
  /\ \A p \in Proc : IsFiniteSet(wrote[p]) /\ wrote[p] \subseteq Range(lh)
  /\ \A p \in Proc : p \notin InOp => wrote[p] = {}
  /\ \A p \in Proc : blk[p] \in Block => Cardinality(wrote[p] \cup {blk[p]}) <= OpBlocks

(* The reservation of begin_op covers what the operations may still write. *)
RoomInv == mode = "run" => Len(lh) + Cardinality(Room) <= LOGSIZE - 2

Distinct(s) == \A i, j \in 1 .. Len(s) : s[i] = s[j] => i = j

(* The blocks of s that are installed: the first n. *)
Installed(s, n) == \A t \in 1 .. n : disk[s[t]] = logblk[t - 1]

(* The log on disk holds the first n blocks of lh. *)
Logged(n) == \A t \in 1 .. n : logblk[t - 1] = cache[lh[t]]

HeaderInv ==
  /\ Distinct(lh) /\ Distinct(dh)
  /\ Len(dh) <= size - 1
  /\ tail <= Len(lh)
  /\ mode = "boot" => cache = disk /\ lh = << >>
  /\ mode = "recover" => lh = dh /\ cache = disk /\ Installed(dh, tail)
  /\ mode = "run" => (dh # << >> => At("install"))
  /\ mode = "run" /\ InOp = {} /\ lh # << >> => At("write_log") \/ At("install")
  /\ At("write_log") => Logged(tail)
  /\ At("install") => dh = lh /\ Logged(Len(lh)) /\ Installed(lh, tail)

(* A block that differs from the disk is in the log's header, or locked.   *)
DirtyInv ==
  \A b \in Block : cache[b] # disk[b] => b \in Range(lh) \/ \E p \in Proc : blk[p] = b

LogInv == TypeOK /\ OpsInv /\ RoomInv /\ HeaderInv /\ DirtyInv
=============================================================================
