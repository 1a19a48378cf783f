---------------------------- MODULE FsLogProofs ----------------------------
(***************************************************************************)
(* Proofs that FsLog keeps its invariant, its safety properties, and that  *)
(* it implements AtomicDisk, when operations write fewer than MAXOPBLOCKS  *)
(* blocks (Enough).                                                        *)
(***************************************************************************)
EXTENDS FsLogInv, FiniteSetTheorems, TLAPS

(* The provers a leaf without a pragma is given to. *)
USE SMTT(20), ZenonT(20), Z3T(60)

(* The actions of a process, the calls and modifications included. *)
Act(p) == Call(p) \/ ProcStep(p) \/ \E b \in Block, v \in Data : Modify(p, b, v)

(* InstallBlock keeps the types: it reads a block of the log. *)
LEMMA InstallType ==
  ASSUME TypeOK, InstallBlock, Len(lh) <= size - 1
  PROVE  /\ disk' \in [Block -> Data] /\ cache' \in [Block -> Data] /\ tail' \in Nat
         /\ tail \in Slots /\ lh[tail + 1] \in Block
<1>1. tail \in Nat /\ Len(lh) \in Nat /\ size \in Nat
  BY FsLogAssumption DEF TypeOK
<1>2. tail \in Slots
  BY <1>1 DEF InstallBlock, Slots
<1>3. lh[tail + 1] \in Block
  BY <1>1 DEF InstallBlock, TypeOK
<1> QED
  BY <1>1, <1>2, <1>3 DEF InstallBlock, TypeOK

LEMMA InitType == Init => TypeOK
<1> SUFFICES ASSUME Init PROVE TypeOK
  BY Zenon
<1>1. logblk \in [Slots -> Data]
  BY Zenon DEF Init
<1>2. dh \in Seq(Block) /\ lh \in Seq(Block)
  BY DEF Init
<1>3. /\ pc \in [Proc -> {"idle"}] /\ blk \in [Proc -> {NoBlock}]
      /\ wrote \in [Proc -> {{}}]
  BY Zenon DEF Init
<1>4. /\ disk \in [Block -> Data] /\ cache \in [Block -> Data]
      /\ outstanding \in Int /\ committing \in {0, 1} /\ tail \in Nat
      /\ mode \in {"boot", "recover", "run", "panic", "past"}
  BY DEF Init
<1> QED
  BY Zenon, <1>1, <1>2, <1>3, <1>4 DEF TypeOK

(* At most OpBlocks pairs belong to each of a set of processes. *)
LEMMA Pairs ==
  ASSUME NEW S \in SUBSET Proc, NEW R \in SUBSET (S \X (1 .. OpBlocks))
  PROVE  /\ IsFiniteSet(S) /\ Cardinality(S) \in Nat
         /\ IsFiniteSet(R) /\ Cardinality(R) \in Nat
         /\ Cardinality(R) <= Cardinality(S) * OpBlocks
<1>1. IsFiniteSet(S) /\ Cardinality(S) \in Nat
  BY Zenon, FsLogAssumption, FS_Subset, FS_CardinalityType
<1>2. OpBlocks \in Nat
  BY Zenon, FsLogAssumption
<1>3. IsFiniteSet(1 .. OpBlocks) /\ Cardinality(1 .. OpBlocks) = OpBlocks
  BY <1>2, FS_Interval
<1>4. /\ IsFiniteSet(S \X (1 .. OpBlocks))
      /\ Cardinality(S \X (1 .. OpBlocks)) = Cardinality(S) * OpBlocks
  BY Zenon, <1>1, <1>3, FS_Product
<1>5. IsFiniteSet(R) /\ Cardinality(R) <= Cardinality(S) * OpBlocks
  BY Zenon, <1>4, FS_Subset
<1> QED
  BY Zenon, <1>1, <1>5, FS_CardinalityType

LEMMA LogBound ==
  ASSUME Enough, TypeOK, RoomInv, HeaderInv, mode \in {"run", "recover"}
  PROVE  Len(lh) \in Nat /\ Len(lh) <= size - 1 /\ (mode = "run" => Len(lh) <= LOGSIZE - 2)
<1>1. LOGSIZE \in Nat /\ size \in Nat /\ Len(lh) \in Nat
  BY FsLogAssumption DEF TypeOK
<1>2. CASE mode = "run"
  <2>1. InOp \in SUBSET Proc /\ Room \in SUBSET (InOp \X (1 .. OpBlocks))
    BY Zenon DEF InOp, Room
  <2>2. Cardinality(Room) \in Nat
    BY Zenon, <2>1, Pairs
  <2> QED
    BY <1>1, <1>2, <2>2 DEF RoomInv, Enough
<1>3. CASE mode = "recover"
  BY Zenon, <1>1, <1>3 DEF HeaderInv
<1> QED
  BY Zenon, <1>2, <1>3

(* Every step keeps the types. *)
LEMMA NextType ==
  ASSUME Enough, LogInv, Next
  PROVE  TypeOK'
<1>1. TypeOK
  BY Zenon DEF LogInv
<1>2. mode \in {"run", "recover"} => Len(lh) <= size - 1
  BY Zenon, LogBound DEF LogInv
<1>3. CASE ReadHead
  BY Zenon, <1>1, <1>3 DEF ReadHead, TypeOK, ondisk
<1>4. CASE RecoverInstall
  BY Zenon, <1>1, <1>2, <1>4, InstallType DEF RecoverInstall, TypeOK
<1>5. CASE RecoverErase
  BY <1>1, <1>5 DEF RecoverErase, TypeOK
<1>6. CASE Crash
  BY <1>1, <1>6 DEF Crash, TypeOK, ondisk
<1>7. ASSUME NEW p \in Proc, Act(p) PROVE TypeOK'
  <2>1. CASE Call(p)
    BY Zenon, <1>1, <2>1 DEF Call, TypeOK, ondisk
  <2>2. CASE BeginSleep(p)
    BY Zenon, <1>1, <2>2 DEF BeginSleep, TypeOK, ondisk
  <2>3. CASE BeginOp(p)
    BY <1>1, <2>3 DEF BeginOp, TypeOK, ondisk
  <2>4. ASSUME NEW b \in Block, NEW v \in Data, Modify(p, b, v) PROVE TypeOK'
    BY Zenon, <1>1, <2>4 DEF Modify, TypeOK, ondisk
  <2>5. CASE LogWriteTest(p)
    BY Zenon, <1>1, <2>5 DEF LogWriteTest, TypeOK, ondisk
  <2>6. CASE LogWrite(p)
    <3>1. blk[p] \in Block
      BY Zenon, <2>6 DEF LogInv, OpsInv, LogWrite
    <3>2. lh' \in Seq(Block)
      BY <1>1, <2>6, <3>1 DEF LogWrite, TypeOK
    <3>3. wrote' \in [Proc -> SUBSET Block]
      BY Zenon, <1>1, <2>6, <3>1 DEF LogWrite, TypeOK
    <3> QED
      BY Zenon, <1>1, <2>6, <3>2, <3>3 DEF LogWrite, TypeOK, ondisk
  <2>7. CASE EndOp(p)
    <3>1. pc' \in [Proc -> {"idle", "begin", "sleep", "op", "modified", "checked",
                            "write_log", "install", "finish", "panic"}]
      BY Zenon, <1>1, <2>7 DEF EndOp, WakeupLog, TypeOK
    <3>2. /\ outstanding' \in Int /\ committing' \in {0, 1} /\ tail' \in Nat
          /\ mode' \in {"boot", "recover", "run", "panic", "past"}
      BY <1>1, <2>7 DEF EndOp, TypeOK
    <3>3. wrote' \in [Proc -> SUBSET Block] /\ UNCHANGED <<disk, logblk, dh, cache, lh, blk>>
      BY Zenon, <1>1, <2>7 DEF EndOp, TypeOK, ondisk
    <3> QED
      BY Zenon, <1>1, <3>1, <3>2, <3>3 DEF TypeOK
  <2>8. CASE WriteLog(p)
    BY <1>1, <2>8 DEF WriteLog, TypeOK
  <2>9. CASE WriteHead(p)
    BY Zenon, <1>1, <2>9 DEF WriteHead, TypeOK
  <2>10. CASE Install(p)
    BY Zenon, <1>1, <1>2, <2>10, InstallType DEF Install, TypeOK
  <2>11. CASE Erase(p)
    BY <1>1, <2>11 DEF Erase, TypeOK
  <2>12. CASE Finish(p)
    <3>1. pc' \in [Proc -> {"idle", "begin", "sleep", "op", "modified", "checked",
                            "write_log", "install", "finish", "panic"}]
      BY Zenon, <1>1, <2>12 DEF Finish, WakeupLog, TypeOK
    <3> QED
      BY Zenon, <1>1, <2>12, <3>1 DEF Finish, TypeOK, ondisk
  <2> QED
    BY Zenon, <1>7, <2>1, <2>2, <2>3, <2>4, <2>5, <2>6, <2>7, <2>8, <2>9, <2>10, <2>11, <2>12
    DEF Act, ProcStep
<1> QED
  BY Zenon, <1>3, <1>4, <1>5, <1>6, <1>7 DEF Next, Act

(* No operation is under way and nobody commits when every process is idle. *)
LEMMA AllIdle ==
  ASSUME \A p \in Proc : pc[p] = "idle"
  PROVE  InOp = {} /\ Committers = {} /\ Cardinality(InOp) = 0
<1>1. InOp = {} /\ Committers = {}
  BY Zenon DEF InOp, Committers
<1> QED
  BY Zenon, <1>1, FS_EmptySet

LEMMA InitOps == Init => OpsInv
<1> SUFFICES ASSUME Init PROVE OpsInv
  BY Zenon
<1>1. \A p \in Proc : pc[p] = "idle" /\ blk[p] = NoBlock /\ wrote[p] = {}
  BY Zenon DEF Init
<1>2. InOp = {} /\ Committers = {} /\ Cardinality(InOp) = 0
  BY Zenon, <1>1, AllIdle
<1>3. mode = "boot" /\ outstanding = 0 /\ committing = 0
  BY Zenon DEF Init
<1> QED
  BY <1>1, <1>2, <1>3, FS_EmptySet, FsLogAssumption DEF OpsInv

(* OpsInv is kept by a step in which no process enters or leaves an        *)
(* operation or a commit, and no buffer is locked or released.             *)
LEMMA OpsFrame ==
  ASSUME OpsInv, UNCHANGED <<outstanding, committing, blk, wrote>>,
         InOp' = InOp, Committers' = Committers,
         mode' \in {"boot", "recover", "run"},
         Range(lh) \subseteq Range(lh') \/ \A p \in Proc : wrote[p] = {},
         mode' # "run" => \A p \in Proc : pc'[p] = "idle",
         \A p \in Proc : pc'[p] = "sleep" => InOp # {} \/ committing = 1,
         \A p \in Proc : pc'[p] # "panic",
         \A p \in Proc : pc'[p] \in {"modified", "checked"} <=> pc[p] \in {"modified", "checked"}
  PROVE  OpsInv'
<1>1. Range(lh)' = Range(lh')
  BY Zenon DEF Range
<1>2. \A p \in Proc : wrote'[p] \subseteq Range(lh)'
  BY Zenon, <1>1 DEF OpsInv
<1> QED
  BY Zenon, <1>2 DEF OpsInv

(* What log_write appends is in the header afterwards. *)
LEMMA AppendRange ==
  ASSUME NEW s \in Seq(Block), NEW b \in Block
  PROVE  /\ Range(Append(s, b)) = Range(s) \cup {b}
         /\ Len(Append(s, b)) = Len(s) + 1
         /\ b \in Range(s) => Range(s) = Range(s) \cup {b}
<1>1. DOMAIN s = 1 .. Len(s) /\ DOMAIN Append(s, b) = 1 .. Len(s) + 1 /\ Len(s) \in Nat
  OBVIOUS
<1>2. \A i \in 1 .. Len(s) : Append(s, b)[i] = s[i]
  OBVIOUS
<1>3. Append(s, b)[Len(s) + 1] = b
  OBVIOUS
<1>4. \A i \in 1 .. Len(s) + 1 : i \in 1 .. Len(s) \/ i = Len(s) + 1
  BY <1>1
<1> QED
  BY <1>1, <1>2, <1>3, <1>4 DEF Range

(* begin_op waits for an operation under way or for a commit. *)
LEMMA WaitReason ==
  ASSUME Enough, LogInv, mode = "run", MustWait
  PROVE  InOp # {} \/ committing = 1
<1> SUFFICES ASSUME InOp = {}, committing # 1 PROVE FALSE
  BY Zenon
<1>1. outstanding = 0
  BY Zenon, FS_EmptySet DEF LogInv, OpsInv
<1>2. ~At("write_log") /\ ~At("install")
  BY Zenon DEF LogInv, OpsInv, At, Committers
<1>3. lh = << >>
  BY Zenon, <1>2 DEF LogInv, HeaderInv
<1>4. Len(lh) = 0
  BY Zenon, <1>3
<1>5. MAXOPBLOCKS \in Nat /\ MAXOPBLOCKS <= LOGSIZE /\ LOGSIZE \in Nat
  BY Zenon, FsLogAssumption DEF Enough
<1>6. Len(lh) + (outstanding + 1) * MAXOPBLOCKS = MAXOPBLOCKS
  BY <1>1, <1>4, <1>5
<1> QED
  BY <1>5, <1>6 DEF MustWait

(* The tests of log_write pass. *)
LEMMA NotTooBig ==
  ASSUME Enough, LogInv, mode = "run", NEW p \in Proc, pc[p] = "modified"
  PROVE  ~TooBig /\ outstanding >= 1
<1>1. Len(lh) \in Nat /\ Len(lh) <= LOGSIZE - 2
  BY Zenon, LogBound DEF LogInv
<1>2. ~TooBig
  BY <1>1, FsLogAssumption DEF TooBig, Enough
<1>3. p \in InOp /\ IsFiniteSet(InOp)
  BY Zenon, FsLogAssumption, FS_Subset DEF InOp
<1>4. Cardinality(InOp) \in Nat /\ Cardinality(InOp) # 0
  BY Zenon, <1>3, FS_CardinalityType, FS_EmptySet
<1> QED
  BY <1>2, <1>4 DEF LogInv, OpsInv

(* The steps of one process that are no part of a commit keep OpsInv. *)
LEMMA OpOps ==
  ASSUME Enough, LogInv, NEW p \in Proc,
         \/ Call(p) \/ BeginSleep(p) \/ BeginOp(p) \/ LogWriteTest(p) \/ LogWrite(p)
         \/ \E b \in Block, v \in Data : Modify(p, b, v)
  PROVE  OpsInv'
<1>1. TypeOK /\ OpsInv
  BY Zenon DEF LogInv
<1>2. IsFiniteSet(InOp) /\ Cardinality(InOp) \in Nat /\ IsFiniteSet(Proc)
  BY Zenon, FsLogAssumption, FS_Subset, FS_CardinalityType DEF InOp
<1>3. pc \in [Proc -> {"idle", "begin", "sleep", "op", "modified", "checked",
                      "write_log", "install", "finish", "panic"}]
  BY Zenon, <1>1 DEF TypeOK
<1>4. CASE Call(p)
  <2>1. pc' = [pc EXCEPT ![p] = "begin"] /\ pc[p] = "idle" /\ mode = "run"
        /\ UNCHANGED <<outstanding, committing, blk, wrote, lh, mode>>
    BY Zenon, <1>4 DEF Call
  <2>2. InOp' = InOp /\ Committers' = Committers
    BY Zenon, <1>3, <2>1 DEF InOp, Committers
  <2> QED
    BY Zenon, <1>1, <1>3, <2>1, <2>2, OpsFrame DEF OpsInv
<1>5. CASE BeginSleep(p)
  <2>1. pc' = [pc EXCEPT ![p] = "sleep"] /\ pc[p] = "begin" /\ mode = "run" /\ MustWait
        /\ UNCHANGED <<outstanding, committing, blk, wrote, lh, mode>>
    BY Zenon, <1>5 DEF BeginSleep
  <2>2. InOp' = InOp /\ Committers' = Committers
    BY Zenon, <1>3, <2>1 DEF InOp, Committers
  <2>3. InOp # {} \/ committing = 1
    BY Zenon, <2>1, WaitReason
  <2> QED
    BY Zenon, <1>1, <1>3, <2>1, <2>2, <2>3, OpsFrame DEF OpsInv
<1>6. CASE BeginOp(p)
  <2>1. /\ pc' = [pc EXCEPT ![p] = "op"] /\ pc[p] = "begin" /\ mode = "run" /\ ~MustWait
        /\ outstanding' = outstanding + 1
        /\ UNCHANGED <<committing, blk, wrote, lh, mode>>
    BY Zenon, <1>6 DEF BeginOp
  <2>2. InOp' = InOp \cup {p} /\ p \notin InOp /\ Committers' = Committers
    BY Zenon, <1>3, <2>1 DEF InOp, Committers
  <2>3. Cardinality(InOp') = Cardinality(InOp) + 1
    BY Zenon, <1>2, <2>2, FS_AddElement
  <2>4. committing # 1
    BY Zenon, <2>1 DEF MustWait
  <2>5. Cardinality(InOp)' = Cardinality(InOp')
    BY Zenon
  <2> QED
    BY Zenon, <1>1, <1>3, <2>1, <2>2, <2>3, <2>4, <2>5 DEF OpsInv
<1>7. CASE LogWriteTest(p)
  <2>1. ~(TooBig \/ outstanding < 1)
    <3>1. ~TooBig /\ outstanding >= 1
      BY Zenon, <1>7, NotTooBig DEF LogWriteTest
    <3> QED
      BY <1>1, <3>1 DEF TypeOK
  <2>2. pc' = [pc EXCEPT ![p] = "checked"] /\ pc[p] = "modified" /\ mode = "run"
        /\ UNCHANGED <<outstanding, committing, blk, wrote, lh, mode>>
    BY Zenon, <1>7, <2>1 DEF LogWriteTest
  <2>3. InOp' = InOp /\ Committers' = Committers
    BY Zenon, <1>3, <2>2 DEF InOp, Committers
  <2> QED
    BY Zenon, <1>1, <1>3, <2>2, <2>3, OpsFrame DEF OpsInv
<1>8. CASE LogWrite(p)
  <2>1. /\ pc' = [pc EXCEPT ![p] = "op"] /\ pc[p] = "checked" /\ mode = "run"
        /\ wrote' = [wrote EXCEPT ![p] = @ \cup {blk[p]}] /\ blk' = [blk EXCEPT ![p] = NoBlock]
        /\ UNCHANGED <<outstanding, committing, mode>>
    BY Zenon, <1>8 DEF LogWrite
  <2>2. InOp' = InOp /\ Committers' = Committers /\ p \in InOp
    BY Zenon, <1>3, <2>1 DEF InOp, Committers
  <2>3. blk[p] \in Block /\ blk[p] # NoBlock
    BY Zenon, <1>1, <2>1, FsLogAssumption DEF OpsInv
  <2>4. Range(lh)' = Range(lh) \cup {blk[p]}
    BY Zenon, <1>1, <1>8, <2>3, AppendRange DEF LogWrite, TypeOK
  <2>5. \A q \in Proc : IsFiniteSet(wrote'[q]) /\ wrote'[q] \subseteq Range(lh)'
    <3>1. IsFiniteSet(wrote[p] \cup {blk[p]})
      BY Zenon, <1>1, FS_AddElement DEF OpsInv
    <3>2. \A q \in Proc : q # p => wrote'[q] = wrote[q]
      BY Zenon, <1>1, <2>1 DEF TypeOK
    <3>3. wrote'[p] = wrote[p] \cup {blk[p]}
      BY Zenon, <1>1, <2>1 DEF TypeOK
    <3> QED
      BY Zenon, <1>1, <2>4, <3>1, <3>2, <3>3 DEF OpsInv
  <2>6. \A q \in Proc : /\ q # p => blk'[q] = blk[q] /\ wrote'[q] = wrote[q] /\ pc'[q] = pc[q]
                        /\ q = p => blk'[q] = NoBlock /\ pc'[q] = "op"
    BY Zenon, <1>1, <2>1 DEF TypeOK
  <2>7. \A q \in Proc : q \notin InOp' => wrote'[q] = {}
    BY Zenon, <1>1, <2>2, <2>6 DEF OpsInv
  <2>8. \A q \in Proc : blk'[q] \in Block => Cardinality(wrote'[q] \cup {blk'[q]}) <= OpBlocks
    BY Zenon, <1>1, <2>6, FsLogAssumption DEF OpsInv
  <2>9. Cardinality(InOp') = Cardinality(InOp)
    BY Zenon, <2>2
  <2> QED
    BY Zenon, <1>1, <1>3, <2>1, <2>2, <2>5, <2>6, <2>7, <2>8, <2>9, FsLogAssumption DEF OpsInv
<1>9. ASSUME NEW b \in Block, NEW v \in Data, Modify(p, b, v) PROVE OpsInv'
  <2>1. /\ pc' = [pc EXCEPT ![p] = "modified"] /\ pc[p] = "op" /\ mode = "run"
        /\ blk' = [blk EXCEPT ![p] = b] /\ Cardinality(wrote[p] \cup {b}) <= OpBlocks
        /\ UNCHANGED <<outstanding, committing, wrote, lh, mode>>
    BY Zenon, <1>9 DEF Modify
  <2>2. InOp' = InOp /\ Committers' = Committers /\ p \in InOp
    BY Zenon, <1>3, <2>1 DEF InOp, Committers
  <2>3. \A q \in Proc : /\ q # p => blk'[q] = blk[q] /\ pc'[q] = pc[q]
                        /\ q = p => blk'[q] = b /\ pc'[q] = "modified"
    BY Zenon, <1>1, <2>1 DEF TypeOK
  <2>4. Cardinality(InOp') = Cardinality(InOp)
    BY Zenon, <2>2
  <2> QED
    BY Zenon, <1>1, <1>3, <2>1, <2>2, <2>3, <2>4 DEF OpsInv
<1> QED
  BY Zenon, <1>4, <1>5, <1>6, <1>7, <1>8, <1>9

(* While a process commits, no operation is under way and nothing is       *)
(* locked or counted.                                                      *)
LEMMA CommitterAlone ==
  ASSUME LogInv, NEW p \in Proc, pc[p] \in {"write_log", "install", "finish"}
  PROVE  /\ committing = 1 /\ Committers = {p} /\ InOp = {} /\ outstanding = 0
         /\ \A q \in Proc : wrote[q] = {} /\ blk[q] \notin Block
         /\ \A q \in Proc : q # p => pc[q] \notin {"write_log", "install", "finish"}
<1>1. p \in Committers /\ committing = 1 /\ InOp = {}
  BY Zenon DEF LogInv, OpsInv, Committers
<1>2. Committers = {p}
  BY Zenon, <1>1 DEF LogInv, OpsInv
<1>3. \A q \in Proc : pc[q] \notin {"modified", "checked"}
  BY Zenon, <1>1 DEF InOp
<1>4. \A q \in Proc : wrote[q] = {} /\ blk[q] \notin Block
  BY Zenon, <1>1, <1>3 DEF LogInv, OpsInv
<1>5. outstanding = 0
  BY Zenon, <1>1, FS_EmptySet DEF LogInv, OpsInv
<1> QED
  BY Zenon, <1>1, <1>2, <1>4, <1>5 DEF Committers

(* end_op keeps OpsInv. *)
LEMMA EndOps ==
  ASSUME Enough, LogInv, NEW p \in Proc, EndOp(p)
  PROVE  OpsInv'
<1>1. TypeOK /\ OpsInv
  BY Zenon DEF LogInv
<1>2. pc[p] = "op" /\ mode = "run" /\ p \in InOp
  BY Zenon DEF EndOp, InOp
<1>3. IsFiniteSet(InOp) /\ Cardinality(InOp) \in Nat
  BY Zenon, FsLogAssumption, FS_Subset, FS_CardinalityType DEF InOp
<1>4. committing = 0 /\ Committers = {}
  BY Zenon, <1>1, <1>2 DEF OpsInv, TypeOK
<1>5. /\ outstanding' = outstanding - 1 /\ wrote' = [wrote EXCEPT ![p] = {}]
      /\ UNCHANGED <<lh, blk, mode>>
      /\ \/ /\ outstanding' = 0 /\ committing' = 1
            /\ pc' = [pc EXCEPT ![p] = IF lh = << >> THEN "finish" ELSE "write_log"]
         \/ outstanding' # 0 /\ committing' = 0 /\ WakeupLog(p, "idle")
  BY <1>4 DEF EndOp
<1>6. pc'[p] \in {"idle", "finish", "write_log"}
  BY Zenon, <1>1, <1>5 DEF WakeupLog, TypeOK
<1>7. \A q \in Proc : q # p => pc'[q] = pc[q] \/ (pc[q] = "sleep" /\ pc'[q] = "begin")
  BY Zenon, <1>1, <1>5 DEF WakeupLog, TypeOK
<1>8. InOp' = InOp \ {p}
  BY Zenon, <1>6, <1>7 DEF InOp
<1>9. Cardinality(InOp') = Cardinality(InOp) - 1 /\ IsFiniteSet(InOp')
  BY Zenon, <1>2, <1>3, <1>8, FS_RemoveElement
<1>10. outstanding' = Cardinality(InOp')
  BY Zenon, <1>1, <1>5, <1>9 DEF OpsInv
<1>11. outstanding' = 0 <=> InOp' = {}
  BY Zenon, <1>9, <1>10, FS_EmptySet
<1>12. /\ \A q \in Proc : pc'[q] # "panic"
       /\ \A q \in Proc : blk'[q] \in Block <=> pc'[q] \in {"modified", "checked"}
  BY Zenon, <1>1, <1>2, <1>5, <1>6, <1>7 DEF OpsInv
<1>13. /\ \A q \in Proc : wrote'[q] = wrote[q] \/ wrote'[q] = {}
       /\ wrote'[p] = {}
  BY Zenon, <1>1, <1>5 DEF TypeOK
<1>14. /\ \A q \in Proc : IsFiniteSet(wrote'[q]) /\ wrote'[q] \subseteq Range(lh)'
       /\ \A q \in Proc : q \notin InOp' => wrote'[q] = {}
  BY Zenon, <1>1, <1>5, <1>8, <1>13, FS_EmptySet DEF OpsInv
<1>15. \A q \in Proc : blk'[q] \in Block => Cardinality(wrote'[q] \cup {blk'[q]}) <= OpBlocks
  <2>1. \A q \in Proc : q # p => wrote'[q] = wrote[q]
    BY Zenon, <1>1, <1>5 DEF TypeOK
  <2>2. blk[p] \notin Block
    BY Zenon, <1>1, <1>2 DEF OpsInv
  <2> QED
    BY Zenon, <1>1, <1>5, <2>1, <2>2 DEF OpsInv
<1>16. CASE outstanding' = 0
  <2>1. committing' = 1 /\ pc'[p] \in {"finish", "write_log"}
    BY Zenon, <1>1, <1>5, <1>16 DEF TypeOK
  <2>2. Committers' = {p}
    BY Zenon, <1>4, <1>7, <2>1 DEF Committers
  <2> QED
    BY Zenon, <1>1, <1>2, <1>5, <1>10, <1>11, <1>12, <1>14, <1>15, <1>16, <2>1, <2>2 DEF OpsInv
<1>17. CASE outstanding' # 0
  <2>1. committing' = 0 /\ WakeupLog(p, "idle")
    BY Zenon, <1>5, <1>17
  <2>2. \A q \in Proc : pc'[q] # "sleep"
    BY Zenon, <2>1 DEF WakeupLog
  <2>3. Committers' = {}
    BY Zenon, <1>4, <2>1 DEF Committers, WakeupLog
  <2> QED
    BY <1>1, <1>2, <1>5, <1>10, <1>11, <1>12, <1>14, <1>15, <1>17, <2>1, <2>2, <2>3 DEF OpsInv
<1> QED
  BY Zenon, <1>16, <1>17

(* commit and the end of end_op keep OpsInv. *)
LEMMA CommitOps ==
  ASSUME Enough, LogInv, NEW p \in Proc,
         WriteLog(p) \/ WriteHead(p) \/ Install(p) \/ Erase(p) \/ Finish(p)
  PROVE  OpsInv'
<1>1. TypeOK /\ OpsInv
  BY Zenon DEF LogInv
<1>2. mode = "run" /\ pc[p] \in {"write_log", "install", "finish"}
  BY Zenon DEF WriteLog, WriteHead, Install, Erase, Finish
<1>3. /\ committing = 1 /\ Committers = {p} /\ InOp = {} /\ outstanding = 0
      /\ \A q \in Proc : wrote[q] = {} /\ blk[q] \notin Block
      /\ \A q \in Proc : q # p => pc[q] \notin {"write_log", "install", "finish"}
  BY Zenon, <1>2, CommitterAlone
<1>4. pc \in [Proc -> {"idle", "begin", "sleep", "op", "modified", "checked",
                      "write_log", "install", "finish", "panic"}]
  BY Zenon, <1>1 DEF TypeOK
<1>5. CASE WriteLog(p)
  <2>1. Len(lh) \in Nat /\ Len(lh) <= size - 1 /\ size \in Nat /\ tail \in Nat /\ tail < Len(lh)
    BY Zenon, <1>2, <1>5, LogBound, FsLogAssumption DEF LogInv, TypeOK, WriteLog
  <2>2. tail \in Slots
    BY <2>1 DEF Slots
  <2>3. UNCHANGED <<outstanding, committing, blk, wrote, lh, pc, mode>>
    BY Zenon, <1>5, <2>2 DEF WriteLog
  <2>4. InOp' = InOp /\ Committers' = Committers
    BY Zenon, <2>3 DEF InOp, Committers
  <2> QED
    BY Zenon, <1>1, <1>2, <2>3, <2>4, OpsFrame DEF OpsInv
<1>6. CASE WriteHead(p)
  <2>1. pc' = [pc EXCEPT ![p] = "install"] /\ pc[p] = "write_log"
        /\ UNCHANGED <<outstanding, committing, blk, wrote, lh, mode>>
    BY Zenon, <1>6 DEF WriteHead
  <2>2. InOp' = InOp /\ Committers' = Committers
    BY Zenon, <1>4, <2>1 DEF InOp, Committers
  <2> QED
    BY <1>1, <1>2, <1>3, <1>4, <2>1, <2>2, OpsFrame DEF OpsInv
<1>7. CASE Install(p)
  <2>1. UNCHANGED <<outstanding, committing, blk, wrote, lh, pc, mode>>
    BY Zenon, <1>7 DEF Install
  <2>2. InOp' = InOp /\ Committers' = Committers
    BY Zenon, <2>1 DEF InOp, Committers
  <2> QED
    BY Zenon, <1>1, <1>2, <2>1, <2>2, OpsFrame DEF OpsInv
<1>8. CASE Erase(p)
  <2>1. pc' = [pc EXCEPT ![p] = "finish"] /\ pc[p] = "install"
        /\ UNCHANGED <<outstanding, committing, blk, wrote, mode>>
    BY Zenon, <1>8 DEF Erase
  <2>2. InOp' = InOp /\ Committers' = Committers
    BY Zenon, <1>4, <2>1 DEF InOp, Committers
  <2> QED
    BY <1>1, <1>2, <1>3, <1>4, <2>1, <2>2, OpsFrame DEF OpsInv
<1>9. CASE Finish(p)
  <2>1. WakeupLog(p, "idle") /\ committing' = 0 /\ UNCHANGED <<outstanding, blk, wrote, lh, mode>>
    BY Zenon, <1>9 DEF Finish
  <2>2. \A q \in Proc : pc'[q] = pc[q] \/ pc'[q] \in {"idle", "begin"}
    BY Zenon, <2>1 DEF WakeupLog
  <2>3. InOp' = {} /\ Committers' = {}
    BY Zenon, <1>3, <2>1, <2>2 DEF InOp, Committers, WakeupLog
  <2>4. \A q \in Proc : pc'[q] # "sleep" /\ pc'[q] # "panic"
    BY Zenon, <1>1, <2>1 DEF WakeupLog, OpsInv
  <2>5. \A q \in Proc : pc'[q] \notin {"modified", "checked"}
    BY Zenon, <2>3 DEF InOp
  <2>6. Cardinality(InOp)' = 0
    BY Zenon, <2>3, FS_EmptySet
  <2>7. \A q \in Proc : IsFiniteSet(wrote'[q]) /\ wrote'[q] = {} /\ blk'[q] \notin Block
    BY Zenon, <1>3, <2>1, FS_EmptySet
  <2> QED
    BY <1>2, <1>3, <2>1, <2>3, <2>4, <2>5, <2>6, <2>7 DEF OpsInv
<1> QED
  BY Zenon, <1>5, <1>6, <1>7, <1>8, <1>9

LEMMA NextOps ==
  ASSUME Enough, LogInv, Next
  PROVE  OpsInv'
<1>1. TypeOK /\ OpsInv
  BY Zenon DEF LogInv
<1>2. CASE ReadHead \/ RecoverInstall \/ RecoverErase
  <2>1. /\ mode \in {"boot", "recover"} /\ mode' \in {"recover", "run"}
        /\ UNCHANGED <<outstanding, committing, pc, blk, wrote>>
    BY Zenon, <1>2 DEF ReadHead, RecoverInstall, RecoverErase
  <2>2. \A p \in Proc : pc[p] = "idle"
    BY Zenon, <1>1, <2>1 DEF OpsInv
  <2>3. InOp' = InOp /\ Committers' = Committers /\ InOp = {}
    BY Zenon, <2>1, <2>2 DEF InOp, Committers
  <2>4. \A p \in Proc : wrote[p] = {}
    BY Zenon, <1>1, <2>3 DEF OpsInv
  <2> QED
    BY Zenon, <1>1, <2>1, <2>2, <2>3, <2>4, OpsFrame
<1>3. CASE Crash
  <2>1. /\ \A p \in Proc : pc'[p] = "idle" /\ blk'[p] = NoBlock /\ wrote'[p] = {}
        /\ mode' = "boot" /\ outstanding' = 0 /\ committing' = 0
    BY Zenon, <1>3 DEF Crash
  <2>2. InOp' = {} /\ Committers' = {}
    BY Zenon, <2>1 DEF InOp, Committers
  <2>3. Cardinality(InOp)' = 0
    BY Zenon, <2>2, FS_EmptySet
  <2> QED
    BY <2>1, <2>2, <2>3, FS_EmptySet, FsLogAssumption DEF OpsInv
<1>4. ASSUME NEW p \in Proc, Act(p) PROVE OpsInv'
  BY Zenon, <1>4, OpOps, EndOps, CommitOps DEF Act, ProcStep
<1> QED
  BY Zenon, <1>2, <1>3, <1>4 DEF Next, Act

LEMMA RoomPairs == Room \in SUBSET (InOp \X (1 .. OpBlocks)) /\ InOp \in SUBSET Proc
BY Zenon DEF Room, InOp

(* RoomInv is kept when neither the header nor the room grows. *)
LEMMA RoomShrinks ==
  ASSUME LogInv, mode = "run", TypeOK', Len(lh') <= Len(lh), Room' \subseteq Room
  PROVE  RoomInv'
<1>1. IsFiniteSet(Room) /\ Cardinality(Room) \in Nat
  BY Zenon, RoomPairs, Pairs
<1>2. Cardinality(Room') \in Nat /\ Cardinality(Room') <= Cardinality(Room)
  BY Zenon, <1>1, FS_Subset, FS_CardinalityType
<1>3. Len(lh) \in Nat /\ Len(lh') \in Nat /\ LOGSIZE \in Nat
  BY FsLogAssumption DEF LogInv, TypeOK
<1>4. Len(lh) + Cardinality(Room) <= LOGSIZE - 2
  BY Zenon DEF LogInv, RoomInv
<1>5. Len(lh') + Cardinality(Room') <= LOGSIZE - 2
  BY <1>1, <1>2, <1>3, <1>4
<1> QED
  BY Zenon, <1>5 DEF RoomInv

(* k operations that write fewer than MAXOPBLOCKS blocks each leave a block *)
(* each of what is reserved for them.                                      *)
LEMMA Spare ==
  ASSUME NEW k \in Nat, OpBlocks < MAXOPBLOCKS
  PROVE  k * OpBlocks + k <= k * MAXOPBLOCKS
<1>1. OpBlocks \in Nat /\ MAXOPBLOCKS \in Nat /\ MAXOPBLOCKS - OpBlocks - 1 \in Nat
  BY FsLogAssumption
<1>2. k * (MAXOPBLOCKS - OpBlocks - 1) >= 0
  BY <1>1
<1>3. k * (MAXOPBLOCKS - OpBlocks - 1) = k * MAXOPBLOCKS - k * OpBlocks - k
  BY <1>1
<1>4. k * MAXOPBLOCKS \in Nat /\ k * OpBlocks \in Nat
  BY <1>1
<1> QED
  BY <1>2, <1>3, <1>4

(* begin_op lets an operation in only when there is room for it. *)
LEMMA BeginRoom ==
  ASSUME Enough, LogInv, NEW p \in Proc, BeginOp(p)
  PROVE  RoomInv'
<1>1. TypeOK /\ OpsInv /\ HeaderInv
  BY Zenon DEF LogInv
<1>2. /\ pc' = [pc EXCEPT ![p] = "op"] /\ pc[p] = "begin" /\ mode = "run" /\ ~MustWait
      /\ UNCHANGED <<wrote, lh, mode>>
  BY Zenon DEF BeginOp
<1>3. InOp' = InOp \cup {p} /\ p \notin InOp
  BY Zenon, <1>1, <1>2 DEF InOp, TypeOK
<1>4. IsFiniteSet(InOp) /\ Cardinality(InOp) \in Nat
  BY Zenon, FsLogAssumption, FS_Subset, FS_CardinalityType DEF InOp
<1>5. Cardinality(InOp') = Cardinality(InOp) + 1
  BY Zenon, <1>3, <1>4, FS_AddElement
<1> DEFINE k == Cardinality(InOp')
<1>6. InOp' \in SUBSET Proc /\ Room' \in SUBSET (InOp' \X (1 .. OpBlocks))
  BY Zenon, <1>3 DEF InOp, Room
<1>7. k \in Nat /\ Cardinality(Room') \in Nat /\ Cardinality(Room') <= k * OpBlocks
  BY Zenon, <1>6, Pairs
<1>8. k = outstanding + 1 /\ k >= 1
  BY <1>1, <1>4, <1>5 DEF OpsInv
<1>9. Len(lh) \in Nat /\ LOGSIZE \in Nat /\ OpBlocks \in Nat /\ MAXOPBLOCKS \in Nat
      /\ OpBlocks + 2 <= LOGSIZE
  BY <1>1, FsLogAssumption DEF TypeOK, Enough
<1>10. Len(lh) + k * MAXOPBLOCKS <= LOGSIZE
  <2>1. ~(Len(lh) + k * MAXOPBLOCKS > LOGSIZE)
    BY Zenon, <1>2, <1>8 DEF MustWait
  <2>2. k * MAXOPBLOCKS \in Nat
    BY <1>7, <1>9
  <2> HIDE DEF k
  <2> QED
    BY <1>9, <2>1, <2>2
<1>11. k * OpBlocks + k <= k * MAXOPBLOCKS
  BY Zenon, <1>7, Spare DEF Enough
<1>12. Len(lh) + Cardinality(Room') <= LOGSIZE - 2
  <2>1. CASE k = 1
    <3>1. InOp = {}
      BY <1>4, <1>5, <2>1, FS_EmptySet
    <3>2. committing # 1
      BY Zenon, <1>2 DEF MustWait
    <3>3. ~At("write_log") /\ ~At("install")
      BY Zenon, <1>1, <3>2 DEF OpsInv, At, Committers
    <3>4. Len(lh) = 0
      BY <1>1, <1>2, <3>1, <3>3 DEF HeaderInv
    <3>5. k * OpBlocks = OpBlocks
      BY <1>9, <2>1
    <3> HIDE DEF k
    <3> QED
      BY <1>7, <1>9, <3>4, <3>5
  <2>2. CASE k >= 2
    <3>1. k * OpBlocks \in Nat /\ k * MAXOPBLOCKS \in Nat
      BY <1>7, <1>9
    <3> HIDE DEF k
    <3> QED
      BY <1>7, <1>9, <1>10, <1>11, <2>2, <3>1
  <2> HIDE DEF k
  <2> QED
    BY <1>7, <1>8, <2>1, <2>2
<1> QED
  BY Zenon, <1>2, <1>12 DEF RoomInv

(* log_write takes the room of one block when it appends. *)
LEMMA WriteRoom ==
  ASSUME Enough, LogInv, TypeOK', NEW p \in Proc, LogWrite(p)
  PROVE  RoomInv'
<1>1. TypeOK /\ OpsInv
  BY Zenon DEF LogInv
<1>2. /\ pc' = [pc EXCEPT ![p] = "op"] /\ pc[p] = "checked" /\ mode = "run"
      /\ wrote' = [wrote EXCEPT ![p] = @ \cup {blk[p]}]
      /\ lh' = IF blk[p] \in Range(lh) THEN lh ELSE Append(lh, blk[p])
  BY Zenon DEF LogWrite
<1>3. InOp' = InOp /\ p \in InOp
  BY Zenon, <1>1, <1>2 DEF InOp, TypeOK
<1>4. blk[p] \in Block /\ IsFiniteSet(wrote[p]) /\ wrote[p] \subseteq Range(lh)
      /\ Cardinality(wrote[p] \cup {blk[p]}) <= OpBlocks
  BY Zenon, <1>1, <1>2 DEF OpsInv
<1> DEFINE w == Cardinality(wrote[p])
           n == Cardinality(wrote[p] \cup {blk[p]})
<1>5. w \in Nat /\ n \in Nat /\ OpBlocks \in Nat
      /\ (IF blk[p] \in wrote[p] THEN n = w ELSE n = w + 1)
  BY Zenon, <1>4, FS_AddElement, FS_CardinalityType, FsLogAssumption
<1>6. \A q \in Proc : Cardinality(wrote'[q]) = IF q = p THEN n ELSE Cardinality(wrote[q])
  BY Zenon, <1>1, <1>2 DEF TypeOK
<1>7. \A q \in InOp, i \in 1 .. OpBlocks : <<q, i>> \in Room <=> i > Cardinality(wrote[q])
  BY Zenon DEF Room
<1>8. \A q \in InOp, i \in 1 .. OpBlocks :
        <<q, i>> \in Room' <=> i > (IF q = p THEN n ELSE Cardinality(wrote[q]))
  BY Zenon, <1>3, <1>6 DEF Room, InOp
<1>9. Room \subseteq InOp \X (1 .. OpBlocks) /\ Room' \subseteq InOp \X (1 .. OpBlocks)
  BY Zenon, <1>3 DEF Room
<1>10. Room' \subseteq Room
  <2> SUFFICES ASSUME NEW q \in InOp, NEW i \in 1 .. OpBlocks, <<q, i>> \in Room'
               PROVE  <<q, i>> \in Room
    BY <1>9
  <2> HIDE DEF w, n
  <2>1. CASE q = p
    <3>1. i > n
      BY Zenon, <1>8, <2>1
    <3>2. i > w
      BY <1>5, <3>1
    <3> QED
      BY Zenon, <1>7, <2>1, <3>2 DEF w
  <2>2. CASE q # p
    BY Zenon, <1>7, <1>8, <2>2
  <2> QED
    BY Zenon, <2>1, <2>2
<1>11. CASE blk[p] \in Range(lh)
  BY <1>1, <1>2, <1>10, <1>11, RoomShrinks DEF TypeOK
<1>12. CASE blk[p] \notin Range(lh)
  <2> HIDE DEF w, n
  <2>1. n = w + 1
    BY Zenon, <1>4, <1>5, <1>12
  <2>2. n \in 1 .. OpBlocks
    <3>1. n <= OpBlocks
      BY Zenon, <1>4 DEF n
    <3> QED
      BY <1>5, <2>1, <3>1
  <2>3. <<p, n>> \in Room /\ <<p, n>> \notin Room'
    <3>1. n > w /\ ~(n > n)
      BY <1>5, <2>1
    <3> QED
      BY Zenon, <1>3, <1>7, <1>8, <2>2, <3>1 DEF w
  <2>4. IsFiniteSet(Room) /\ Cardinality(Room) \in Nat
    BY Zenon, RoomPairs, Pairs
  <2>5. /\ IsFiniteSet(Room \ {<<p, n>>})
        /\ Cardinality(Room \ {<<p, n>>}) = Cardinality(Room) - 1
    BY Zenon, <2>3, <2>4, FS_RemoveElement
  <2>6. Room' \subseteq Room \ {<<p, n>>}
    BY Zenon, <1>10, <2>3
  <2>7. Cardinality(Room') \in Nat /\ Cardinality(Room') <= Cardinality(Room) - 1
    BY <2>5, <2>6, FS_Subset, FS_CardinalityType
  <2>8. Len(lh') = Len(lh) + 1 /\ Len(lh) \in Nat /\ LOGSIZE \in Nat
    BY <1>1, <1>2, <1>4, <1>12, FsLogAssumption DEF TypeOK
  <2>9. Len(lh) + Cardinality(Room) <= LOGSIZE - 2
    BY Zenon, <1>2 DEF LogInv, RoomInv
  <2>10. Len(lh') + Cardinality(Room') <= LOGSIZE - 2
    BY <2>4, <2>7, <2>8, <2>9
  <2> QED
    BY Zenon, <2>10 DEF RoomInv
<1> QED
  BY Zenon, <1>11, <1>12

LEMMA NextRoom ==
  ASSUME Enough, LogInv, TypeOK', Next
  PROVE  RoomInv'
<1>1. TypeOK /\ OpsInv
  BY Zenon DEF LogInv
<1>2. Len(lh) \in Nat
  BY <1>1 DEF TypeOK
<1>3. CASE ReadHead \/ RecoverInstall \/ Crash
  BY Zenon, <1>3 DEF ReadHead, RecoverInstall, Crash, RoomInv
<1>4. CASE RecoverErase
  <2>1. \A p \in Proc : pc'[p] = "idle"
    BY Zenon, <1>1, <1>4 DEF RecoverErase, OpsInv
  <2>2. Room' = {}
    BY Zenon, <2>1 DEF Room, InOp
  <2>3. Cardinality(Room') = 0
    BY Zenon, <2>2, FS_EmptySet
  <2>4. Len(lh') = 0 /\ 0 <= LOGSIZE - 2 /\ LOGSIZE \in Nat
    BY <1>4, FsLogAssumption DEF RecoverErase, Enough
  <2> QED
    BY <2>3, <2>4 DEF RoomInv
<1>5. ASSUME NEW p \in Proc, Act(p) PROVE RoomInv'
  <2>1. CASE BeginOp(p)
    BY Zenon, <2>1, BeginRoom
  <2>2. CASE LogWrite(p)
    BY Zenon, <2>2, WriteRoom
  <2>3. ASSUME InOp' \subseteq InOp, \A q \in InOp' : wrote'[q] = wrote[q]
        PROVE  Room' \subseteq Room
    BY Zenon, <2>3 DEF Room
  <2>4. CASE EndOp(p)
    <3>1. pc'[p] \in {"idle", "finish", "write_log", "op"} /\ (pc'[p] = "op" => mode' # "run")
      BY Zenon, <1>1, <2>4 DEF EndOp, WakeupLog, TypeOK
    <3>2. \A q \in Proc : q # p => pc'[q] = pc[q] \/ pc'[q] = "begin"
      BY <1>1, <2>4 DEF EndOp, WakeupLog, TypeOK
    <3>3. \A q \in Proc : q # p => wrote'[q] = wrote[q]
      BY Zenon, <1>1, <2>4 DEF EndOp, TypeOK
    <3>4. CASE mode' = "run"
      <4>1. InOp' \subseteq InOp \ {p}
        BY Zenon, <3>1, <3>2, <3>4 DEF InOp
      <4>2. Room' \subseteq Room
        BY Zenon, <2>3, <3>3, <4>1 DEF InOp
      <4> QED
        BY <1>2, <2>4, <4>2, RoomShrinks DEF EndOp
    <3> QED
      BY Zenon, <3>4 DEF RoomInv
  <2>5. CASE Finish(p)
    <3>1. \A q \in Proc : pc'[q] = pc[q] \/ pc'[q] \in {"idle", "begin"}
      BY Zenon, <2>5 DEF Finish, WakeupLog
    <3>2. InOp' \subseteq InOp
      BY Zenon, <3>1 DEF InOp
    <3>3. Room' \subseteq Room
      BY Zenon, <2>3, <2>5, <3>2 DEF Finish
    <3> QED
      BY <1>2, <2>5, <3>3, RoomShrinks DEF Finish
  <2>6. ASSUME UNCHANGED wrote, mode = "run", lh' = lh \/ lh' = << >>,
               NEW l, pc' = [pc EXCEPT ![p] = l] \/ pc' = pc,
               l \in {"op", "modified", "checked", "panic"} => p \in InOp
        PROVE  RoomInv'
    <3>1. InOp' \subseteq InOp
      BY Zenon, <1>1, <2>6 DEF InOp, TypeOK
    <3>2. Room' \subseteq Room
      BY Zenon, <2>3, <2>6, <3>1
    <3>3. Len(lh') <= Len(lh)
      BY <1>2, <2>6
    <3> QED
      BY Zenon, <2>6, <3>2, <3>3, RoomShrinks
  <2>7. CASE Call(p) \/ BeginSleep(p)
    BY Zenon, <2>6, <2>7 DEF Call, BeginSleep
  <2>8. ASSUME NEW b \in Block, NEW v \in Data, Modify(p, b, v) PROVE RoomInv'
    BY Zenon, <2>6, <2>8 DEF Modify, InOp
  <2>9. CASE LogWriteTest(p)
    BY Zenon, <2>6, <2>9 DEF LogWriteTest, InOp
  <2>10. CASE WriteLog(p)
    <3>1. UNCHANGED <<wrote, lh, pc>> /\ mode = "run"
      BY Zenon, <2>10 DEF WriteLog
    <3> QED
      BY <2>6, <3>1
  <2>11. CASE Install(p)
    BY Zenon, <2>6, <2>11 DEF Install
  <2>12. CASE WriteHead(p)
    BY Zenon, <2>6, <2>12 DEF WriteHead
  <2>13. CASE Erase(p)
    BY Zenon, <2>6, <2>13 DEF Erase
  <2> QED
    BY Zenon, <1>5, <2>1, <2>2, <2>4, <2>5, <2>7, <2>8, <2>9, <2>10, <2>11, <2>12, <2>13
    DEF Act, ProcStep
<1> QED
  BY Zenon, <1>3, <1>4, <1>5 DEF Next, Act
-----------------------------------------------------------------------------
(* What the log holds can always be recovered. First, the blocks a header   *)
(* lists are its entries.                                                   *)
LEMMA RangeSeq ==
  ASSUME NEW s \in Seq(Block)
  PROVE  /\ \A t \in 1 .. Len(s) : s[t] \in Range(s) /\ s[t] \in Block
         /\ \A b \in Range(s) : \E t \in 1 .. Len(s) : s[t] = b
BY DEF Range

(* While an operation is under way there is no commit. *)
LEMMA Quiet ==
  ASSUME LogInv, mode = "run", InOp # {}
  PROVE  ~At("write_log") /\ ~At("install") /\ dh = << >> /\ committing # 1
<1>1. Committers = {} /\ committing # 1
  BY Zenon DEF LogInv, OpsInv
<1>2. ~At("write_log") /\ ~At("install")
  BY Zenon, <1>1 DEF At, Committers
<1> QED
  BY Zenon, <1>1, <1>2 DEF LogInv, HeaderInv

(* Only one process commits, so that it alone is at its step. *)
LEMMA CommitterAt ==
  ASSUME LogInv, NEW p \in Proc, pc[p] \in {"write_log", "install", "finish"}
  PROVE  \A l \in {"write_log", "install"} : At(l) <=> pc[p] = l
BY Zenon, CommitterAlone DEF At

LEMMA HeaderFrame ==
  ASSUME HeaderInv, UNCHANGED <<ondisk, cache, lh, tail, mode>>,
         At("write_log")' <=> At("write_log"), At("install")' <=> At("install"),
         InOp' = {} => InOp = {}
  PROVE  HeaderInv'
<1>1. UNCHANGED <<disk, logblk, dh, cache, lh, tail, mode>>
  BY Zenon DEF ondisk
<1>2. (Distinct(lh) => Distinct(lh)') /\ (Distinct(dh) => Distinct(dh)')
  BY Zenon, <1>1 DEF Distinct
<1>3. /\ Installed(dh, tail) => Installed(dh, tail)'
      /\ Installed(lh, tail) => Installed(lh, tail)'
      /\ Logged(tail) => Logged(tail)'
      /\ Logged(Len(lh)) => Logged(Len(lh))'
  BY Zenon, <1>1 DEF Installed, Logged
<1> QED
  BY Zenon, <1>1, <1>2, <1>3 DEF HeaderInv

(* Recovery and a crash keep HeaderInv. *)
LEMMA RecoverHeader ==
  ASSUME Enough, LogInv, ReadHead \/ RecoverInstall \/ RecoverErase \/ Crash
  PROVE  HeaderInv'
<1>1. TypeOK /\ OpsInv /\ HeaderInv
  BY Zenon DEF LogInv
<1>2. ~At("write_log")' /\ ~At("install")'
  BY Zenon, <1>1 DEF ReadHead, RecoverInstall, RecoverErase, Crash, OpsInv, At
<1>3. CASE ReadHead
  <2>1. mode = "boot" /\ mode' = "recover" /\ lh' = dh /\ tail' = 0
        /\ UNCHANGED <<disk, logblk, dh, cache>>
    BY Zenon, <1>3 DEF ReadHead, ondisk
  <2>2. Distinct(lh)' /\ Distinct(dh)' /\ Installed(dh, tail)' /\ (Len(dh) <= size - 1)'
    BY <1>1, <2>1 DEF HeaderInv, Distinct, Installed
  <2>3. Len(lh') \in Nat
    BY <1>1, <2>1 DEF TypeOK
  <2> QED
    BY <1>1, <1>2, <2>1, <2>2, <2>3 DEF HeaderInv
<1>4. CASE RecoverInstall
  <2>1. /\ mode = "recover" /\ tail < Len(lh) /\ tail' = tail + 1 /\ lh = dh /\ cache = disk
        /\ disk' = [disk EXCEPT ![lh[tail + 1]] = logblk[tail]] /\ cache' = disk'
        /\ UNCHANGED <<logblk, dh, lh, mode>>
    BY Zenon, <1>1, <1>4 DEF RecoverInstall, InstallBlock, HeaderInv
  <2>2. tail \in Nat /\ Len(lh) \in Nat /\ lh[tail + 1] \in Block
    BY <1>1, <2>1 DEF TypeOK
  <2>3. Installed(dh, tail)'
    <3> SUFFICES ASSUME NEW t \in 1 .. tail' PROVE disk'[dh[t]] = logblk[t - 1]
      BY Zenon, <2>1 DEF Installed
    <3>1. t \in 1 .. Len(dh) /\ tail + 1 \in 1 .. Len(dh) /\ dh[t] \in Block
      BY <1>1, <2>1, <2>2 DEF TypeOK
    <3>2. CASE t = tail + 1
      BY <1>1, <2>1, <2>2, <3>2 DEF TypeOK
    <3>3. CASE t # tail + 1
      <4>1. t \in 1 .. tail /\ dh[t] # dh[tail + 1]
        BY <1>1, <2>1, <2>2, <3>1, <3>3 DEF HeaderInv, Distinct
      <4>2. disk[dh[t]] = logblk[t - 1]
        BY Zenon, <1>1, <2>1, <4>1 DEF HeaderInv, Installed
      <4> QED
        BY Zenon, <1>1, <2>1, <2>2, <3>1, <4>1, <4>2 DEF TypeOK
    <3> QED
      BY Zenon, <3>2, <3>3
  <2>4. Distinct(lh)' /\ Distinct(dh)' /\ (Len(dh) <= size - 1)' /\ (tail <= Len(lh))'
    BY <1>1, <2>1, <2>2 DEF HeaderInv, Distinct
  <2> QED
    BY Zenon, <1>2, <2>1, <2>3, <2>4 DEF HeaderInv
<1>5. CASE RecoverErase
  <2>1. lh' = << >> /\ dh' = << >> /\ tail' = 0 /\ mode' = "run"
    BY Zenon, <1>5 DEF RecoverErase
  <2>2. Distinct(lh)' /\ Distinct(dh)' /\ (Len(dh) <= size - 1)' /\ (tail <= Len(lh))'
    BY <2>1, FsLogAssumption DEF Distinct, Enough
  <2> QED
    BY Zenon, <1>2, <2>1, <2>2 DEF HeaderInv
<1>6. CASE Crash
  <2>1. lh' = << >> /\ UNCHANGED <<disk, dh>> /\ tail' = 0 /\ mode' = "boot" /\ cache' = disk
    BY Zenon, <1>6 DEF Crash, ondisk
  <2>2. Distinct(lh)' /\ Distinct(dh)' /\ (Len(dh) <= size - 1)' /\ (tail <= Len(lh))'
    BY <1>1, <2>1 DEF Distinct, HeaderInv
  <2> QED
    BY Zenon, <1>2, <2>1, <2>2 DEF HeaderInv
<1> QED
  BY Zenon, <1>3, <1>4, <1>5, <1>6

(* The steps of an operation keep HeaderInv. *)
LEMMA OpHeader ==
  ASSUME Enough, LogInv, NEW p \in Proc,
         \/ Call(p) \/ BeginSleep(p) \/ BeginOp(p) \/ LogWriteTest(p) \/ LogWrite(p) \/ EndOp(p)
         \/ \E b \in Block, v \in Data : Modify(p, b, v)
  PROVE  HeaderInv'
<1>1. TypeOK /\ OpsInv /\ HeaderInv
  BY Zenon DEF LogInv
<1>2. mode = "run"
  BY Zenon DEF Call, BeginSleep, BeginOp, LogWriteTest, LogWrite, EndOp, Modify
<1>3. pc \in [Proc -> {"idle", "begin", "sleep", "op", "modified", "checked",
                      "write_log", "install", "finish", "panic"}]
  BY Zenon, <1>1 DEF TypeOK
<1>4. CASE Call(p) \/ BeginSleep(p) \/ BeginOp(p) \/ LogWriteTest(p)
  <2>1. UNCHANGED <<ondisk, cache, lh, tail, mode>>
    BY Zenon, <1>4 DEF Call, BeginSleep, BeginOp, LogWriteTest
  <2>2. /\ pc[p] \in {"idle", "begin", "modified"}
        /\ pc'[p] \in {"begin", "sleep", "op", "checked", "panic"}
        /\ pc[p] = "modified" => pc'[p] \in {"checked", "panic"}
        /\ \A q \in Proc : q # p => pc'[q] = pc[q]
    BY Zenon, <1>3, <1>4 DEF Call, BeginSleep, BeginOp, LogWriteTest
  <2>3. /\ At("write_log")' <=> At("write_log")
        /\ At("install")' <=> At("install")
    BY Zenon, <2>2 DEF At
  <2>4. InOp' = {} => InOp = {}
    BY Zenon, <2>2 DEF InOp
  <2> QED
    BY Zenon, <1>1, <2>1, <2>3, <2>4, HeaderFrame
<1>5. ASSUME NEW b \in Block, NEW v \in Data, Modify(p, b, v) PROVE HeaderInv'
  <2>1. /\ pc[p] = "op" /\ pc' = [pc EXCEPT ![p] = "modified"]
        /\ UNCHANGED <<disk, logblk, dh, lh, tail, mode>>
    BY Zenon, <1>5 DEF Modify, ondisk
  <2>2. p \in InOp /\ p \in InOp'
    BY Zenon, <1>3, <2>1 DEF InOp
  <2>3. ~At("write_log") /\ ~At("install") /\ dh = << >>
    BY Zenon, <1>2, <2>2, Quiet
  <2>4. ~At("write_log")' /\ ~At("install")'
    BY Zenon, <1>3, <2>1, <2>3 DEF At
  <2>5. Distinct(lh)' /\ Distinct(dh)'
    BY <1>1, <2>1 DEF HeaderInv, Distinct
  <2> QED
    BY Zenon, <1>1, <1>2, <2>1, <2>2, <2>3, <2>4, <2>5 DEF HeaderInv
<1>6. CASE LogWrite(p)
  <2>1. /\ pc[p] = "checked" /\ pc' = [pc EXCEPT ![p] = "op"]
        /\ lh' = IF blk[p] \in Range(lh) THEN lh ELSE Append(lh, blk[p])
        /\ UNCHANGED <<disk, logblk, dh, tail, mode>>
    BY Zenon, <1>6 DEF LogWrite, ondisk
  <2>2. p \in InOp /\ p \in InOp'
    BY Zenon, <1>3, <2>1 DEF InOp
  <2>3. ~At("write_log") /\ ~At("install") /\ dh = << >>
    BY Zenon, <1>2, <2>2, Quiet
  <2>4. ~At("write_log")' /\ ~At("install")'
    BY Zenon, <1>3, <2>1, <2>3 DEF At
  <2>5. Distinct(dh)'
    BY Zenon, <1>1, <2>1 DEF HeaderInv, Distinct
  <2>6. lh \in Seq(Block) /\ Len(lh) \in Nat /\ blk[p] \in Block /\ tail \in Nat
    BY <1>1, <2>1 DEF TypeOK, OpsInv
  <2>7. Distinct(lh)' /\ tail' <= Len(lh')
    <3>1. CASE blk[p] \in Range(lh)
      BY <1>1, <2>1, <3>1 DEF HeaderInv, Distinct
    <3>2. CASE blk[p] \notin Range(lh)
      <4>1. lh' = Append(lh, blk[p]) /\ Len(lh') = Len(lh) + 1
        BY <2>1, <2>6, <3>2
      <4>2. \A i \in 1 .. Len(lh) : lh'[i] = lh[i] /\ lh[i] # blk[p]
        BY <2>6, <3>2, <4>1, RangeSeq
      <4>3. lh'[Len(lh) + 1] = blk[p]
        BY <2>6, <4>1
      <4>4. \A i \in 1 .. Len(lh') : i \in 1 .. Len(lh) \/ i = Len(lh) + 1
        BY <2>6, <4>1
      <4>5. tail' <= Len(lh')
        BY <1>1, <2>1, <2>6, <4>1 DEF HeaderInv
      <4>6. \A i, j \in 1 .. Len(lh') : lh'[i] = lh'[j] => i = j
        BY Zenon, <1>1, <4>2, <4>3, <4>4 DEF HeaderInv, Distinct
      <4> QED
        BY Zenon, <4>5, <4>6 DEF Distinct
    <3> QED
      BY Zenon, <3>1, <3>2
  <2> QED
    BY Zenon, <1>1, <1>2, <2>1, <2>2, <2>3, <2>4, <2>5, <2>7 DEF HeaderInv
<1>7. CASE EndOp(p)
  <2>1. p \in InOp /\ pc[p] = "op"
    BY Zenon, <1>7 DEF InOp, EndOp
  <2>2. ~At("write_log") /\ ~At("install") /\ dh = << >> /\ committing # 1
    BY Zenon, <1>2, <2>1, Quiet
  <2>3. /\ UNCHANGED <<disk, logblk, dh, cache, lh, mode>> /\ tail' = 0
        /\ outstanding' = outstanding - 1
        /\ \/ pc' = [pc EXCEPT ![p] = IF lh = << >> THEN "finish" ELSE "write_log"]
           \/ outstanding' # 0 /\ WakeupLog(p, "idle")
    BY Zenon, <1>7, <2>2 DEF EndOp, ondisk
  <2>4. ~At("install")'
    BY Zenon, <1>3, <2>2, <2>3 DEF At, WakeupLog
  <2>5. Distinct(lh)' /\ Distinct(dh)' /\ Logged(tail)' /\ (Len(dh) <= size - 1)'
    BY <1>1, <2>3 DEF HeaderInv, Distinct, Logged
  <2>6. Len(lh') \in Nat
    BY <1>1, <2>3 DEF TypeOK
  <2>7. InOp' = {} /\ lh' # << >> => At("write_log")'
    <3>1. CASE pc' = [pc EXCEPT ![p] = IF lh = << >> THEN "finish" ELSE "write_log"]
      BY Zenon, <1>3, <2>3, <3>1 DEF At
    <3>2. CASE outstanding' # 0 /\ WakeupLog(p, "idle")
      <4>1. outstanding' = Cardinality(InOp')
        BY Zenon, EndOps, <1>7 DEF OpsInv
      <4> QED
        BY Zenon, <3>2, <4>1, FS_EmptySet
    <3> QED
      BY Zenon, <2>3, <3>1, <3>2
  <2> QED
    BY <1>2, <2>2, <2>3, <2>4, <2>5, <2>6, <2>7 DEF HeaderInv
<1> QED
  BY Zenon, <1>4, <1>5, <1>6, <1>7

(* A block that is installed during a commit was already in the cache. *)
LEMMA InstallKeepsCache ==
  ASSUME Enough, LogInv, NEW p \in Proc, Install(p)
  PROVE  /\ cache' = cache
         /\ tail \in Nat /\ tail + 1 \in 1 .. Len(lh) /\ lh[tail + 1] \in Block /\ lh = dh
         /\ logblk[tail] = cache[lh[tail + 1]]
<1>1. TypeOK /\ HeaderInv /\ pc[p] = "install" /\ tail < Len(lh)
      /\ cache' = [cache EXCEPT ![lh[tail + 1]] = logblk[tail]]
  BY Zenon DEF LogInv, Install, InstallBlock
<1>2. tail \in Nat /\ Len(lh) \in Nat /\ tail + 1 \in 1 .. Len(lh) /\ lh[tail + 1] \in Block
  BY <1>1 DEF TypeOK
<1>3. Logged(Len(lh)) /\ lh = dh
  BY Zenon, <1>1 DEF HeaderInv, At
<1>4. logblk[(tail + 1) - 1] = cache[lh[tail + 1]]
  BY Zenon, <1>2, <1>3 DEF Logged
<1>5. (tail + 1) - 1 = tail
  BY <1>2
<1> QED
  BY Zenon, <1>1, <1>2, <1>3, <1>4, <1>5 DEF TypeOK

(* commit keeps HeaderInv. *)
LEMMA CommitHeader ==
  ASSUME Enough, LogInv, NEW p \in Proc,
         WriteLog(p) \/ WriteHead(p) \/ Install(p) \/ Erase(p) \/ Finish(p)
  PROVE  HeaderInv'
<1>1. TypeOK /\ OpsInv /\ HeaderInv
  BY Zenon DEF LogInv
<1>2. mode = "run" /\ pc[p] \in {"write_log", "install", "finish"} /\ mode' \in {"run", "past"}
  BY Zenon DEF WriteLog, WriteHead, Install, Erase, Finish
<1>3. \A l \in {"write_log", "install"} : At(l) <=> pc[p] = l
  BY Zenon, <1>2, CommitterAt
<1>4. \A q \in Proc : q # p => pc[q] \notin {"write_log", "install", "finish"}
  BY Zenon, <1>2, CommitterAlone
<1>5. pc \in [Proc -> {"idle", "begin", "sleep", "op", "modified", "checked",
                      "write_log", "install", "finish", "panic"}]
  BY Zenon, <1>1 DEF TypeOK
<1>6. Len(lh) \in Nat /\ Len(lh) <= size - 1 /\ size \in Nat /\ tail \in Nat
  BY Zenon, <1>2, LogBound, FsLogAssumption DEF LogInv, TypeOK
<1>7. CASE WriteLog(p)
  <2>1. tail < Len(lh) /\ tail \in Slots /\ pc[p] = "write_log"
    BY <1>6, <1>7 DEF WriteLog, Slots
  <2>2. /\ logblk' = [logblk EXCEPT ![tail] = cache[lh[tail + 1]]] /\ tail' = tail + 1
        /\ UNCHANGED <<disk, dh, cache, lh, mode, pc>>
    BY Zenon, <1>7, <2>1 DEF WriteLog
  <2>3. At("write_log")' /\ ~At("install")' /\ dh = << >> /\ Logged(tail)
    BY Zenon, <1>1, <1>2, <1>3, <2>1, <2>2 DEF At, HeaderInv
  <2>4. Logged(tail)'
    <3> SUFFICES ASSUME NEW t \in 1 .. tail' PROVE logblk'[t - 1] = cache[lh[t]]
      BY Zenon, <2>2 DEF Logged
    <3>1. CASE t = tail + 1
      BY <1>1, <1>6, <2>1, <2>2, <3>1 DEF TypeOK
    <3>2. CASE t # tail + 1
      <4>1. t \in 1 .. tail /\ t - 1 \in Slots /\ t - 1 # tail
        BY <1>6, <2>1, <2>2, <3>2 DEF Slots
      <4>2. logblk'[t - 1] = logblk[t - 1]
        BY Zenon, <1>1, <2>2, <4>1 DEF TypeOK
      <4> QED
        BY Zenon, <2>3, <4>1, <4>2 DEF Logged
    <3> QED
      BY Zenon, <3>1, <3>2
  <2>5. Distinct(lh)' /\ Distinct(dh)' /\ (Len(dh) <= size - 1)' /\ (tail <= Len(lh))'
    BY <1>1, <1>6, <2>1, <2>2 DEF HeaderInv, Distinct
  <2> QED
    BY Zenon, <1>2, <2>2, <2>3, <2>4, <2>5 DEF HeaderInv
<1>8. CASE WriteHead(p)
  <2>1. /\ pc[p] = "write_log" /\ tail = Len(lh) /\ dh' = lh /\ tail' = 0
        /\ pc' = [pc EXCEPT ![p] = "install"] /\ UNCHANGED <<disk, logblk, cache, lh, mode>>
    BY Zenon, <1>8 DEF WriteHead
  <2>2. At("install")' /\ ~At("write_log")' /\ Logged(tail)
    BY Zenon, <1>1, <1>3, <1>4, <1>5, <2>1 DEF At, HeaderInv
  <2>3. Logged(Len(lh))' /\ Installed(lh, tail)'
    BY <2>1, <2>2 DEF Logged, Installed
  <2>4. Distinct(lh)' /\ Distinct(dh)' /\ (Len(dh) <= size - 1)' /\ (tail <= Len(lh))'
    BY <1>1, <1>6, <2>1 DEF HeaderInv, Distinct
  <2> QED
    BY Zenon, <1>2, <2>1, <2>2, <2>3, <2>4 DEF HeaderInv
<1>9. CASE Install(p)
  <2>1. /\ pc[p] = "install" /\ tail < Len(lh) /\ tail' = tail + 1
        /\ disk' = [disk EXCEPT ![lh[tail + 1]] = logblk[tail]]
        /\ UNCHANGED <<logblk, dh, lh, mode, pc>>
    BY Zenon, <1>9 DEF Install, InstallBlock
  <2>2. cache' = cache /\ lh[tail + 1] \in Block /\ lh = dh
    BY Zenon, <1>9, InstallKeepsCache
  <2>3. At("install")' /\ ~At("write_log")' /\ Logged(Len(lh)) /\ Installed(lh, tail)
    BY Zenon, <1>1, <1>3, <2>1 DEF At, HeaderInv
  <2>4. Logged(Len(lh))'
    BY Zenon, <2>1, <2>2, <2>3 DEF Logged
  <2>5. Installed(lh, tail)'
    <3> SUFFICES ASSUME NEW t \in 1 .. tail' PROVE disk'[lh[t]] = logblk[t - 1]
      BY Zenon, <2>1 DEF Installed
    <3>1. t \in 1 .. Len(lh) /\ tail + 1 \in 1 .. Len(lh) /\ lh[t] \in Block
      BY <1>1, <1>6, <2>1 DEF TypeOK
    <3>2. CASE t = tail + 1
      BY <1>1, <1>6, <2>1, <2>2, <3>2 DEF TypeOK
    <3>3. CASE t # tail + 1
      <4>1. t \in 1 .. tail /\ lh[t] # lh[tail + 1]
        BY <1>1, <1>6, <2>1, <3>1, <3>3 DEF HeaderInv, Distinct
      <4>2. disk[lh[t]] = logblk[t - 1]
        BY Zenon, <2>3, <4>1 DEF Installed
      <4> QED
        BY Zenon, <1>1, <2>1, <2>2, <3>1, <4>1, <4>2 DEF TypeOK
    <3> QED
      BY Zenon, <3>2, <3>3
  <2>6. Distinct(lh)' /\ Distinct(dh)' /\ (Len(dh) <= size - 1)' /\ (tail <= Len(lh))'
    BY <1>1, <1>6, <2>1 DEF HeaderInv, Distinct
  <2> QED
    BY Zenon, <1>2, <2>1, <2>2, <2>3, <2>4, <2>5, <2>6 DEF HeaderInv
<1>10. CASE Erase(p)
  <2>1. lh' = << >> /\ dh' = << >> /\ tail' = 0 /\ mode' = "run"
        /\ pc' = [pc EXCEPT ![p] = "finish"]
    BY Zenon, <1>2, <1>10 DEF Erase
  <2>2. ~At("install")' /\ ~At("write_log")'
    BY Zenon, <1>4, <1>5, <2>1 DEF At
  <2>3. Distinct(lh)' /\ Distinct(dh)' /\ (Len(dh) <= size - 1)' /\ (tail <= Len(lh))'
    BY <2>1, FsLogAssumption DEF Distinct, Enough
  <2> QED
    BY Zenon, <2>1, <2>2, <2>3 DEF HeaderInv
<1>11. CASE Finish(p)
  <2>1. UNCHANGED <<ondisk, cache, lh, tail, mode>> /\ pc[p] = "finish" /\ WakeupLog(p, "idle")
    BY Zenon, <1>11 DEF Finish
  <2>2. ~At("install")' /\ ~At("write_log")'
    BY Zenon, <1>4, <2>1 DEF At, WakeupLog
  <2>3. ~At("install") /\ ~At("write_log") /\ InOp = {}
    BY Zenon, <1>2, <1>3, <2>1, CommitterAlone
  <2> QED
    BY Zenon, <1>1, <2>1, <2>2, <2>3, HeaderFrame
<1> QED
  BY Zenon, <1>7, <1>8, <1>9, <1>10, <1>11

LEMMA NextHeader ==
  ASSUME Enough, LogInv, Next
  PROVE  HeaderInv'
<1>1. ASSUME NEW p \in Proc, Act(p) PROVE HeaderInv'
  BY Zenon, <1>1, OpHeader, CommitHeader DEF Act, ProcStep
<1> QED
  BY Zenon, <1>1, RecoverHeader DEF Next, Act

(* When a transaction is erased, its blocks are at home. *)
LEMMA EraseClean ==
  ASSUME Enough, LogInv, NEW p \in Proc, Erase(p)
  PROVE  cache = disk /\ lh = dh /\ Installed(lh, Len(lh))
<1>1. TypeOK /\ HeaderInv /\ DirtyInv /\ pc[p] = "install" /\ tail = Len(lh)
  BY Zenon DEF LogInv, Erase
<1>2. lh = dh /\ Logged(Len(lh)) /\ Installed(lh, Len(lh))
  BY Zenon, <1>1 DEF HeaderInv, At
<1>3. \A q \in Proc : blk[q] \notin Block
  BY Zenon, <1>1, CommitterAlone
<1>4. ASSUME NEW b \in Block, cache[b] # disk[b] PROVE FALSE
  <2>1. b \in Range(lh)
    BY Zenon, <1>1, <1>3, <1>4 DEF DirtyInv
  <2>2. PICK t \in 1 .. Len(lh) : lh[t] = b
    BY Zenon, <1>1, <2>1, RangeSeq DEF TypeOK
  <2> QED
    BY Zenon, <1>2, <1>4, <2>2 DEF Logged, Installed
<1>5. cache = disk
  BY <1>1, <1>4 DEF TypeOK
<1> QED
  BY Zenon, <1>2, <1>5

LEMMA NextDirty ==
  ASSUME Enough, LogInv, Next
  PROVE  DirtyInv'
<1>1. TypeOK /\ OpsInv /\ HeaderInv /\ DirtyInv
  BY Zenon DEF LogInv
<1>2. ASSUME cache' = disk' PROVE DirtyInv'
  BY Zenon, <1>2 DEF DirtyInv
<1>3. ASSUME UNCHANGED <<cache, disk, lh, blk>> PROVE DirtyInv'
  BY Zenon, <1>1, <1>3 DEF DirtyInv
<1>4. CASE ReadHead \/ RecoverErase
  BY Zenon, <1>1, <1>2, <1>4 DEF ReadHead, RecoverErase, HeaderInv, ondisk
<1>5. CASE RecoverInstall
  BY Zenon, <1>1, <1>2, <1>5 DEF RecoverInstall, InstallBlock, HeaderInv
<1>6. CASE Crash
  BY Zenon, <1>2, <1>6 DEF Crash, ondisk
<1>7. ASSUME NEW p \in Proc, Act(p) PROVE DirtyInv'
  <2>1. CASE \/ Call(p) \/ BeginSleep(p) \/ BeginOp(p) \/ LogWriteTest(p) \/ EndOp(p)
             \/ WriteLog(p) \/ WriteHead(p) \/ Finish(p)
    BY Zenon, <1>3, <2>1
    DEF Call, BeginSleep, BeginOp, LogWriteTest, EndOp, WriteLog, WriteHead, Finish, ondisk
  <2>2. ASSUME NEW b \in Block, NEW v \in Data, Modify(p, b, v) PROVE DirtyInv'
    <3>1. /\ cache' = [cache EXCEPT ![b] = v] /\ blk' = [blk EXCEPT ![p] = b] /\ pc[p] = "op"
          /\ UNCHANGED <<disk, lh>>
      BY Zenon, <2>2 DEF Modify, ondisk
    <3>2. blk[p] \notin Block
      BY Zenon, <1>1, <3>1 DEF OpsInv
    <3> SUFFICES ASSUME NEW c \in Block, cache'[c] # disk[c]
                 PROVE  c \in Range(lh) \/ \E q \in Proc : blk'[q] = c
      BY Zenon, <3>1 DEF DirtyInv
    <3>3. CASE c = b
      BY Zenon, <1>1, <3>1, <3>3 DEF TypeOK
    <3>4. CASE c # b
      <4>1. c \in Range(lh) \/ \E q \in Proc : blk[q] = c
        BY Zenon, <1>1, <3>1, <3>4 DEF DirtyInv, TypeOK
      <4> QED
        BY Zenon, <1>1, <3>1, <3>2, <4>1 DEF TypeOK
    <3> QED
      BY Zenon, <3>3, <3>4
  <2>3. CASE LogWrite(p)
    <3>1. /\ lh' = IF blk[p] \in Range(lh) THEN lh ELSE Append(lh, blk[p])
          /\ blk' = [blk EXCEPT ![p] = NoBlock] /\ pc[p] = "checked"
          /\ UNCHANGED <<disk, cache>>
      BY Zenon, <2>3 DEF LogWrite, ondisk
    <3>2. blk[p] \in Block /\ lh \in Seq(Block)
      BY Zenon, <1>1, <3>1 DEF OpsInv, TypeOK
    <3>3. Range(lh)' = Range(lh) \cup {blk[p]}
      BY Zenon, <3>1, <3>2, AppendRange
    <3>4. \A q \in Proc : q # p => blk'[q] = blk[q]
      BY Zenon, <1>1, <3>1 DEF TypeOK
    <3> QED
      BY ZenonT(40), <1>1, <3>1, <3>3, <3>4 DEF DirtyInv
  <2>4. CASE Install(p)
    <3>1. cache' = cache /\ lh[tail + 1] \in Block /\ logblk[tail] = cache[lh[tail + 1]]
      BY Zenon, <2>4, InstallKeepsCache
    <3>2. disk' = [disk EXCEPT ![lh[tail + 1]] = logblk[tail]] /\ UNCHANGED <<lh, blk>>
      BY Zenon, <2>4 DEF Install, InstallBlock
    <3>3. \A c \in Block : cache'[c] # disk'[c] => cache[c] # disk[c]
      BY Zenon, <1>1, <3>1, <3>2 DEF TypeOK
    <3> QED
      BY Zenon, <1>1, <3>2, <3>3 DEF DirtyInv
  <2>5. CASE Erase(p)
    BY Zenon, <1>2, <2>5, EraseClean DEF Erase
  <2> QED
    BY Zenon, <1>7, <2>1, <2>2, <2>3, <2>4, <2>5 DEF Act, ProcStep
<1> QED
  BY Zenon, <1>4, <1>5, <1>6, <1>7 DEF Next, Act

LEMMA InitLogInv ==
  ASSUME Enough, Init
  PROVE  LogInv
<1>1. TypeOK /\ OpsInv
  BY Zenon, InitType, InitOps
<1>2. lh = << >> /\ dh = << >> /\ tail = 0 /\ mode = "boot" /\ cache = disk
      /\ \A p \in Proc : pc[p] = "idle"
  BY Zenon DEF Init
<1>3. Distinct(lh) /\ Distinct(dh) /\ Len(dh) <= size - 1 /\ tail <= Len(lh)
  BY <1>2, FsLogAssumption DEF Distinct, Enough
<1>4. HeaderInv
  BY Zenon, <1>2, <1>3 DEF HeaderInv, At
<1> QED
  BY Zenon, <1>1, <1>2, <1>4 DEF LogInv, RoomInv, DirtyInv

LEMMA StepLogInv ==
  ASSUME Enough, LogInv, [Next]_vars
  PROVE  LogInv'
<1>1. CASE Next
  <2>1. TypeOK'
    BY Zenon, <1>1, NextType
  <2> QED
    BY Zenon, <1>1, <2>1, NextOps, NextRoom, NextHeader, NextDirty DEF LogInv
<1>2. CASE UNCHANGED vars
  <2>1. UNCHANGED <<disk, logblk, dh, cache, lh, outstanding, committing, mode, tail, pc, blk, wrote>>
    BY Zenon, <1>2 DEF vars, ondisk
  <2>2. TypeOK'
    BY Zenon, <2>1 DEF LogInv, TypeOK
  <2>3. OpsInv'
    BY <2>1 DEF LogInv, OpsInv, InOp, Committers, Range
  <2>4. RoomInv'
    BY Zenon, <2>1 DEF LogInv, RoomInv, Room, InOp
  <2>5. HeaderInv'
    <3>1. /\ At("write_log")' <=> At("write_log")
          /\ At("install")' <=> At("install")
      BY Zenon, <2>1 DEF At
    <3>2. InOp' = InOp
      BY Zenon, <2>1 DEF InOp
    <3> QED
      BY Zenon, <2>1, <3>1, <3>2, HeaderFrame DEF LogInv, ondisk
  <2>6. DirtyInv'
    BY Zenon, <2>1 DEF LogInv, DirtyInv, Range
  <2> QED
    BY Zenon, <2>2, <2>3, <2>4, <2>5, <2>6 DEF LogInv
<1> QED
  BY Zenon, <1>1, <1>2

(* The log keeps its invariant: whatever operations run and wherever power *)
(* fails, provided that no operation uses up all of its MAXOPBLOCKS.       *)
THEOREM LogInvariant ==
  ASSUME Enough
  PROVE  Spec => []LogInv
<1>1. Init => LogInv
  BY Zenon, InitLogInv
<1>2. LogInv /\ [Next]_vars => LogInv'
  BY Zenon, StepLogInv
<1> QED
  BY <1>1, <1>2, PTL DEF Spec

(* begin_op's reservation suffices: log_write never panics and the header  *)
(* never outgrows the log on disk.                                         *)
THEOREM LogNeverFull ==
  ASSUME Enough
  PROVE  Spec => [](NoPanic /\ LogFits)
<1>1. LogInv => NoPanic
  BY Zenon DEF LogInv, OpsInv, NoPanic
<1>2. ASSUME LogInv PROVE LogFits
  <2>1. CASE mode \in {"run", "recover"}
    BY Zenon, <1>2, <2>1, LogBound DEF LogInv, LogFits
  <2> QED
    <3>1. mode \notin {"run", "recover"} => lh = << >>
      BY Zenon, <1>2 DEF LogInv, OpsInv, HeaderInv
    <3>2. LOGSIZE \in Nat /\ size \in Nat /\ OpBlocks \in Nat /\ OpBlocks + 2 <= LOGSIZE /\ LOGSIZE <= size
      BY Zenon, FsLogAssumption DEF Enough
    <3>3. mode \notin {"run", "recover"} => LogFits
      BY <3>1, <3>2 DEF LogFits
    <3> QED
      BY Zenon, <2>1, <3>3
<1> QED
  BY <1>1, <1>2, LogInvariant, PTL

(* end_op commits alone: no operation is under way during a commit.        *)
THEOREM CommitsAlone ==
  ASSUME Enough
  PROVE  Spec => []CommitAlone
<1>1. ASSUME LogInv, NEW p \in Proc, NEW q \in Proc,
             {pc[p], pc[q]} \subseteq {"write_log", "install", "finish"}
      PROVE  p = q
  BY Zenon, <1>1 DEF LogInv, OpsInv, Committers
<1>2. LogInv => CommitAlone
  BY Zenon, <1>1 DEF LogInv, OpsInv, CommitAlone
<1> QED
  BY <1>2, LogInvariant, PTL

(* A process that sleeps in begin_op has somebody to wake it up.           *)
THEOREM SleeperHasWaker ==
  ASSUME Enough
  PROVE  Spec => []NoLostWakeup
<1>1. ASSUME LogInv, NEW p \in Proc, pc[p] = "sleep" PROVE outstanding > 0 \/ committing = 1
  <2>1. CASE InOp # {}
    <3>1. IsFiniteSet(InOp)
      BY Zenon, FsLogAssumption, FS_Subset DEF InOp
    <3>2. Cardinality(InOp) \in Nat /\ Cardinality(InOp) # 0
      BY Zenon, <2>1, <3>1, FS_CardinalityType, FS_EmptySet
    <3> QED
      BY <1>1, <3>2 DEF LogInv, OpsInv
  <2> QED
    BY Zenon, <1>1, <2>1 DEF LogInv, OpsInv
<1>2. LogInv => NoLostWakeup
  BY Zenon, <1>1 DEF NoLostWakeup
<1> QED
  BY <1>2, LogInvariant, PTL

-----------------------------------------------------------------------------
(* What replaying the header h does to each block. *)
LEMMA ReplayAt ==
  ASSUME NEW d, NEW l, NEW h \in Seq(Block), Distinct(h)
  PROVE  /\ \A t \in 1 .. Len(h) : Replay(d, l, h)[h[t]] = l[t - 1]
         /\ \A b \in Block : b \notin Range(h) => Replay(d, l, h)[b] = d[b]
<1>1. ASSUME NEW t \in 1 .. Len(h) PROVE Replay(d, l, h)[h[t]] = l[t - 1]
  <2>1. h[t] \in Block
    OBVIOUS
  <2>2. (CHOOSE u \in 1 .. Len(h) : h[u] = h[t]) = t
    BY Zenon DEF Distinct
  <2> QED
    BY Zenon, <2>1, <2>2 DEF Replay
<1>2. ASSUME NEW b \in Block, b \notin Range(h) PROVE Replay(d, l, h)[b] = d[b]
  BY Zenon, <1>2, RangeSeq DEF Replay
<1> QED
  BY Zenon, <1>1, <1>2

LEMMA ReplayNone ==
  ASSUME NEW d \in [Block -> Data], NEW l
  PROVE  Replay(d, l, << >>) = d
BY DEF Replay

(* Replaying is blind to what the home of a logged block holds. *)
LEMMA ReplayOther ==
  ASSUME NEW d, NEW e, NEW l, NEW h \in Seq(Block), \A b \in Block : b \notin Range(h) => d[b] = e[b]
  PROVE  Replay(d, l, h) = Replay(e, l, h)
<1>1. ASSUME NEW b \in Block, ~\E t \in 1 .. Len(h) : h[t] = b PROVE d[b] = e[b]
  BY Zenon, <1>1, RangeSeq
<1> QED
  BY Zenon, <1>1 DEF Replay

(* Installing a block changes nothing of what recovery would find. *)
LEMMA InstallReplay ==
  ASSUME TypeOK, lh = dh, InstallBlock, UNCHANGED <<logblk, dh>>
  PROVE  Recovered' = Recovered
<1>1. tail + 1 \in 1 .. Len(dh) /\ dh \in Seq(Block)
  BY DEF TypeOK, InstallBlock
<1>2. dh[tail + 1] \in Range(dh) /\ dh[tail + 1] \in Block
  BY Zenon, <1>1, RangeSeq
<1>3. \A b \in Block : b \notin Range(dh) => disk[b] = disk'[b]
  BY Zenon, <1>2 DEF TypeOK, InstallBlock
<1>4. Replay(disk, logblk, dh) = Replay(disk', logblk, dh)
  BY <1>1, <1>3, ReplayOther
<1> QED
  BY Zenon, <1>4 DEF Recovered

(* Once every block is at home, recovery has nothing to do. *)
LEMMA InstalledReplay ==
  ASSUME TypeOK, Distinct(dh), Installed(dh, Len(dh))
  PROVE  Recovered = disk
<1>1. dh \in Seq(Block) /\ disk \in [Block -> Data]
  BY Zenon DEF TypeOK
<1>2. ASSUME NEW b \in Block PROVE Recovered[b] = disk[b]
  <2>1. CASE b \in Range(dh)
    <3>1. PICK t \in 1 .. Len(dh) : dh[t] = b
      BY Zenon, <1>1, <2>1, RangeSeq
    <3>2. Recovered[b] = logblk[t - 1]
      BY <1>1, <3>1, ReplayAt DEF Recovered
    <3> QED
      BY Zenon, <3>1, <3>2 DEF Installed
  <2>2. CASE b \notin Range(dh)
    BY <1>1, <2>2, ReplayAt DEF Recovered
  <2> QED
    BY Zenon, <2>1, <2>2
<1> QED
  BY Zenon, <1>1, <1>2 DEF Recovered, Replay

(* write_head makes the cache durable, all of it at once. *)
LEMMA CommitReplay ==
  ASSUME Enough, LogInv, NEW p \in Proc, WriteHead(p)
  PROVE  Recovered' = cache
<1>1. TypeOK /\ HeaderInv /\ DirtyInv /\ pc[p] = "write_log" /\ tail = Len(lh)
      /\ dh' = lh /\ UNCHANGED <<disk, logblk>>
  BY Zenon DEF LogInv, WriteHead
<1>2. Logged(Len(lh)) /\ Distinct(lh) /\ lh \in Seq(Block) /\ cache \in [Block -> Data]
  BY Zenon, <1>1 DEF HeaderInv, At, TypeOK
<1>3. \A q \in Proc : blk[q] \notin Block
  BY Zenon, <1>1, CommitterAlone
<1>4. ASSUME NEW b \in Block PROVE Replay(disk, logblk, lh)[b] = cache[b]
  <2>1. CASE b \in Range(lh)
    <3>1. PICK t \in 1 .. Len(lh) : lh[t] = b
      BY Zenon, <1>2, <2>1, RangeSeq
    <3>2. Replay(disk, logblk, lh)[b] = logblk[t - 1]
      BY <1>2, <3>1, ReplayAt
    <3> QED
      BY Zenon, <1>2, <3>1, <3>2 DEF Logged
  <2>2. CASE b \notin Range(lh)
    <3>1. Replay(disk, logblk, lh)[b] = disk[b]
      BY <1>2, <2>2, ReplayAt
    <3> QED
      BY Zenon, <1>1, <1>3, <2>2, <3>1 DEF DirtyInv
  <2> QED
    BY Zenon, <2>1, <2>2
<1>5. Replay(disk, logblk, lh) = cache
  BY Zenon, <1>2, <1>4 DEF Replay
<1> QED
  BY Zenon, <1>1, <1>5 DEF Recovered

(* Everything is durable when no operation runs or commits.                *)
THEOREM QuietIsDurable ==
  ASSUME Enough
  PROVE  Spec => []Durable
<1>1. ASSUME LogInv, mode = "run", outstanding = 0, committing = 0
      PROVE  Recovered = cache /\ disk = cache
  <2>1. TypeOK /\ OpsInv /\ HeaderInv /\ DirtyInv
    BY Zenon, <1>1 DEF LogInv
  <2>2. IsFiniteSet(InOp) /\ Cardinality(InOp) = 0
    BY Zenon, <1>1, <2>1, FsLogAssumption, FS_Subset DEF InOp, OpsInv
  <2>3. InOp = {} /\ Committers = {}
    BY <1>1, <2>1, <2>2, FS_EmptySet DEF OpsInv
  <2>4. lh = << >> /\ dh = << >>
    BY Zenon, <1>1, <2>1, <2>3 DEF HeaderInv, At, Committers
  <2>5. \A p \in Proc : blk[p] \notin Block
    BY Zenon, <2>1, <2>3 DEF OpsInv, InOp
  <2>6. Range(lh) = {}
    BY <2>4 DEF Range
  <2>7. disk = cache
    BY <2>1, <2>5, <2>6 DEF DirtyInv, TypeOK
  <2> QED
    BY Zenon, <2>1, <2>4, <2>7, ReplayNone DEF Recovered, TypeOK
<1>2. LogInv => Durable
  BY Zenon, <1>1 DEF Durable
<1> QED
  BY <1>2, LogInvariant, PTL

-----------------------------------------------------------------------------
(* A step that leaves the abstract state alone is a stutter of AtomicDisk. *)
LEMMA Stutter ==
  ASSUME Recovered' = Recovered, Current' = Current, InOp' = InOp
  PROVE  UNCHANGED Atomic!vars
BY Zenon DEF Atomic!vars

LEMMA InitRefines == Init => Atomic!Init
<1> SUFFICES ASSUME Init PROVE Atomic!Init
  BY Zenon
<1>1. disk \in [Block -> Data] /\ dh = << >> /\ mode = "boot"
  BY Zenon DEF Init
<1>2. Recovered = disk
  BY Zenon, <1>1, ReplayNone DEF Recovered
<1>3. Current = Recovered
  BY Zenon, <1>1 DEF Current
<1>4. InOp = {}
  BY Zenon DEF Init, InOp
<1> QED
  BY Zenon, <1>1, <1>2, <1>3, <1>4 DEF Atomic!Init

(* Recovery is invisible, and a crash is a crash. *)
LEMMA RecoverRefines ==
  ASSUME Enough, LogInv, ReadHead \/ RecoverInstall \/ RecoverErase \/ Crash
  PROVE  [Atomic!Next]_(Atomic!vars)
<1>1. TypeOK /\ OpsInv /\ HeaderInv
  BY Zenon DEF LogInv
<1>2. CASE ReadHead
  <2>1. mode = "boot" /\ mode' = "recover" /\ UNCHANGED <<disk, logblk, dh, pc>>
    BY Zenon, <1>2 DEF ReadHead, ondisk
  <2>2. Recovered' = Recovered
    BY Zenon, <2>1 DEF Recovered, Replay
  <2>3. Current' = Current /\ InOp' = InOp
    BY Zenon, <2>1, <2>2 DEF Current, InOp
  <2> QED
    BY Zenon, <2>2, <2>3, Stutter
<1>3. CASE RecoverInstall
  <2>1. mode = "recover" /\ mode' = "recover" /\ lh = dh /\ InstallBlock
        /\ UNCHANGED <<logblk, dh, pc>>
    BY Zenon, <1>1, <1>3 DEF RecoverInstall, HeaderInv
  <2>2. Recovered' = Recovered
    BY Zenon, <1>1, <2>1, InstallReplay
  <2>3. Current' = Current /\ InOp' = InOp
    BY Zenon, <2>1, <2>2 DEF Current, InOp
  <2> QED
    BY Zenon, <2>2, <2>3, Stutter
<1>4. CASE RecoverErase
  <2>1. mode = "recover" /\ mode' = "run" /\ tail = Len(lh) /\ dh' = << >>
        /\ UNCHANGED <<disk, logblk, cache, pc>>
    BY Zenon, <1>4 DEF RecoverErase
  <2>2. lh = dh /\ cache = disk /\ Installed(dh, Len(dh)) /\ Distinct(dh)
    BY Zenon, <1>1, <2>1 DEF HeaderInv
  <2>3. Recovered = disk
    BY Zenon, <1>1, <2>2, InstalledReplay
  <2>4. Recovered' = disk
    BY Zenon, <1>1, <2>1, ReplayNone DEF Recovered, TypeOK
  <2>5. Current' = Current /\ InOp' = InOp
    BY Zenon, <2>1, <2>2, <2>3 DEF Current, InOp
  <2> QED
    BY Zenon, <2>3, <2>4, <2>5, Stutter
<1>5. CASE Crash
  <2>1. mode' = "boot" /\ UNCHANGED <<disk, logblk, dh>> /\ pc' = [p \in Proc |-> "idle"]
    BY Zenon, <1>5 DEF Crash, ondisk
  <2>2. Recovered' = Recovered
    BY Zenon, <2>1 DEF Recovered, Replay
  <2>3. Current' = Recovered /\ InOp' = {}
    BY Zenon, <2>1, <2>2 DEF Current, InOp
  <2>4. Atomic!Crash
    BY Zenon, <2>2, <2>3 DEF Atomic!Crash
  <2> QED
    BY Zenon, <2>4 DEF Atomic!Next
<1> QED
  BY Zenon, <1>2, <1>3, <1>4, <1>5

(* begin_op begins, end_op ends, a modification of a buffer writes, and    *)
(* write_head commits; everything else is invisible.                       *)
LEMMA ProcRefines ==
  ASSUME Enough, LogInv, NEW p \in Proc, Act(p)
  PROVE  [Atomic!Next]_(Atomic!vars)
<1>1. TypeOK /\ OpsInv /\ HeaderInv
  BY Zenon DEF LogInv
<1>2. pc \in [Proc -> {"idle", "begin", "sleep", "op", "modified", "checked",
                      "write_log", "install", "finish", "panic"}]
  BY Zenon, <1>1 DEF TypeOK
<1>3. mode = "run" /\ mode' \notin {"boot", "recover"}
  BY Zenon DEF Act, ProcStep, Call, BeginSleep, BeginOp, LogWriteTest, LogWrite, EndOp, WriteLog,
         WriteHead, Install, Erase, Finish, Modify
<1>4. Current = cache /\ Current' = cache'
  BY Zenon, <1>3 DEF Current
<1>5. ASSUME UNCHANGED <<disk, logblk, dh>> PROVE Recovered' = Recovered
  BY Zenon, <1>5 DEF Recovered, Replay
<1>6. CASE Call(p) \/ BeginSleep(p) \/ LogWriteTest(p) \/ LogWrite(p)
  <2>1. UNCHANGED <<disk, logblk, dh, cache>>
    BY Zenon, <1>6 DEF Call, BeginSleep, LogWriteTest, LogWrite, ondisk
  <2>2. /\ \/ pc[p] \in {"idle", "begin"} /\ pc'[p] \in {"begin", "sleep"}
           \/ pc[p] \in {"modified", "checked"} /\ pc'[p] \in {"checked", "panic", "op"}
        /\ \A q \in Proc : q # p => pc'[q] = pc[q]
    BY Zenon, <1>2, <1>6 DEF Call, BeginSleep, LogWriteTest, LogWrite
  <2>3. InOp' = InOp
    BY Zenon, <2>2 DEF InOp
  <2> QED
    BY Zenon, <1>4, <1>5, <2>1, <2>3, Stutter
<1>7. CASE BeginOp(p)
  <2>1. UNCHANGED <<disk, logblk, dh, cache>> /\ pc' = [pc EXCEPT ![p] = "op"]
    BY Zenon, <1>7 DEF BeginOp, ondisk
  <2>2. InOp' = InOp \cup {p}
    BY Zenon, <1>2, <2>1 DEF InOp
  <2>3. Atomic!Begin(p)
    BY Zenon, <1>4, <1>5, <2>1, <2>2 DEF Atomic!Begin
  <2> QED
    BY Zenon, <2>3 DEF Atomic!Next
<1>8. ASSUME NEW b \in Block, NEW v \in Data, Modify(p, b, v) PROVE [Atomic!Next]_(Atomic!vars)
  <2>1. UNCHANGED <<disk, logblk, dh>> /\ pc' = [pc EXCEPT ![p] = "modified"] /\ pc[p] = "op"
        /\ cache' = [cache EXCEPT ![b] = v]
    BY Zenon, <1>8 DEF Modify, ondisk
  <2>2. InOp' = InOp /\ p \in InOp
    BY Zenon, <1>2, <2>1 DEF InOp
  <2>3. Atomic!Write(p, b, v)
    BY Zenon, <1>4, <1>5, <2>1, <2>2 DEF Atomic!Write
  <2> QED
    BY Zenon, <2>3 DEF Atomic!Next
<1>9. CASE EndOp(p)
  <2>1. UNCHANGED <<disk, logblk, dh, cache>> /\ pc[p] = "op"
    BY Zenon, <1>9 DEF EndOp, ondisk
  <2>2. committing # 1
    BY Zenon, <1>3, <2>1, Quiet DEF InOp
  <2>3. /\ pc'[p] \in {"idle", "finish", "write_log"}
        /\ \A q \in Proc : q # p => pc'[q] = pc[q] \/ (pc[q] = "sleep" /\ pc'[q] = "begin")
    BY Zenon, <1>2, <1>9, <2>2 DEF EndOp, WakeupLog
  <2>4. InOp' = InOp \ {p}
    BY Zenon, <2>3 DEF InOp
  <2>5. Atomic!End(p)
    BY Zenon, <1>4, <1>5, <2>1, <2>4 DEF Atomic!End
  <2> QED
    BY Zenon, <2>5 DEF Atomic!Next
<1>10. CASE WriteLog(p) \/ WriteHead(p) \/ Install(p) \/ Erase(p) \/ Finish(p)
  <2>1. pc[p] \in {"write_log", "install", "finish"}
    BY Zenon, <1>10 DEF WriteLog, WriteHead, Install, Erase, Finish
  <2>2. InOp = {}
    BY Zenon, <2>1, CommitterAlone
  <2>3. \A q \in Proc : pc'[q] = pc[q] \/ pc'[q] \in {"install", "finish", "idle", "begin"}
    BY Zenon, <1>2, <1>10 DEF WriteLog, WriteHead, Install, Erase, Finish, WakeupLog
  <2>4. InOp' = InOp
    BY Zenon, <2>2, <2>3 DEF InOp
  <2>5. CASE WriteLog(p)
    <3>1. dh = << >> /\ dh' = dh /\ UNCHANGED <<disk, cache>>
      BY Zenon, <1>1, <1>3, <2>5, CommitterAt DEF WriteLog, HeaderInv
    <3>2. Recovered = disk /\ Recovered' = disk
      BY Zenon, <1>1, <3>1, ReplayNone DEF Recovered, TypeOK
    <3> QED
      BY Zenon, <1>4, <2>4, <3>1, <3>2, Stutter
  <2>6. CASE WriteHead(p)
    <3>1. Recovered' = cache /\ cache' = cache
      BY Zenon, <2>6, CommitReplay DEF WriteHead
    <3>2. Atomic!Commit
      BY Zenon, <1>4, <2>2, <2>4, <3>1 DEF Atomic!Commit
    <3> QED
      BY Zenon, <3>2 DEF Atomic!Next
  <2>7. CASE Install(p)
    <3>1. cache' = cache /\ lh = dh /\ InstallBlock /\ UNCHANGED <<logblk, dh>>
      BY Zenon, <2>7, InstallKeepsCache DEF Install
    <3>2. Recovered' = Recovered
      BY Zenon, <1>1, <3>1, InstallReplay
    <3> QED
      BY Zenon, <1>4, <2>4, <3>1, <3>2, Stutter
  <2>8. CASE Erase(p)
    <3>1. cache = disk /\ lh = dh /\ Installed(dh, Len(dh)) /\ Distinct(dh)
      BY Zenon, <1>1, <2>8, EraseClean DEF HeaderInv
    <3>2. dh' = << >> /\ UNCHANGED <<disk, logblk, cache>>
      BY Zenon, <2>8 DEF Erase
    <3>3. Recovered = disk
      BY Zenon, <1>1, <3>1, InstalledReplay
    <3>4. Recovered' = disk
      BY Zenon, <1>1, <3>2, ReplayNone DEF Recovered, TypeOK
    <3> QED
      BY Zenon, <1>4, <2>4, <3>2, <3>3, <3>4, Stutter
  <2>9. CASE Finish(p)
    <3>1. UNCHANGED <<disk, logblk, dh, cache>>
      BY Zenon, <2>9 DEF Finish, ondisk
    <3> QED
      BY Zenon, <1>4, <1>5, <2>4, <3>1, Stutter
  <2> QED
    BY Zenon, <1>10, <2>5, <2>6, <2>7, <2>8, <2>9
<1> QED
  BY Zenon, <1>6, <1>7, <1>8, <1>9, <1>10 DEF Act, ProcStep

(* The log is an atomic disk: whenever power fails, what recovery finds is *)
(* the state at a moment when no operation was under way (write_head).     *)
THEOREM LogIsAtomic ==
  ASSUME Enough
  PROVE  Spec => AtomicSpec
<1>1. Init => Atomic!Init
  BY Zenon, InitRefines
<1>2. LogInv /\ [Next]_vars => [Atomic!Next]_(Atomic!vars)
  <2>1. ASSUME LogInv, Next PROVE [Atomic!Next]_(Atomic!vars)
    BY Zenon, <2>1, RecoverRefines, ProcRefines DEF Next, Act
  <2>2. ASSUME UNCHANGED vars PROVE UNCHANGED Atomic!vars
    <3>1. UNCHANGED <<disk, logblk, dh, cache, mode, pc>>
      BY Zenon, <2>2 DEF vars, ondisk
    <3>2. Recovered' = Recovered
      BY Zenon, <3>1 DEF Recovered, Replay
    <3>3. Current' = Current /\ InOp' = InOp
      BY Zenon, <3>1, <3>2 DEF Current, InOp
    <3> QED
      BY Zenon, <3>2, <3>3, Stutter
  <2> QED
    BY Zenon, <2>1, <2>2
<1> QED
  BY <1>1, <1>2, LogInvariant, PTL DEF Spec, AtomicSpec, Atomic!Spec
=============================================================================
