------------------------------- MODULE Content -------------------------------
(***************************************************************************)
(* The content of files: the free map, bmap, itrunc, readi and writei      *)
(* (fs.c), and fileread and filewrite on struct files that processes share *)
(* (file.c).                                                               *)
(*                                                                         *)
(* What is done under ip->lock is one step: a read, a chunk of a write, a  *)
(* truncation.  A byte is the number of the process that wrote it.         *)
(***************************************************************************)
EXTENDS Integers, SequencesExt

CONSTANTS
  Writer,       \* the processes, positive numbers
  Sizes,        \* the sizes n of read and write
  Ino,          \* the files
  Open,         \* struct file's
  Uses,         \* <<p, f, i>>: process p uses struct file f for file i
  NBLOCKS,      \* data blocks are 1 .. NBLOCKS
  BSIZE, NDIRECT, NINDIRECT, MAXOPBLOCKS

ASSUME ContentAssumption ==
  /\ BSIZE \in Nat \ {0} /\ NDIRECT \in Nat \ {0} /\ NINDIRECT \in 1 .. BSIZE
  /\ MAXOPBLOCKS >= 6 /\ Writer \subseteq Nat \ {0}

VARIABLES
  used,         \* the free map: blocks in use
  blk,          \* the contents of blocks: bytes, or block numbers
  addrs, size,  \* struct inode
  fip, off,     \* struct file: its inode (0: none), its offset
  left,         \* of each process: [f, n], what is left of its filewrite
  expected,     \* history: the bytes that a file should hold
  pos,          \* history: the bytes that went through each struct file
  bad           \* history: panic in balloc, bfree, bmap or filewrite

contentVars == <<used, blk, addrs, size, fip, off, left, expected, pos, bad>>

MAXFILE == NDIRECT + NINDIRECT
DataBlock == 1 .. NBLOCKS
Zeros == [k \in 0 .. BSIZE - 1 |-> 0]
Stale == [k \in 0 .. BSIZE - 1 |-> 1]
NoFile == [f |-> 0, n |-> 0]
ChunkMax == ((MAXOPBLOCKS - 1 - 1 - 2) \div 2) * BSIZE

ContentInit ==
  /\ used = {} /\ blk = [b \in DataBlock |-> Zeros]
  /\ addrs = [i \in Ino |-> [k \in 0 .. NDIRECT |-> 0]] /\ size = [i \in Ino |-> 0]
  /\ fip = [f \in Open |-> 0] /\ off = [f \in Open |-> 0] /\ pos = [f \in Open |-> 0]
  /\ left = [p \in Writer |-> NoFile] /\ expected = [i \in Ino |-> <<>>]
  /\ bad = FALSE
-----------------------------------------------------------------------------
(* A slip: the block is zeroed and returned, its bit is not set. *)
BallocUnmarked(s) ==
  LET free == DataBlock \ s.used
      b == Min(free)
  IN IF free = {} THEN [s EXCEPT !.bad = TRUE]
     ELSE [s EXCEPT !.blk[b] = Zeros, !.new = b]

(* balloc: the first free block, zeroed.  s is the disk in the middle of an *)
(* operation.                                                               *)
Balloc(s) ==
  LET free == DataBlock \ s.used
      b == Min(free)
  IN IF free = {} THEN [s EXCEPT !.bad = TRUE]
     ELSE [s EXCEPT !.used = @ \cup {b}, !.blk[b] = Zeros, !.new = b]

(* bmap: the address of block bn of the file with addresses s.addrs, in     *)
(* s.new. *)
BmapDirect(s, k) ==
  IF s.addrs[k] # 0 THEN [s EXCEPT !.new = s.addrs[k]]
  ELSE LET t == Balloc(s) IN [t EXCEPT !.addrs[k] = t.new]

BmapIndirect(s, k) ==
  LET t == BmapDirect(s, NDIRECT)
      a == t.new
  IN IF t.blk[a][k] # 0 THEN [t EXCEPT !.new = t.blk[a][k]]
     ELSE LET u == Balloc(t) IN [u EXCEPT !.blk[a][k] = u.new]

Bmap(s, bn) == IF bn < NDIRECT THEN BmapDirect(s, bn) ELSE BmapIndirect(s, bn - NDIRECT)

Disk(i) == [used |-> used, blk |-> blk, addrs |-> addrs[i], new |-> 0, bad |-> FALSE]

(* writei: one turn of the loop writes what falls into block bn. *)
WriteBlock(s, bn, o, n, v) ==
  LET t == Bmap(s, bn)
      In(k) == bn * BSIZE + k \in o .. o + n - 1
  IN [t EXCEPT !.blk[t.new] = [k \in DOMAIN @ |-> IF In(k) THEN v ELSE @[k]]]

BlocksOf(o, n) == [k \in 1 .. ((o + n - 1) \div BSIZE) - (o \div BSIZE) + 1 |-> (o \div BSIZE) + k - 1]

WriteiFails(i, o, n) == o > size[i] \/ o + n > MAXFILE * BSIZE

Writei(i, o, n, v) == FoldLeft(LAMBDA s, bn : WriteBlock(s, bn, o, n, v), Disk(i), BlocksOf(o, n))

(* readi, without its copy loop: each byte from the block that bmap names.  *)
Readi(i, o, n) ==
  IF o > size[i] THEN <<>>
  ELSE [k \in 1 .. Min({n, size[i] - o}) |->
          LET x == o + k - 1 IN blk[Bmap(Disk(i), x \div BSIZE).new][x % BSIZE]]
-----------------------------------------------------------------------------
(* sys_open of file i: a struct file at offset 0. *)
ContentOpen(f, i) ==
  /\ (\E p \in Writer : <<p, f, i>> \in Uses) /\ fip[f] = 0 /\ fip' = [fip EXCEPT ![f] = i]
  /\ off' = [off EXCEPT ![f] = 0] /\ pos' = [pos EXCEPT ![f] = 0]
  /\ UNCHANGED <<used, blk, addrs, size, left, expected, bad>>

ContentClose(f) ==
  /\ fip[f] # 0 /\ \A p \in Writer : left[p].f # f
  /\ fip' = [fip EXCEPT ![f] = 0] /\ off' = [off EXCEPT ![f] = 0] /\ pos' = [pos EXCEPT ![f] = 0]
  /\ UNCHANGED <<used, blk, addrs, size, left, expected, bad>>

Fileread(p, f, n) ==
  LET r == Len(Readi(fip[f], off[f], n))
  IN /\ <<p, f, fip[f]>> \in Uses /\ left[p].n = 0
     /\ off' = [off EXCEPT ![f] = @ + r] /\ pos' = [pos EXCEPT ![f] = @ + r]
     /\ UNCHANGED <<used, blk, addrs, size, fip, left, expected, bad>>

FilewriteCall(p, f, n) ==
  /\ <<p, f, fip[f]>> \in Uses /\ left[p].n = 0 /\ left' = [left EXCEPT ![p] = [f |-> f, n |-> n]]
  /\ UNCHANGED <<used, blk, addrs, size, fip, off, expected, pos, bad>>

Overwrite(s, o, n, v) ==
  [k \in 1 .. Max({Len(s), o + n}) |-> IF k \in o + 1 .. o + n THEN v ELSE s[k]]

(* A slip: a write inside the file cuts it off. *)
SizeAfterCut(i, end) == end

(* The end of writei: the file grows, and never shrinks. *)
SizeAfter(i, end) == IF end > size[i] THEN end ELSE size[i]

(* One turn of filewrite's loop: a transaction, with the inode locked. *)
FilewriteChunk(p) ==
  LET f == left[p].f
      i == fip[f]
      n1 == Min({left[p].n, ChunkMax})
      s == Writei(i, off[f], n1, p)
  IN /\ left[p].n > 0 /\ ~WriteiFails(i, off[f], n1)
     /\ used' = s.used /\ blk' = s.blk /\ addrs' = [addrs EXCEPT ![i] = s.addrs]
     /\ size' = [size EXCEPT ![i] = SizeAfter(i, off[f] + n1)]
     /\ off' = [off EXCEPT ![f] = @ + n1]
     /\ left' = [left EXCEPT ![p] = IF @.n = n1 THEN NoFile ELSE [@ EXCEPT !.n = @ - n1]]
     /\ expected' = [expected EXCEPT ![i] = Overwrite(@, pos[f], n1, p)]
     /\ pos' = [pos EXCEPT ![f] = @ + n1]
     /\ bad' = s.bad
     /\ UNCHANGED fip

FilewriteFails(p) ==
  /\ left[p].n > 0
  /\ WriteiFails(fip[left[p].f], off[left[p].f], Min({left[p].n, ChunkMax}))
  /\ left' = [left EXCEPT ![p] = NoFile]
  /\ UNCHANGED <<used, blk, addrs, size, fip, off, expected, pos, bad>>

(* itrunc, from the last iput of a file without links.  A free block keeps  *)
(* what it held, which balloc zeroes: Stale. *)
Held(i) == LET ind == addrs[i][NDIRECT]
               inds == IF ind = 0 THEN {} ELSE {blk[ind][k] : k \in 0 .. NINDIRECT - 1}
           IN ({addrs[i][k] : k \in 0 .. NDIRECT} \cup inds) \ {0}
Itrunc(i) ==
  /\ \A f \in Open : fip[f] # i
  /\ used' = used \ Held(i) /\ bad' = ~(Held(i) \subseteq used)
  /\ addrs' = [addrs EXCEPT ![i] = [k \in 0 .. NDIRECT |-> 0]] /\ size' = [size EXCEPT ![i] = 0]
  /\ blk' = [b \in DataBlock |-> IF b \in Held(i) THEN Stale ELSE blk[b]]
  /\ expected' = [expected EXCEPT ![i] = <<>>]
  /\ UNCHANGED <<fip, off, left, pos>>

ContentNext ==
  \/ \E f \in Open : ContentClose(f) \/ \E i \in Ino : ContentOpen(f, i)
  \/ \E p \in Writer : FilewriteChunk(p) \/ FilewriteFails(p)
  \/ \E p \in Writer, f \in Open, n \in Sizes : Fileread(p, f, n) \/ FilewriteCall(p, f, n)
  \/ \E i \in Ino : Itrunc(i)
ContentSpec == ContentInit /\ [][ContentNext]_contentVars
-----------------------------------------------------------------------------
(* Types; no file and no offset goes past the largest file. *)
ContentTypeOK ==
  /\ used \subseteq DataBlock /\ size \in [Ino -> 0 .. MAXFILE * BSIZE]
  /\ off \in [Open -> 0 .. MAXFILE * BSIZE] /\ fip \in [Open -> Ino \cup {0}] /\ bad \in BOOLEAN

(* A block in use belongs to exactly one file, in one place of it, and a    *)
(* block of a file is in use: balloc, bmap and itrunc neither share nor     *)
(* leak a block, and never panic.                                           *)
Places(i) ==
  {<<"direct", k>> : k \in {j \in 0 .. NDIRECT : addrs[i][j] # 0}} \cup
  {<<"indirect", k>> : k \in {j \in 0 .. NINDIRECT - 1 :
                                addrs[i][NDIRECT] # 0 /\ blk[addrs[i][NDIRECT]][j] # 0}}
OneOwner ==
  /\ ~bad
  /\ used = UNION {Held(i) : i \in Ino}
  /\ \A i \in Ino : Cardinality(Held(i)) = Cardinality(Places(i))
  /\ \A i, j \in Ino : i # j => Held(i) \cap Held(j) = {}

(* A read returns what was last written at its place, by any process        *)
(* through any struct file, also when writes of several chunks interleave;  *)
(* struct files that are shared advance by what went through them.          *)
ReadsWhatWasWritten ==
  ContentTypeOK /\ \A i \in Ino : size[i] = Len(expected[i]) /\ \A o \in {0, size[i] \div 2} :
    Readi(i, o, MAXFILE * BSIZE) = SubSeq(expected[i], o + 1, Len(expected[i]))
=============================================================================
