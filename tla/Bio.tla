-------------------------------- MODULE Bio --------------------------------
(***************************************************************************)
(* The buffer cache (bio.c) and the disk drivers below it (ide.c, and      *)
(* memide.c in a build without a disk).  What is done under bcache.lock or *)
(* idelock is one step; sleep-locks, sleep and wakeup are as Proc shows.   *)
(*                                                                         *)
(* The callers are processes of fs.c and log.c: they read a block, perhaps *)
(* a second one while they hold the first (Nested), change one and give it *)
(* to log_write, and one of them commits: it writes the logged blocks home *)
(* while it holds a log block.                                             *)
(***************************************************************************)
EXTENDS Integers, Sequences, FiniteSets, Functions

CONSTANTS
  NBUF,       \* buffers
  Home,       \* home blocks
  Written,    \* those that are changed
  LogBlock,   \* a block of the log
  BioProc,    \* the processes
  Nested,     \* pairs of blocks held together: an indirect block and the bitmap
  MAXPIN,     \* blocks that log.c keeps dirty between commits
  DiskErrors, \* TRUE when a read may fail
  Nil, Junk

Buf == 1 .. NBUF
AnyBlock == Home \cup {LogBlock}
Value == {0, 1}      \* contents of a block: the callers flip it

ASSUME BioAssumption ==
  /\ NBUF \in Nat \ {0} /\ MAXPIN \in Nat /\ IsFiniteSet(BioProc)
  /\ Written \subseteq Home /\ LogBlock \notin Home
  /\ Nested \subseteq Home \X Home /\ \A k \in Home : <<k, k>> \notin Nested
  /\ Junk \notin AnyBlock \cup Value /\ Nil \notin BioProc \cup Buf

VARIABLES
  blockno, bvalid, dirty, refcnt, bdata,   \* struct buf
  block,      \* b->lock: the process that holds it, or Nil
  mru,        \* the list bcache.head, most recently used first
  idequeue,   \* buffers to be read or written, the active one first
  request,    \* what the disk was told: command, block, data
  media,      \* the blocks of the disk
  driver,     \* the driver that was built in
  bpc,        \* where each process is
  want,       \* the buffer of the call in progress
  held,       \* the locked buffers of each process
  logged,     \* the blocks in the log header
  committer,  \* the process that commits, or Nil
  bstore      \* the last contents given to each block

bioVars == <<blockno, bvalid, dirty, refcnt, bdata, block, mru, idequeue, request, media,
             driver, bpc, want, held, logged, committer, bstore>>
bufVars == <<blockno, bvalid, dirty, refcnt, bdata, block, mru>>
ideVars == <<idequeue, request, media, driver>>
logVars == <<logged, committer, bstore>>
callVars == <<bpc, want, held>>

Idle == [cmd |-> "none", blockno |-> Junk, bdata |-> Junk]

(* binit links each buffer in front of the ones before it. *)
BioInit ==
  /\ blockno = [b \in Buf |-> Junk] /\ bdata = [b \in Buf |-> Junk]
  /\ bvalid = [b \in Buf |-> FALSE] /\ dirty = [b \in Buf |-> FALSE]
  /\ refcnt = [b \in Buf |-> 0] /\ block = [b \in Buf |-> Nil]
  /\ mru = [i \in Buf |-> NBUF + 1 - i]
  /\ idequeue = <<>> /\ request = Idle /\ media = [k \in AnyBlock |-> 0]
  /\ driver \in {"ide", "memide"}
  /\ bpc = [p \in BioProc |-> "run"] /\ want = [p \in BioProc |-> Nil]
  /\ held = [p \in BioProc |-> {}]
  /\ logged = {} /\ committer = Nil /\ bstore = [k \in AnyBlock |-> 0]

Holds(p, k) == \E b \in held[p] : blockno[b] = k
Cached(k) == {b \in Buf : blockno[b] = k}
(* A slip: refcnt = 0 is taken for "not in use", the pinned buffers of log_write included. *)
RecyclableDirty == {b \in Buf : refcnt[b] = 0}

Recyclable == {b \in Buf : refcnt[b] = 0 /\ ~dirty[b]}
LeastRecent(S) == CHOOSE b \in S : \A c \in S : c = b \/ \E i, j \in DOMAIN mru : mru[i] = c /\ mru[j] = b /\ i < j
----------------------------------------------------------------------------
Return(p) == bpc' = [bpc EXCEPT ![p] = "run"] /\ want' = [want EXCEPT ![p] = Nil]

(* bget up to the release of bcache.lock. *)
BgetCached(p, k) ==
  /\ \E b \in Cached(k) : refcnt' = [refcnt EXCEPT ![b] = @ + 1] /\ want' = [want EXCEPT ![p] = b]
  /\ bpc' = [bpc EXCEPT ![p] = "lock"]
  /\ UNCHANGED <<blockno, bvalid, dirty, bdata, block, mru, held>>

(* b now stands for block k, with r references; v: whether its old contents stay. *)
Retarget(p, k, b, r, v) ==
  /\ blockno' = [blockno EXCEPT ![b] = k]
  /\ bvalid' = [bvalid EXCEPT ![b] = v] /\ dirty' = [dirty EXCEPT ![b] = FALSE]
  /\ refcnt' = [refcnt EXCEPT ![b] = r]
  /\ want' = [want EXCEPT ![p] = b]
  /\ bpc' = [bpc EXCEPT ![p] = "lock"]
  /\ UNCHANGED <<bdata, block, mru, held>>

BgetRecycle(p, k) ==
  /\ Cached(k) = {}
  /\ IF Recyclable = {}
     THEN bpc' = [bpc EXCEPT ![p] = "panic"] /\ UNCHANGED <<bufVars, want, held>>
     ELSE Retarget(p, k, LeastRecent(Recyclable), 1, FALSE)

Bget(p, k) ==
  /\ bpc[p] = "run" /\ (BgetCached(p, k) \/ BgetRecycle(p, k))
  /\ UNCHANGED <<ideVars, logVars>>

(* acquiresleep at the end of bget; bread then reads the block if it is not valid. *)
BgetLock(p) ==
  /\ bpc[p] = "lock" /\ block[want[p]] = Nil
  /\ block' = [block EXCEPT ![want[p]] = p]
  /\ held' = [held EXCEPT ![p] = @ \cup {want[p]}]
  /\ IF bvalid[want[p]] THEN Return(p) ELSE bpc' = [bpc EXCEPT ![p] = "iderw"] /\ UNCHANGED want
  /\ UNCHANGED <<blockno, bvalid, dirty, refcnt, bdata, mru, ideVars, logVars>>

Bwrite(p, b) ==
  /\ bpc[p] = "run" /\ b \in held[p]
  /\ dirty' = [dirty EXCEPT ![b] = TRUE]
  /\ want' = [want EXCEPT ![p] = b]
  /\ bpc' = [bpc EXCEPT ![p] = "iderw"]
  /\ UNCHANGED <<blockno, bvalid, refcnt, bdata, block, mru, held, ideVars>>

(* b, at place i of the list q, goes to its head. *)
ToFront(b, q) ==
  LET i == CHOOSE i \in DOMAIN q : q[i] = b
  IN [j \in DOMAIN q |-> IF j = 1 THEN b ELSE IF j <= i THEN q[j - 1] ELSE q[j]]

(* The sleep-lock goes first; then, under bcache.lock, the reference. *)
BrelseUnlock(p, b) ==
  /\ bpc[p] = "run" /\ b \in held[p]
  /\ block' = [block EXCEPT ![b] = Nil]
  /\ held' = [held EXCEPT ![p] = @ \ {b}]
  /\ want' = [want EXCEPT ![p] = b]
  /\ bpc' = [bpc EXCEPT ![p] = "brelse"]
  /\ UNCHANGED <<blockno, bvalid, dirty, refcnt, bdata, mru, ideVars>>

Brelse(p) ==
  /\ bpc[p] = "brelse"
  /\ refcnt' = [refcnt EXCEPT ![want[p]] = @ - 1]
  /\ mru' = IF refcnt'[want[p]] = 0 THEN ToFront(want[p], mru) ELSE mru
  /\ Return(p)
  /\ UNCHANGED <<blockno, bvalid, dirty, bdata, block, held, ideVars, logVars>>
----------------------------------------------------------------------------
(* idestart sends the data with the command when the buffer is dirty. *)
IdeStart(b) ==
  request' = [cmd |-> IF dirty[b] THEN "write" ELSE "read", blockno |-> blockno[b],
              bdata |-> IF dirty[b] THEN bdata[b] ELSE Junk]

Iderw(p) ==
  /\ bpc[p] = "iderw" /\ driver = "ide"
  /\ idequeue' = Append(idequeue, want[p])
  /\ IF Head(idequeue') = want[p] THEN IdeStart(want[p]) ELSE UNCHANGED request
  /\ bpc' = [bpc EXCEPT ![p] = "sleep"]
  /\ UNCHANGED <<media, driver, want, held, bufVars, logVars>>

(* Woken: the while loop of iderw. *)
IderwTest(p) ==
  /\ bpc[p] = "woken"
  /\ IF bvalid[want[p]] /\ ~dirty[want[p]] THEN Return(p)
     ELSE bpc' = [bpc EXCEPT ![p] = "sleep"] /\ UNCHANGED want
  /\ UNCHANGED <<held, bufVars, ideVars, logVars>>

(* The disk executes the request and raises its interrupt. *)
DiskWorks ==
  /\ request.cmd \in {"read", "write"}
  /\ media' = IF request.cmd = "write" THEN [media EXCEPT ![request.blockno] = request.bdata] ELSE media
  /\ \E ok \in IF DiskErrors /\ request.cmd = "read" THEN BOOLEAN ELSE {TRUE} :
       request' = [cmd |-> "done", blockno |-> request.blockno,
                   bdata |-> IF ok THEN media'[request.blockno] ELSE Junk]
  /\ UNCHANGED <<idequeue, driver, callVars, bufVars, logVars>>

(* A slip: the next buffer of the queue is not started. *)
IdeIntrStops ==
  /\ request.cmd = "done" /\ idequeue # <<>>
  /\ LET b == Head(idequeue)
     IN /\ idequeue' = Tail(idequeue)
        /\ bdata' = IF ~dirty[b] /\ request.bdata # Junk THEN [bdata EXCEPT ![b] = request.bdata] ELSE bdata
        /\ bvalid' = [bvalid EXCEPT ![b] = TRUE] /\ dirty' = [dirty EXCEPT ![b] = FALSE]
        /\ bpc' = [p \in BioProc |-> IF bpc[p] = "sleep" /\ want[p] = b THEN "woken" ELSE bpc[p]]
        /\ request' = Idle
  /\ UNCHANGED <<blockno, refcnt, block, mru, media, driver, want, held, logVars>>

(* A read that failed (idewait(1) < 0) leaves the data of the buffer alone. *)
IdeIntr ==
  /\ request.cmd = "done" /\ idequeue # <<>>
  /\ LET b == Head(idequeue)
     IN /\ idequeue' = Tail(idequeue)
        /\ bdata' = IF ~dirty[b] /\ request.bdata # Junk THEN [bdata EXCEPT ![b] = request.bdata] ELSE bdata
        /\ bvalid' = [bvalid EXCEPT ![b] = TRUE] /\ dirty' = [dirty EXCEPT ![b] = FALSE]
        /\ bpc' = [p \in BioProc |-> IF bpc[p] = "sleep" /\ want[p] = b THEN "woken" ELSE bpc[p]]
        /\ IF idequeue' # <<>> THEN IdeStart(Head(idequeue')) ELSE request' = Idle
  /\ UNCHANGED <<blockno, refcnt, block, mru, media, driver, want, held, logVars>>

(* The driver of memide.c copies at once. *)
IderwMem(p) ==
  /\ bpc[p] = "iderw" /\ driver = "memide"
  /\ LET b == want[p]
     IN /\ media' = IF dirty[b] THEN [media EXCEPT ![blockno[b]] = bdata[b]] ELSE media
        /\ bdata' = IF dirty[b] THEN bdata ELSE [bdata EXCEPT ![b] = media[blockno[b]]]
        /\ dirty' = [dirty EXCEPT ![b] = FALSE] /\ bvalid' = [bvalid EXCEPT ![b] = TRUE]
  /\ Return(p)
  /\ UNCHANGED <<blockno, refcnt, block, mru, idequeue, request, driver, held, logVars>>
----------------------------------------------------------------------------
(* The callers.  bread: the first block, or, within a transaction, a second *)
(* one in a nested order.                                                   *)
ReadBlock(p) ==
  /\ committer # p
  /\ \E k \in Home : /\ \A b \in held[p] : <<blockno[b], k>> \in Nested
                     /\ held[p] = {} \/ (Cardinality(held[p]) = 1 /\ committer = Nil)
                     /\ Bget(p, k)

(* A change of a held block, then log_write: the header keeps the block,   *)
(* which stays dirty until the commit.                                     *)
BlockLogged(p) ==
  /\ bpc[p] = "run" /\ committer = Nil
  /\ \E b \in held[p] :
       /\ blockno[b] \in Written /\ Cardinality(logged \cup {blockno[b]}) <= MAXPIN
       /\ bdata' = [bdata EXCEPT ![b] = 1 - @] /\ bstore' = [bstore EXCEPT ![blockno[b]] = 1 - @]
       /\ dirty' = [dirty EXCEPT ![b] = TRUE] /\ logged' = logged \cup {blockno[b]}
  /\ UNCHANGED <<blockno, bvalid, refcnt, block, mru, committer, callVars, ideVars>>

Release(p) == /\ committer # p \/ ~\E k \in logged : Holds(p, k)
              /\ \E b \in held[p] : BrelseUnlock(p, b) /\ UNCHANGED logVars

(* commit, when no transaction runs: install_trans holds a log block and   *)
(* writes each logged block home.                                          *)
CommitBegin(p) ==
  /\ committer = Nil /\ logged # {} /\ bpc[p] = "run" /\ held[p] = {}
  /\ \A q \in BioProc : Cardinality(held[q]) + (IF bpc[q] \in {"lock", "brelse"} THEN 1 ELSE 0) <= 1
  /\ committer' = p
  /\ UNCHANGED <<logged, bstore, callVars, bufVars, ideVars>>

CommitRead(p) ==
  /\ committer = p
  /\ \/ held[p] = {} /\ logged # {} /\ Bget(p, LogBlock)
     \/ Cardinality(held[p]) = 1 /\ Holds(p, LogBlock) /\ \E k \in logged : Bget(p, k)

CommitWrite(p) ==
  /\ committer = p
  /\ \E k \in logged, b \in held[p] :
       blockno[b] = k /\ Bwrite(p, b) /\ logged' = logged \ {k} /\ UNCHANGED <<committer, bstore>>

CommitEnd(p) ==
  /\ committer = p /\ logged = {} /\ bpc[p] = "run" /\ held[p] = {}
  /\ committer' = Nil
  /\ UNCHANGED <<logged, bstore, callVars, bufVars, ideVars>>

BioStep(p) ==
  \/ BgetLock(p) \/ Brelse(p) \/ Iderw(p) \/ IderwTest(p) \/ IderwMem(p)
  \/ Release(p) \/ CommitRead(p) \/ CommitWrite(p) \/ CommitEnd(p)

BioNext ==
  \/ DiskWorks \/ IdeIntr
  \/ \E p \in BioProc : BioStep(p) \/ ReadBlock(p) \/ BlockLogged(p) \/ CommitBegin(p)

BioSpec == BioInit /\ [][BioNext]_bioVars
----------------------------------------------------------------------------
(* Types of the buffers, the list and the disk; a buffer has at most one    *)
(* reference per process, and the list holds every buffer once.             *)
BioTypeOK ==
  /\ blockno \in [Buf -> AnyBlock \cup {Junk}] /\ bdata \in [Buf -> Value \cup {Junk}]
  /\ bvalid \in [Buf -> BOOLEAN] /\ dirty \in [Buf -> BOOLEAN]
  /\ refcnt \in [Buf -> 0 .. Cardinality(BioProc)] /\ block \in [Buf -> BioProc \cup {Nil}]
  /\ Range(mru) = Buf /\ Len(mru) = Cardinality(Buf)
  /\ media \in [AnyBlock -> Value] /\ logged \subseteq Home

(* bget, "recycle an unused buffer": two processes that miss the same block *)
(* at once must end up with one buffer for it.                              *)
OneBufferPerBlock == \A b, c \in Buf : b # c /\ blockno[b] = blockno[c] => blockno[b] = Junk

(* What a process reads through the cache is what was last stored in that   *)
(* block, whoever stored it and whatever was evicted in between.            *)
CacheCoherent == \A b \in Buf : bvalid[b] => bdata[b] = bstore[blockno[b]]

(* Nothing that log_write was given is lost before the commit writes it: a  *)
(* block whose latest contents are not on the disk is in a dirty buffer.    *)
UnwrittenIsDirty ==
  \A k \in Home : media[k] # bstore[k] => \E b \in Cached(k) : dirty[b] /\ bvalid[b]

(* A buffer that a process holds, waits for or is about to release is       *)
(* counted, so bget never takes it away.                                    *)
RefcntExact ==
  \A b \in Buf : refcnt[b] = Cardinality({p \in BioProc :
                   b \in held[p] \/ (bpc[p] \in {"lock", "brelse"} /\ want[p] = b)})

(* The disk works exactly while the queue is not empty, on its head, so no  *)
(* process sleeps in iderw for a request that nobody started.               *)
DiskServesHead ==
  /\ idequeue = <<>> <=> request.cmd = "none"
  /\ idequeue # <<>> => request.blockno = blockno[Head(idequeue)]
  /\ \A p \in BioProc : bpc[p] = "sleep" => want[p] \in Range(idequeue)

(* bget finds a buffer as long as the pinned blocks and the blocks that the *)
(* processes hold fit the cache.                                            *)
NeverOutOfBuffers == \A p \in BioProc : bpc[p] # "panic"

(* The cache holds what was stored: one buffer per block, its contents the  *)
(* latest, and nothing unwritten is evicted.                                *)
CacheSound == OneBufferPerBlock /\ CacheCoherent /\ UnwrittenIsDirty

(* Buffers and disk requests are accounted for: counts are exact, bget      *)
(* finds a buffer, and nobody sleeps for a request that is not served.      *)
BuffersSound == BioTypeOK /\ RefcntExact /\ NeverOutOfBuffers /\ DiskServesHead
=============================================================================
