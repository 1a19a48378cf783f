-------------------------------- MODULE Pipe --------------------------------
(***************************************************************************)
(* A pipe (pipe.c) and the references to its two ends (file.c): fork hands *)
(* the ends on, and the last fileclose of an end calls pipeclose.          *)
(*                                                                         *)
(* What is done under p->lock is one step, except that a process keeps the *)
(* lock between its test of killed and sleep.  The k-th byte stored in the *)
(* pipe is the number k.                                                   *)
(***************************************************************************)
EXTENDS Blocking, FiniteSetsExt

CONSTANTS
  PIPESIZE,
  PIPEWORD,   \* nread and nwrite are counted modulo this, 2^32 in the code
  MAXBYTES,   \* bound on the bytes that are written
  Creator     \* the process that calls pipe()

ASSUME PipeAssumption ==
  /\ PIPESIZE \in Nat \ {0} /\ PIPEWORD \in Nat /\ PIPEWORD % PIPESIZE = 0 /\ PIPEWORD > PIPESIZE
  /\ Creator \in Proc

VARIABLES
  data, nread, nwrite, readopen, writeopen,   \* struct pipe
  plock,      \* p->lock: the process that holds it, or Nobody
  rend, wend, \* the processes with a descriptor of each end: ref of its struct file
  stored,     \* history: the bytes stored
  taken,      \* history: the bytes read
  pfreed      \* history: the times the page of the pipe was freed

pipeVars == <<data, nread, nwrite, readopen, writeopen, plock, rend, wend, stored, taken, pfreed>>
ring == <<data, nread, nwrite, stored, taken>>
ends == <<readopen, writeopen, rend, wend, pfreed>>

(* pipealloc, and sys_pipe for Creator. *)
PipeInit ==
  /\ data = [i \in 0 .. PIPESIZE - 1 |-> 0] /\ nread = 0 /\ nwrite = 0
  /\ readopen = TRUE /\ writeopen = TRUE /\ plock = Nobody
  /\ rend = {Creator} /\ wend = {Creator} /\ stored = 0 /\ taken = <<>> /\ pfreed = 0

Empty == nread = nwrite
Full == nwrite = (nread + PIPESIZE) % PIPEWORD
Count == (nwrite - nread) % PIPEWORD

(* fork: the child gets a reference to every file of its parent. *)
PipeFork(p, q) ==
  /\ User(p) /\ pc[q] = "unborn"
  /\ rend' = (IF p \in rend THEN rend \cup {q} ELSE rend)
  /\ wend' = (IF p \in wend THEN wend \cup {q} ELSE wend)
  /\ Goto(q, "user")
  /\ UNCHANGED <<chan, killed, n, ring, readopen, writeopen, pfreed, plock>>
-----------------------------------------------------------------------------
PipereadCall(p, k) ==
  /\ User(p) /\ p \in rend
  /\ n' = [n EXCEPT ![p] = k] /\ Goto(p, "piperead")
  /\ UNCHANGED <<chan, killed, pipeVars>>

(* The copy loop and the wakeup. *)
PipereadCopy(p) ==
  LET m == Min({n[p], Count})
  IN /\ ~(Empty /\ writeopen)
     /\ taken' = taken \o [i \in 1 .. m |-> data[(nread + i - 1) % PIPESIZE]]
     /\ nread' = (nread + m) % PIPEWORD
     /\ Wakeup("nwrite") /\ n' = [n EXCEPT ![p] = 0] /\ Goto(p, "user")
     /\ UNCHANGED <<data, nwrite, stored, plock>>

PipereadWait(p) ==
  /\ Empty /\ writeopen
  /\ IF killed[p] THEN Goto(p, "user") /\ n' = [n EXCEPT ![p] = 0] /\ UNCHANGED plock
                  ELSE Goto(p, "piperead_sleep") /\ plock' = p /\ UNCHANGED n
  /\ UNCHANGED <<chan, ring>>

Piperead(p) ==
  /\ Running(p, "piperead") /\ plock = Nobody
  /\ PipereadCopy(p) \/ PipereadWait(p)
  /\ UNCHANGED <<killed, ends>>

PipereadSleep(p) ==
  /\ pc[p] = "piperead_sleep"
  /\ SleepOn(p, "nread") /\ plock' = Nobody /\ Goto(p, "piperead")
  /\ UNCHANGED <<killed, n, ring, ends>>
-----------------------------------------------------------------------------
Writing(p) == pc[p] \in {"pipewrite", "pipewrite_sleep"}
Pending == MapThenSumSet(LAMBDA q : IF Writing(q) THEN n[q] ELSE 0, Proc)

PipewriteCall(p, k) ==
  /\ User(p) /\ p \in wend /\ stored + k + Pending <= MAXBYTES
  /\ n' = [n EXCEPT ![p] = k] /\ Goto(p, "pipewrite")
  /\ UNCHANGED <<chan, killed, pipeVars>>

(* Bytes are stored until there are no more, or the pipe is full. *)
PipewriteStore(p, m) ==
  /\ data' = [s \in DOMAIN data |->
                LET new == {i \in 1 .. m : (nwrite + i - 1) % PIPESIZE = s}
                IN IF new = {} THEN data[s] ELSE stored + Max(new)]
  /\ nwrite' = (nwrite + m) % PIPEWORD /\ stored' = stored + m
  /\ UNCHANGED <<nread, taken>>

(* A slip: the readers are not woken at the end. *)
PipewriteDoneSilent(p) ==
  /\ n[p] <= PIPESIZE - Count
  /\ PipewriteStore(p, n[p])
  /\ n' = [n EXCEPT ![p] = 0] /\ Goto(p, "user") /\ UNCHANGED <<chan, plock>>

PipewriteDone(p) ==
  /\ n[p] <= PIPESIZE - Count
  /\ PipewriteStore(p, n[p])
  /\ Wakeup("nread") /\ n' = [n EXCEPT ![p] = 0] /\ Goto(p, "user") /\ UNCHANGED plock

PipewriteFull(p) ==
  LET m == PIPESIZE - Count
  IN /\ n[p] > m
     /\ PipewriteStore(p, m)
     /\ IF ~readopen \/ killed[p]
        THEN Goto(p, "user") /\ n' = [n EXCEPT ![p] = 0] /\ UNCHANGED <<chan, plock>>
        ELSE Wakeup("nread") /\ n' = [n EXCEPT ![p] = @ - m] /\ Goto(p, "pipewrite_sleep") /\ plock' = p

Pipewrite(p) ==
  /\ Running(p, "pipewrite") /\ plock = Nobody
  /\ PipewriteDone(p) \/ PipewriteFull(p)
  /\ UNCHANGED <<killed, ends>>

PipewriteSleep(p) ==
  /\ pc[p] = "pipewrite_sleep"
  /\ SleepOn(p, "nwrite") /\ plock' = Nobody /\ Goto(p, "pipewrite")
  /\ UNCHANGED <<killed, n, ring, ends>>
-----------------------------------------------------------------------------
(* fileclose, by close or by exit; the last reference closes the end. *)
Fileclose(p) ==
  /\ pc[p] = "user"
  /\ \/ /\ p \in rend /\ rend' = rend \ {p} /\ UNCHANGED wend
        /\ IF rend' = {} THEN Goto(p, "pipeclose_read") ELSE UNCHANGED pc
     \/ /\ p \in wend /\ wend' = wend \ {p} /\ UNCHANGED rend
        /\ IF wend' = {} THEN Goto(p, "pipeclose_write") ELSE UNCHANGED pc
  /\ UNCHANGED <<chan, killed, n, ring, readopen, writeopen, pfreed, plock>>

(* Slips: the page goes with the first end; nobody is woken. *)
PipecloseEarly(p) ==
  /\ plock = Nobody
  /\ \/ pc[p] = "pipeclose_write" /\ writeopen' = FALSE /\ Wakeup("nread") /\ UNCHANGED readopen
     \/ pc[p] = "pipeclose_read" /\ readopen' = FALSE /\ Wakeup("nwrite") /\ UNCHANGED writeopen
  /\ pfreed' = (IF readopen' /\ writeopen' THEN pfreed ELSE pfreed + 1)
  /\ Goto(p, "user")
  /\ UNCHANGED <<killed, n, ring, rend, wend, plock>>

PipecloseSilent(p) ==
  /\ plock = Nobody
  /\ \/ pc[p] = "pipeclose_write" /\ writeopen' = FALSE /\ UNCHANGED readopen
     \/ pc[p] = "pipeclose_read" /\ readopen' = FALSE /\ UNCHANGED writeopen
  /\ pfreed' = (IF readopen' \/ writeopen' THEN pfreed ELSE pfreed + 1)
  /\ Goto(p, "user")
  /\ UNCHANGED <<chan, killed, n, ring, rend, wend, plock>>

Pipeclose(p) ==
  /\ plock = Nobody
  /\ \/ pc[p] = "pipeclose_write" /\ writeopen' = FALSE /\ Wakeup("nread") /\ UNCHANGED readopen
     \/ pc[p] = "pipeclose_read" /\ readopen' = FALSE /\ Wakeup("nwrite") /\ UNCHANGED writeopen
  /\ pfreed' = (IF readopen' \/ writeopen' THEN pfreed ELSE pfreed + 1)
  /\ Goto(p, "user")
  /\ UNCHANGED <<killed, n, ring, rend, wend, plock>>

PipeStep(p) == Piperead(p) \/ PipereadSleep(p) \/ Pipewrite(p) \/ PipewriteSleep(p) \/ Pipeclose(p)

PipeNext ==
  \E p \in Proc :
    \/ PipeStep(p) \/ Fileclose(p) \/ (Kill(p) /\ UNCHANGED pipeVars)
    \/ \E q \in Proc : PipeFork(p, q)
    \/ \E k \in {1, PIPESIZE + 1} : PipereadCall(p, k) \/ PipewriteCall(p, k)

Reading(p) == pc[p] \in {"piperead", "piperead_sleep"}
Closing(p) == pc[p] \in {"pipeclose_read", "pipeclose_write"}
-----------------------------------------------------------------------------
(* Types; the counters of a pipe stay within their word. *)
PipeTypeOK ==
  /\ nread \in 0 .. PIPEWORD - 1 /\ nwrite \in 0 .. PIPEWORD - 1
  /\ readopen \in BOOLEAN /\ writeopen \in BOOLEAN /\ plock \in Proc \cup {Nobody}
  /\ rend \subseteq Proc /\ wend \subseteq Proc /\ stored \in Nat

(* The bytes that were read, followed by those in the ring from nread to    *)
(* nwrite, are the bytes stored, in order, although the counters wrap and   *)
(* several processes read and write.                                        *)
PipeFifo ==
  taken \o [i \in 1 .. Count |-> data[(nread + i - 1) % PIPESIZE]] = [i \in 1 .. stored |-> i]

(* The page of the pipe is freed once, after the last process has left      *)
(* piperead, pipewrite and the other pipeclose.                             *)
PipeFreedLast ==
  /\ pfreed <= 1
  /\ pfreed = 1 => \A p \in Proc : ~(Reading(p) \/ Writing(p) \/ Closing(p))

(* A reader that sleeps while the lock is free has nothing to read and a    *)
(* writer left, a writer a full pipe and a reader left: no wakeup is        *)
(* missing, unless pipewrite gave up because its process was killed.        *)
PipeNoMissedWakeup ==
  plock = Nobody => \A p \in Proc :
    /\ chan[p] = "nread" => writeopen /\ (Empty \/ \E q \in Proc : killed[q])
    /\ chan[p] = "nwrite" => readopen /\ Full

(* When the last writer is gone every reader returns, and when the last     *)
(* reader is gone every writer does: a pipeline ends.                       *)
Stuck(p) == (Reading(p) /\ ~writeopen) \/ (Writing(p) /\ ~readopen)
PipeEnds == \A p \in Proc : Stuck(p) ~> pc[p] = "user"

(* pipewrite, piperead and pipeclose keep the pipe: every byte in order,    *)
(* and the page until the last process has left.                            *)
PipeSound == PipeTypeOK /\ PipeFifo /\ PipeFreedLast
=============================================================================
