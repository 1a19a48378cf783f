-------------------------------- MODULE Inode --------------------------------
(***************************************************************************)
(* The inode cache, directories, path names and open files (fs.c, file.c,  *)
(* sysfile.c, fork and exit of proc.c): what concurrent system calls do to *)
(* references, links and inode locks.                                      *)
(*                                                                         *)
(* A section under one sleep-lock is one step.  A lock is kept in lock     *)
(* over the steps in which its holder waits for another one.  iput is two  *)
(* steps: the test that may free the inode, under its lock, and ref--.     *)
(* The cache is write-through, so an inode has one copy here; valid says   *)
(* whether the cache has read it.                                          *)
(***************************************************************************)
EXTENDS Integers, Sequences, FiniteSets, FiniteSetsExt

CONSTANTS
  InodeProc, InitProc,  \* the processes, and the one that runs from the start
  Inum,                 \* the inodes of the disk: 1 .. ninodes - 1
  File,                 \* the entries of ftable
  Programs,             \* the system calls that the processes make: functions from
                        \* processes to sets of records [op, path, arg]
  None

ASSUME InodeAssumption == 1 \in Inum /\ Inum \subseteq Nat \ {0} /\ InitProc \in InodeProc

VARIABLES
  type, nlink, dir,     \* inodes: "free" | "dir" | "file" | "dev", links, entries
  ref, valid, lock,     \* the cache
  file,                 \* struct file: [ref, ip]
  fd, cwd,              \* of each process: its open file, its current directory
  at, me, todo,         \* its place in a system call, its variables, what it puts back
  inop,                 \* the processes between begin_op and end_op
  calls,                \* one of Programs
  lost,                 \* history: inodes whose directory was freed around them
  panic                 \* history: the kernel panicked

disk == <<type, nlink, dir, lost>>
files == <<file, fd, cwd>>
inodeVars == <<disk, ref, valid, lock, files, at, me, todo, inop, calls, panic>>

ROOT == 1
Dots == {".", ".."}
NoCall == [op |-> "none", arg |-> <<>>, name |-> "", ip |-> 0, dp |-> 0,
           names |-> <<>>, parent |-> FALSE, then |-> ""]

(* mkfs, and userinit: namei("/") for the cwd of the first process. *)
InodeInit ==
  /\ type = [i \in Inum |-> IF i = ROOT THEN "dir" ELSE "free"]
  /\ nlink = [i \in Inum |-> IF i = ROOT THEN 1 ELSE 0]
  /\ dir = [i \in Inum |-> IF i = ROOT THEN [x \in Dots |-> ROOT] ELSE <<>>]
  /\ ref = [i \in Inum |-> IF i = ROOT THEN 1 ELSE 0]
  /\ valid = [i \in Inum |-> FALSE] /\ lock = [i \in Inum |-> None]
  /\ file = [f \in File |-> [ref |-> 0, ip |-> 0]]
  /\ fd = [p \in InodeProc |-> 0]
  /\ cwd = [p \in InodeProc |-> IF p = InitProc THEN ROOT ELSE 0]
  /\ at = [p \in InodeProc |-> IF p = InitProc THEN "user" ELSE "unborn"]
  /\ me = [p \in InodeProc |-> NoCall] /\ todo = [p \in InodeProc |-> <<>>]
  /\ inop = {} /\ lost = {} /\ panic = FALSE /\ calls \in Programs
-----------------------------------------------------------------------------
At(p, l) == at[p] = l /\ todo[p] = <<>> /\ ~panic
Jump(p, l) == at' = [at EXCEPT ![p] = l]
Then(p, ops) == todo' = [todo EXCEPT ![p] = ops]

(* What is left of the call is in todo: its variables are dead. *)
Leave(p) == Jump(p, "end_op") /\ me' = [me EXCEPT ![p] = NoCall]

(* iget, idup: a recycled entry of the cache is not valid. *)
Iget(i) ==
  /\ ref' = [ref EXCEPT ![i] = @ + 1]
  /\ valid' = [valid EXCEPT ![i] = @ /\ ref[i] > 0]

(* ilock, when nobody holds the lock: its panics, and valid. *)
CanLock(i) == lock[i] = None
Ilock(i) == CanLock(i) /\ panic' = (ref[i] < 1 \/ (~valid[i] /\ type[i] = "free"))
LockOnly(i) == Ilock(i) /\ valid' = [valid EXCEPT ![i] = TRUE] /\ UNCHANGED ref

(* ilock of j, and iget of i under that lock. *)
LockIget(j, i) ==
  /\ Ilock(j)
  /\ ref' = [ref EXCEPT ![i] = @ + 1]
  /\ valid' = [k \in Inum |-> k = j \/ (valid[k] /\ (k = i => ref[i] > 0))]

Iput(i) == << <<"put", i>>, <<"drop", i>> >>
Iunlockput(i) == << <<"unlock", i>> >> \o Iput(i)

(* A slip: iput frees an inode without links although others still refer to it. *)
PutFreeEager(i) ==
  LET dead == valid[i] /\ nlink[i] = 0
  IN /\ type' = IF dead THEN [type EXCEPT ![i] = "free"] ELSE type
     /\ dir' = IF dead THEN [dir EXCEPT ![i] = <<>>] ELSE dir
     /\ lost' = IF dead THEN lost \cup {dir[i][x] : x \in DOMAIN dir[i] \ Dots} ELSE lost
     /\ valid' = IF dead THEN [valid EXCEPT ![i] = FALSE] ELSE valid

(* iput up to releasesleep: itrunc and ip->type = 0 if nothing refers to i. *)
PutFree(i) ==
  LET dead == valid[i] /\ nlink[i] = 0 /\ ref[i] = 1
  IN /\ type' = IF dead THEN [type EXCEPT ![i] = "free"] ELSE type
     /\ dir' = IF dead THEN [dir EXCEPT ![i] = <<>>] ELSE dir
     /\ lost' = IF dead THEN lost \cup {dir[i][x] : x \in DOMAIN dir[i] \ Dots} ELSE lost
     /\ valid' = IF dead THEN [valid EXCEPT ![i] = FALSE] ELSE valid

Put(i) == CanLock(i) /\ PutFree(i) /\ UNCHANGED <<nlink, ref, lock, panic>>

Drop(i) == ref' = [ref EXCEPT ![i] = @ - 1] /\ UNCHANGED <<disk, valid, lock, panic>>

(* iunlock: holdingsleep and ref >= 1, or it panics. *)
Unlock(p, i) ==
  /\ lock' = [lock EXCEPT ![i] = None]
  /\ panic' = (lock[i] # p \/ ref[i] < 1)
  /\ UNCHANGED <<disk, ref, valid>>

Cleanup(p) ==
  /\ todo[p] # <<>> /\ ~panic
  /\ LET i == Head(todo[p])[2]
     IN \/ Head(todo[p])[1] = "put" /\ Put(i)
        \/ Head(todo[p])[1] = "drop" /\ Drop(i)
        \/ Head(todo[p])[1] = "unlock" /\ Unlock(p, i)
  /\ Then(p, Tail(todo[p]))
  /\ UNCHANGED <<files, at, me, inop>>

EndOp(p) ==
  /\ At(p, "end_op") /\ Jump(p, "user") /\ inop' = inop \ {p}
  /\ UNCHANGED <<disk, ref, valid, lock, files, me, todo, panic>>
-----------------------------------------------------------------------------
(* namex: namei (parent = FALSE) leaves its result in ip, nameiparent in    *)
(* dp; 0 when the path does not lead anywhere.                              *)
Absolute(path) == path # <<>> /\ Head(path) = "/"
Names(path) == IF Absolute(path) THEN Tail(path) ELSE path
Start(p, path) == IF Absolute(path) THEN ROOT ELSE cwd[p]

With(r, i) == IF r.parent THEN [r EXCEPT !.dp = i] ELSE [r EXCEPT !.ip = i]
Here(p) == IF me[p].parent THEN me[p].dp ELSE me[p].ip
Final(r) == r.parent /\ Len(r.names) = 1

Namex(p, r, path, parent, then) ==
  /\ Iget(Start(p, path)) /\ Jump(p, "namex")
  /\ me' = [me EXCEPT ![p] = With([r EXCEPT !.names = Names(path), !.parent = parent, !.then = then,
              !.name = IF parent /\ Names(path) # <<>> THEN path[Len(path)] ELSE ""], Start(p, path))]

(* namex returns i. *)
NamexReturn(p, i) ==
  /\ Jump(p, me[p].then)
  /\ me' = [me EXCEPT ![p] = [With(@, i) EXCEPT !.names = <<>>, !.parent = FALSE, !.then = ""]]

(* No more names: namei is done, nameiparent of a path without a name fails. *)
NamexDone(p, i) ==
  /\ me[p].names = <<>>
  /\ IF me[p].parent THEN Then(p, Iput(i)) /\ NamexReturn(p, 0) ELSE UNCHANGED todo /\ NamexReturn(p, i)
  /\ UNCHANGED <<ref, valid, panic>>

NamexFails(p, i) ==
  /\ me[p].names # <<>> /\ LockOnly(i)
  /\ type[i] # "dir" \/ (~Final(me[p]) /\ Head(me[p].names) \notin DOMAIN dir[i])
  /\ Then(p, Iput(i)) /\ NamexReturn(p, 0)

NamexParent(p, i) ==
  /\ Final(me[p]) /\ LockOnly(i) /\ type[i] = "dir"
  /\ NamexReturn(p, i) /\ UNCHANGED todo

NamexNext(p, i) ==
  /\ me[p].names # <<>> /\ ~Final(me[p])
  /\ type[i] = "dir" /\ Head(me[p].names) \in DOMAIN dir[i]
  /\ LET next == dir[i][Head(me[p].names)]
     IN LockIget(i, next) /\ me' = [me EXCEPT ![p] = [With(@, next) EXCEPT !.names = Tail(@)]]
  /\ Then(p, Iput(i)) /\ UNCHANGED at

NamexStep(p) ==
  /\ At(p, "namex")
  /\ LET i == Here(p) IN NamexDone(p, i) \/ NamexFails(p, i) \/ NamexParent(p, i) \/ NamexNext(p, i)
  /\ UNCHANGED <<disk, lock, files, inop>>
-----------------------------------------------------------------------------
(* The start of a system call: begin_op and the first namex. *)
Parent(op) == op \in {"create", "mkdir", "mknod", "unlink"}
Body(op) == IF op \in {"mkdir", "mknod"} THEN "create" ELSE op

Syscall(p, c) ==
  /\ At(p, "user") /\ inop' = inop \cup {p}
  /\ Namex(p, [NoCall EXCEPT !.op = c.op, !.arg = c.arg], c.path, Parent(c.op), Body(c.op))
  /\ UNCHANGED <<disk, lock, files, todo, panic>>

(* namei or nameiparent returned 0. *)
NotFound(p) ==
  /\ \/ (At(p, "open") \/ At(p, "exec") \/ At(p, "chdir") \/ At(p, "link")) /\ me[p].ip = 0
     \/ (At(p, "create") \/ At(p, "unlink")) /\ me[p].dp = 0
  /\ Leave(p) /\ UNCHANGED <<disk, ref, valid, lock, files, todo, inop, panic>>

(* The end of sys_open, with i locked: filealloc and fdalloc. *)
FreeFiles == {f \in File : file[f].ref = 0}
OpenFile(p, i) ==
  \/ /\ fd[p] = 0 /\ \E f \in FreeFiles : /\ file' = [file EXCEPT ![f] = [ref |-> 1, ip |-> i]]
                                         /\ fd' = [fd EXCEPT ![p] = f]
     /\ UNCHANGED todo
  \/ /\ fd[p] # 0 \/ FreeFiles = {}
     /\ Then(p, Iput(i)) /\ UNCHANGED <<file, fd>>
PutBack(p, i) == Then(p, Iput(i)) /\ UNCHANGED <<file, fd>>

(* sys_open without O_CREATE: a directory is not opened for writing. *)
SysOpen(p) ==
  LET i == me[p].ip
  IN /\ At(p, "open") /\ i # 0 /\ LockOnly(i) /\ Leave(p)
     /\ IF type[i] = "dir" /\ me[p].arg # "O_RDONLY" THEN PutBack(p, i) ELSE OpenFile(p, i)
     /\ UNCHANGED <<disk, lock, cwd, inop>>

(* exec: the image is read with ip locked, and ip is put back. *)
SysExec(p) ==
  /\ At(p, "exec") /\ me[p].ip # 0 /\ LockOnly(me[p].ip)
  /\ Then(p, Iput(me[p].ip)) /\ Leave(p)
  /\ UNCHANGED <<disk, lock, files, inop>>

(* sys_chdir: curproc->cwd is set after the old one is put back. *)
SysChdir(p) ==
  LET i == me[p].ip
  IN /\ At(p, "chdir") /\ i # 0 /\ LockOnly(i)
     /\ \/ type[i] = "dir" /\ Then(p, Iput(cwd[p])) /\ Jump(p, "chdir_set") /\ UNCHANGED me
        \/ type[i] # "dir" /\ Then(p, Iput(i)) /\ Leave(p)
     /\ UNCHANGED <<disk, lock, files, inop>>

ChdirSet(p) ==
  /\ At(p, "chdir_set") /\ cwd' = [cwd EXCEPT ![p] = me[p].ip] /\ Leave(p)
  /\ UNCHANGED <<disk, ref, valid, lock, file, fd, todo, inop, panic>>
-----------------------------------------------------------------------------
NewType(op) == CASE op = "create" -> "file" [] op = "mkdir" -> "dir" [] op = "mknod" -> "dev"
AddEntry(d, x, i) == [y \in DOMAIN dir[d] \cup {x} |-> IF y = x THEN i ELSE dir[d][y]]
HasIp(p, i) == me' = [me EXCEPT ![p].ip = i, ![p].dp = 0, ![p].name = ""]

(* create finds the name. *)
CreateOld(p, d, x) ==
  /\ x \in DOMAIN dir[d]
  /\ LockIget(d, dir[d][x]) /\ HasIp(p, dir[d][x])
  /\ Then(p, Iput(d)) /\ Jump(p, "create_old")
  /\ UNCHANGED <<disk, lock>>

(* ialloc takes the first free inode (and panics when there is none: the    *)
(* bound Inum).  dp is put back with the new inode still locked.            *)
CreateNew(p, d, x) ==
  /\ x \notin DOMAIN dir[d] /\ Ilock(d)
  /\ \E i \in Inum :
       /\ type[i] = "free" /\ CanLock(i) /\ \A j \in Inum : type[j] = "free" => i <= j
       /\ LET t == NewType(me[p].op)
          IN /\ type' = [type EXCEPT ![i] = t]
             /\ nlink' = [nlink EXCEPT ![i] = 1, ![d] = IF t = "dir" THEN @ + 1 ELSE @]
             /\ dir' = [dir EXCEPT ![d] = AddEntry(d, x, i),
                          ![i] = IF t = "dir" THEN [y \in Dots |-> IF y = "." THEN i ELSE d] ELSE <<>>]
       /\ ref' = [ref EXCEPT ![i] = @ + 1] /\ valid' = [valid EXCEPT ![i] = TRUE, ![d] = TRUE]
       /\ lock' = [lock EXCEPT ![i] = p] /\ HasIp(p, i)
  /\ Then(p, Iput(d)) /\ Jump(p, "create_new") /\ UNCHANGED lost

Create(p) ==
  /\ At(p, "create") /\ me[p].dp # 0
  /\ CreateOld(p, me[p].dp, me[p].name) \/ CreateNew(p, me[p].dp, me[p].name)
  /\ UNCHANGED <<files, inop>>

(* An existing file is opened by open(O_CREATE); all else fails. *)
CreateReturnsOld(p) ==
  LET i == me[p].ip
  IN /\ At(p, "create_old") /\ LockOnly(i) /\ Leave(p)
     /\ IF me[p].op = "create" /\ type[i] = "file" THEN OpenFile(p, i) ELSE PutBack(p, i)
     /\ UNCHANGED <<disk, lock, cwd, inop>>

(* sys_open goes on with the new file; sys_mkdir and sys_mknod put it back. *)
CreateReturnsNew(p) ==
  LET i == me[p].ip
  IN /\ At(p, "create_new") /\ lock' = [lock EXCEPT ![i] = None] /\ Leave(p)
     /\ IF me[p].op = "create" THEN OpenFile(p, i) ELSE PutBack(p, i)
     /\ UNCHANGED <<disk, ref, valid, cwd, inop, panic>>
-----------------------------------------------------------------------------

(* sys_link: nlink++ before the entry is made, and nlink-- if it is not. *)
SysLink(p) ==
  LET i == me[p].ip
  IN /\ At(p, "link") /\ i # 0 /\ LockOnly(i)
     /\ \/ type[i] = "dir" /\ Then(p, Iput(i)) /\ Leave(p) /\ UNCHANGED nlink
        \/ /\ type[i] # "dir" /\ nlink' = [nlink EXCEPT ![i] = @ + 1]
           /\ Jump(p, "link_new") /\ UNCHANGED <<todo, me>>
     /\ UNCHANGED <<type, dir, lost, lock, files, inop>>

LinkNew(p) ==
  /\ At(p, "link_new") /\ Namex(p, [me[p] EXCEPT !.arg = <<>>], me[p].arg, TRUE, "dirlink")
  /\ UNCHANGED <<disk, lock, files, todo, inop, panic>>

LinkNoParent(p) ==
  /\ At(p, "dirlink") /\ me[p].dp = 0 /\ Jump(p, "link_bad")
  /\ UNCHANGED <<disk, ref, valid, lock, files, me, todo, inop, panic>>

(* dirlink finds the name taken: it puts that inode back with dp locked. *)
LinkTaken(p, d, x) ==
  /\ x \in DOMAIN dir[d]
  /\ LockIget(d, dir[d][x]) /\ lock' = [lock EXCEPT ![d] = p]
  /\ Then(p, Iput(dir[d][x]) \o Iunlockput(d)) /\ Jump(p, "link_bad") /\ HasIp(p, me[p].ip)
  /\ UNCHANGED dir

LinkMade(p, d, x) ==
  /\ x \notin DOMAIN dir[d] /\ LockOnly(d)
  /\ dir' = [dir EXCEPT ![d] = AddEntry(d, x, me[p].ip)]
  /\ Then(p, Iput(d) \o Iput(me[p].ip)) /\ Leave(p) /\ UNCHANGED lock

Dirlink(p) ==
  /\ At(p, "dirlink") /\ me[p].dp # 0
  /\ LinkTaken(p, me[p].dp, me[p].name) \/ LinkMade(p, me[p].dp, me[p].name)
  /\ UNCHANGED <<type, nlink, lost, files, inop>>

LinkBad(p) ==
  LET i == me[p].ip
  IN /\ At(p, "link_bad") /\ LockOnly(i)
     /\ nlink' = [nlink EXCEPT ![i] = @ - 1] /\ Then(p, Iput(i)) /\ Leave(p)
     /\ UNCHANGED <<type, dir, lost, lock, files, inop>>
-----------------------------------------------------------------------------
(* sys_unlink: dp stays locked while ip is waited for. *)
UnlinkNothing(p, d, x) ==
  /\ x \notin DOMAIN dir[d] \ Dots
  /\ LockOnly(d) /\ Then(p, Iput(d)) /\ Leave(p) /\ UNCHANGED lock

UnlinkFound(p, d, x) ==
  /\ x \in DOMAIN dir[d] \ Dots
  /\ LockIget(d, dir[d][x]) /\ lock' = [lock EXCEPT ![d] = p]
  /\ me' = [me EXCEPT ![p].ip = dir[d][x]] /\ Jump(p, "unlink_ip") /\ UNCHANGED todo

SysUnlink(p) ==
  /\ At(p, "unlink") /\ me[p].dp # 0
  /\ UnlinkNothing(p, me[p].dp, me[p].name) \/ UnlinkFound(p, me[p].dp, me[p].name)
  /\ UNCHANGED <<disk, files, inop>>

Isdirempty(i) == DOMAIN dir[i] \subseteq Dots
FullDir(i) == type[i] = "dir" /\ ~Isdirempty(i)

UnlinkNotEmpty(p, d, i) ==
  /\ FullDir(i)
  /\ Then(p, Iput(i) \o Iunlockput(d)) /\ Leave(p) /\ UNCHANGED <<nlink, dir, lock>>

(* The entry is erased, and dp put back with ip still locked. *)
UnlinkErase(p, d, i) ==
  /\ ~FullDir(i)
  /\ dir' = [dir EXCEPT ![d] = [x \in DOMAIN @ \ {me[p].name} |-> @[x]]]
  /\ nlink' = IF type[i] = "dir" THEN [nlink EXCEPT ![d] = @ - 1] ELSE nlink
  /\ lock' = [lock EXCEPT ![d] = None, ![i] = p]
  /\ Then(p, Iput(d)) /\ Jump(p, "unlink_nlink") /\ HasIp(p, i)

UnlinkIp(p) ==
  LET i == me[p].ip
  IN /\ At(p, "unlink_ip") /\ CanLock(i)
     /\ valid' = [valid EXCEPT ![i] = TRUE]
     /\ panic' = (nlink[i] < 1 \/ (~valid[i] /\ type[i] = "free"))
     /\ UnlinkNotEmpty(p, me[p].dp, i) \/ UnlinkErase(p, me[p].dp, i)
     /\ UNCHANGED <<type, lost, ref, files, inop>>

UnlinkNlink(p) ==
  LET i == me[p].ip
  IN /\ At(p, "unlink_nlink")
     /\ nlink' = [nlink EXCEPT ![i] = @ - 1] /\ lock' = [lock EXCEPT ![i] = None]
     /\ Then(p, Iput(i)) /\ Leave(p)
     /\ UNCHANGED <<type, dir, lost, ref, valid, files, inop, panic>>
-----------------------------------------------------------------------------
(* fileclose: the last close puts the inode back in a transaction. *)
Fileclose(p) ==
  LET f == fd[p]
  IN /\ fd' = [fd EXCEPT ![p] = 0]
     /\ IF file[f].ref = 1
        THEN /\ file' = [file EXCEPT ![f] = [ref |-> 0, ip |-> 0]]
             /\ Then(p, Iput(file[f].ip)) /\ inop' = inop \cup {p}
        ELSE file' = [file EXCEPT ![f].ref = @ - 1] /\ UNCHANGED <<todo, inop>>

SysClose(p) ==
  /\ At(p, "user") /\ fd[p] # 0 /\ Fileclose(p) /\ Jump(p, "end_op")
  /\ UNCHANGED <<disk, ref, valid, lock, cwd, me, panic>>

(* fork: filedup and idup of what the parent has. *)
Fork(p, q) ==
  /\ At(p, "user") /\ at[q] = "unborn" /\ Jump(q, "user")
  /\ fd' = [fd EXCEPT ![q] = fd[p]] /\ cwd' = [cwd EXCEPT ![q] = cwd[p]]
  /\ file' = IF fd[p] = 0 THEN file ELSE [file EXCEPT ![fd[p]].ref = @ + 1]
  /\ Iget(cwd[p])
  /\ UNCHANGED <<disk, lock, me, todo, inop, panic>>

Exit(p) ==
  /\ p # InitProc /\ At(p, "user") /\ Jump(p, "exit")
  /\ IF fd[p] # 0 THEN Fileclose(p) ELSE UNCHANGED <<file, fd, todo, inop>>
  /\ UNCHANGED <<disk, ref, valid, lock, cwd, me, panic>>

(* The cwd is put back in a transaction of its own. *)
ExitCwd(p) ==
  /\ At(p, "exit") /\ inop' = inop \cup {p}
  /\ Then(p, Iput(cwd[p])) /\ Jump(p, "exited") /\ cwd' = [cwd EXCEPT ![p] = 0]
  /\ UNCHANGED <<disk, ref, valid, lock, file, fd, me, panic>>

Exited(p) ==
  /\ At(p, "exited") /\ inop' = inop \ {p} /\ Jump(p, "unborn")
  /\ UNCHANGED <<disk, ref, valid, lock, files, me, todo, panic>>

InodeStep(p) ==
  \/ Cleanup(p) \/ EndOp(p) \/ NamexStep(p) \/ NotFound(p)
  \/ SysOpen(p) \/ SysExec(p) \/ SysChdir(p) \/ ChdirSet(p)
  \/ Create(p) \/ CreateReturnsOld(p) \/ CreateReturnsNew(p)
  \/ SysLink(p) \/ LinkNew(p) \/ LinkNoParent(p) \/ Dirlink(p) \/ LinkBad(p)
  \/ SysUnlink(p) \/ UnlinkIp(p) \/ UnlinkNlink(p)
  \/ ExitCwd(p) \/ Exited(p)

InodeNext ==
  /\ \E p \in InodeProc : \/ InodeStep(p) \/ SysClose(p) \/ Exit(p)
                           \/ \E c \in calls[p] : Syscall(p, c)
                           \/ \E q \in InodeProc : Fork(p, q)
  /\ UNCHANGED calls

InodeSpec == InodeInit /\ [][InodeNext]_inodeVars
-----------------------------------------------------------------------------
(* Types; the two counts of an inode never go below zero. *)
InodeTypeOK ==
  /\ type \in [Inum -> {"free", "dir", "file", "dev"}] /\ nlink \in [Inum -> Nat]
  /\ ref \in [Inum -> Nat] /\ valid \in [Inum -> BOOLEAN] /\ lock \in [Inum -> InodeProc \cup {None}]
  /\ fd \in [InodeProc -> File \cup {0}] /\ cwd \in [InodeProc -> Inum \cup {0}]
  /\ inop \subseteq InodeProc /\ lost \subseteq Inum

Quiet == \A p \in InodeProc : at[p] \in {"user", "unborn"} /\ todo[p] = <<>>

(* ref counts the in-memory pointers to an inode: never fewer than the open *)
(* files and current directories, and exactly those when no system call is  *)
(* running (fs.c: "ip->ref tracks the number of in-memory pointers").       *)
Holders(i) == Cardinality({f \in File : file[f].ref > 0 /\ file[f].ip = i})
            + Cardinality({p \in InodeProc : at[p] = "user" /\ cwd[p] = i})
RefBalanced == \A i \in Inum : ref[i] >= Holders(i) /\ (Quiet => ref[i] = Holders(i))

(* Open files and the current directories of processes in user space are    *)
(* allocated inodes: iput never frees what somebody can still reach.        *)
InUseAllocated ==
  /\ \A f \in File : file[f].ref > 0 => type[file[f].ip] # "free"
  /\ \A p \in InodeProc : at[p] = "user" => type[cwd[p]] = "dir"

(* nlink never falls below the number of entries that name an inode (with   *)
(* ".." of the directories in it), and equals it when no system call is     *)
(* running, unless the directory of an entry was freed around it: link,     *)
(* unlink, create and their error paths agree.                              *)
Naming(d, i) == {x \in DOMAIN dir[d] \ Dots : dir[d][x] = i}
Children(i) == {c \in Inum \ {ROOT} : /\ ".." \in DOMAIN dir[c] /\ dir[c][".."] = i
                                     /\ \E d \in Inum : Naming(d, c) # {}}
Links(i) == MapThenSumSet(LAMBDA d : Cardinality(Naming(d, i)), Inum)
            + Cardinality(Children(i)) + (IF i = ROOT THEN 1 ELSE 0)
LinksCounted ==
  \A i \in Inum : type[i] # "free" =>
    nlink[i] >= Links(i) /\ (Quiet /\ i \notin lost => nlink[i] = Links(i))

(* A directory entry never names a free inode, so a lookup never ends in    *)
(* ilock's panic "no type", and no other panic of this code is reached.     *)
NoDanglingEntry == ~panic /\ \A d \in Inum : \A x \in DOMAIN dir[d] : type[dir[d][x]] # "free"

(* iput may free an inode, so it is only called inside a transaction        *)
(* (fs.c:329); usertests' iputtest asks this of chdir, exit and open.       *)
PutInTransaction == \A p \in InodeProc : todo[p] # <<>> => p \in inop

(* fs.c:118 "iput() frees if the reference and link counts have fallen to   *)
(* zero": no inode stays allocated with neither.                            *)
NoneForgotten == \A i \in Inum : type[i] # "free" => ref[i] > 0 \/ nlink[i] > 0

(* Concurrent link, unlink and create do not wait for each other's inode    *)
(* locks in a circle: what usertests' linkunlink looks for.                 *)
WaitsFor(p) ==
  CASE todo[p] # <<>> -> IF Head(todo[p])[1] = "put" THEN {Head(todo[p])[2]} ELSE {}
    [] todo[p] = <<>> /\ at[p] \in {"unlink_ip", "create_old", "link_bad", "open", "exec", "chdir", "link"}
       -> {me[p].ip}
    [] OTHER -> {}
NoWaitCircle ==
  \A S \in SUBSET InodeProc \ {{}} :
    ~ \A p \in S : \E i \in WaitsFor(p) \ {0} : lock[i] \in S

(* The references to inodes: counted, to allocated inodes, and given back   *)
(* by iput in a transaction.                                                *)
ReferencesSound == InodeTypeOK /\ RefBalanced /\ InUseAllocated /\ PutInTransaction

=============================================================================
