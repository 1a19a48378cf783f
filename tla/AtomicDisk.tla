----------------------------- MODULE AtomicDisk -----------------------------
(***************************************************************************)
(* What the file system's log (log.c) promises: the blocks that survive a  *)
(* crash are those of a moment when no file system operation was running.  *)
(* An operation's writes become durable all together or not at all.        *)
(***************************************************************************)
CONSTANTS Block, Data, Proc

VARIABLES
  stable,   \* the blocks as they are found after a crash
  current,  \* the blocks as the operations see them
  active    \* the processes inside an operation

vars == <<stable, current, active>>

Init ==
  /\ stable \in [Block -> Data]
  /\ current = stable
  /\ active = {}

Begin(p) ==
  /\ active' = active \cup {p}
  /\ UNCHANGED <<stable, current>>

Write(p, b, v) ==
  /\ p \in active
  /\ current' = [current EXCEPT ![b] = v]
  /\ UNCHANGED <<stable, active>>

End(p) ==
  /\ active' = active \ {p}
  /\ UNCHANGED <<stable, current>>

Commit ==
  /\ active = {}
  /\ stable' = current
  /\ UNCHANGED <<current, active>>

Crash ==
  /\ current' = stable
  /\ active' = {}
  /\ UNCHANGED stable

Next ==
  \/ \E p \in Proc : Begin(p) \/ End(p) \/ \E b \in Block, v \in Data : Write(p, b, v)
  \/ Commit
  \/ Crash

Spec == Init /\ [][Next]_vars
=============================================================================
