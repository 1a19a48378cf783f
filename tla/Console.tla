------------------------------- MODULE Console -------------------------------
(***************************************************************************)
(* The console (console.c): the line editor that the keyboard and serial   *)
(* interrupts drive, the readers and writers of the console inode, and the *)
(* cursor of the screen.  What is done under cons.lock is one step, except *)
(* that a reader keeps the lock between its test of killed and sleep.      *)
(***************************************************************************)
EXTENDS Blocking

CONSTANTS
  INPUT_BUF,
  INPUTWORD,    \* r, w and e are counted modulo this, 2^32 in the code
  Letter,       \* characters without a meaning to the editor
  COLS, ROWS    \* the screen: 80 and 25

ASSUME ConsoleAssumption ==
  /\ INPUT_BUF \in Nat \ {0} /\ INPUTWORD \in Nat
  /\ INPUTWORD % INPUT_BUF = 0 /\ INPUTWORD > INPUT_BUF
  /\ COLS \in Nat \ {0} /\ ROWS \in Nat /\ ROWS > 1

Char == Letter \cup {"\n", "^D"}     \* what the buffer can hold

VARIABLES
  buf, r, w, e,   \* input
  clock,          \* cons.lock: the process that holds it, or Nobody
  ilk,            \* the sleep-lock of the console inode
  target,         \* the target of consoleread
  pos,            \* the cursor, in the registers of the CGA
  lines           \* history: the characters committed and not yet read

consVars == <<buf, r, w, e, clock, ilk, target, pos, lines>>
editor == <<buf, r, w, e, lines>>

ConsoleInit ==
  /\ buf = [i \in 0 .. INPUT_BUF - 1 |-> "\n"] /\ r = 0 /\ w = 0 /\ e = 0
  /\ clock = Nobody /\ ilk = Nobody /\ target = [p \in Proc |-> 0]
  /\ pos \in {0, (ROWS - 1) * COLS - 1} /\ lines = <<>>

Word(x) == x % INPUTWORD
At(x) == buf[x % INPUT_BUF]
Between(x, y) == [i \in 1 .. Word(y - x) |-> At(x + i - 1)]

(* cgaputc on position x: newline, backspace or a character, then scroll.   *)
Cgaputc(x, c) ==
  LET moved == CASE c = "\n" -> x + COLS - (x % COLS)
                 [] c = "BACKSPACE" -> IF x > 0 THEN x - 1 ELSE x
                 [] OTHER -> x + 1
  IN IF moved \div COLS >= ROWS - 1 THEN moved - COLS ELSE moved

Erased(x, k) == IF x > k THEN x - k ELSE 0    \* k times BACKSPACE
-----------------------------------------------------------------------------
(* consoleintr, one character: ^U *)
KillLine ==
  LET stop == {k \in 0 .. Word(e - w) : k = Word(e - w) \/ At(Word(e - k - 1)) = "\n"}
  IN \E k \in stop : /\ \A j \in stop : k <= j
                     /\ e' = Word(e - k) /\ pos' = Erased(pos, k) /\ UNCHANGED <<buf, w, lines>>

(* A slip: a committed character can be erased. *)
BackspaceAny ==
  /\ e # r
  /\ e' = Word(e - 1) /\ pos' = Cgaputc(pos, "BACKSPACE") /\ UNCHANGED <<buf, w, lines>>

Backspace ==
  /\ e # w
  /\ e' = Word(e - 1) /\ pos' = Cgaputc(pos, "BACKSPACE") /\ UNCHANGED <<buf, w, lines>>

(* A character goes into the buffer when there is room; a newline, ^D or a  *)
(* full buffer commits the line and wakes the readers.                      *)
Commits(c) == c \in {"\n", "^D"} \/ e' = Word(r + INPUT_BUF)

Insert(c) ==
  /\ Word(e - r) < INPUT_BUF
  /\ buf' = [buf EXCEPT ![e % INPUT_BUF] = c] /\ e' = Word(e + 1)
  /\ pos' = Cgaputc(pos, c)
  /\ IF Commits(c) THEN w' = e' /\ lines' = lines \o Append(Between(w, e), c) ELSE UNCHANGED <<w, lines>>

Consoleintr ==
  /\ clock = Nobody
  /\ \/ (KillLine \/ Backspace) /\ UNCHANGED chan
     \/ \E c \in Char : Insert(c) /\ IF Commits(c) THEN Wakeup("input.r") ELSE UNCHANGED chan
  /\ UNCHANGED <<pc, killed, n, r, clock, ilk, target>>
-----------------------------------------------------------------------------
(* fileread and filewrite take the lock of the inode; consoleread and       *)
(* consolewrite give it up and take it again before they return.            *)
ConsoleCall(p, l, k) ==
  /\ User(p) /\ l \in {"read", "write"}
  /\ Goto(p, l) /\ n' = [n EXCEPT ![p] = k] /\ target' = [target EXCEPT ![p] = k]
  /\ UNCHANGED <<chan, killed, editor, clock, ilk, pos>>

Ilock(p) ==
  /\ pc[p] \in {"read", "write", "return"} /\ ilk = Nobody
  /\ ilk' = p
  /\ Goto(p, CASE pc[p] = "read" -> "read_locked" [] pc[p] = "write" -> "write_locked" [] OTHER -> "iunlock")
  /\ UNCHANGED <<chan, killed, n, editor, clock, target, pos>>

Iunlock(p) ==
  /\ pc[p] \in {"read_locked", "write_locked", "iunlock"}
  /\ ilk' = Nobody
  /\ IF pc[p] = "iunlock"
     THEN Goto(p, "user") /\ n' = [n EXCEPT ![p] = 0] /\ target' = [target EXCEPT ![p] = 0]
     ELSE Goto(p, IF pc[p] = "read_locked" THEN "consoleread" ELSE "consolewrite") /\ UNCHANGED <<n, target>>
  /\ UNCHANGED <<chan, killed, editor, clock, pos>>

(* One turn of the loop of consoleread; c is the character at input.r. *)
ConsolereadChar(p) ==
  LET c == At(r)
  IN /\ r # w /\ n[p] > 0
     /\ IF c = "^D" /\ n[p] < target[p] THEN UNCHANGED <<r, lines>>
                                        ELSE r' = Word(r + 1) /\ lines' = Tail(lines)
     /\ n' = (IF c = "^D" THEN n ELSE [n EXCEPT ![p] = @ - 1])
     /\ IF c \in {"\n", "^D"} \/ n'[p] = 0 THEN Goto(p, "return") /\ clock' = Nobody
                                           ELSE clock' = p /\ UNCHANGED pc

ConsolereadWait(p) ==
  /\ r = w /\ n[p] > 0
  /\ IF killed[p] THEN Goto(p, "return") /\ clock' = Nobody
                  ELSE Goto(p, "consoleread_sleep") /\ clock' = p
  /\ UNCHANGED <<r, n, lines>>

Consoleread(p) ==
  /\ Running(p, "consoleread") /\ clock \in {Nobody, p}
  /\ ConsolereadChar(p) \/ ConsolereadWait(p)
  /\ UNCHANGED <<chan, killed, buf, w, e, ilk, target, pos>>

ConsolereadSleep(p) ==
  /\ pc[p] = "consoleread_sleep"
  /\ SleepOn(p, "input.r") /\ clock' = Nobody /\ Goto(p, "consoleread")
  /\ UNCHANGED <<killed, n, editor, ilk, target, pos>>

(* consolewrite: its characters are letters and perhaps a newline at the end. *)
Consolewrite(p) ==
  /\ pc[p] = "consolewrite" /\ clock = Nobody
  /\ \E c \in {"\n", "x"} : pos' = Cgaputc(IF n[p] = 2 THEN Cgaputc(pos, "x") ELSE pos, c)
  /\ Goto(p, "return")
  /\ UNCHANGED <<chan, killed, n, editor, clock, ilk, target>>

ConsoleStep(p) ==
  Ilock(p) \/ Iunlock(p) \/ Consoleread(p) \/ ConsolereadSleep(p) \/ Consolewrite(p)

ConsoleNext ==
  \/ Consoleintr
  \/ \E p \in Proc :
       \/ ConsoleStep(p) \/ (Kill(p) /\ UNCHANGED consVars)
       \/ \E k \in 1 .. 2, l \in {"read", "write"} : ConsoleCall(p, l, k)
-----------------------------------------------------------------------------
(* Types; the indices of the input buffer stay within their word. *)
ConsoleTypeOK ==
  /\ buf \in [0 .. INPUT_BUF - 1 -> Char] /\ {r, w, e} \subseteq 0 .. INPUTWORD - 1
  /\ {clock, ilk} \subseteq Proc \cup {Nobody}

(* What the next reads will find from r to w is what was committed and not  *)
(* yet read, in order: editing never touches a committed line, and a ^D     *)
(* that is put back is read again.                                          *)
LinesInOrder == Between(r, w) = lines

(* r, w and e follow each other around the ring, and a full ring is         *)
(* committed: otherwise nobody could read and nothing more could be typed.  *)
EditorInBounds ==
  /\ Word(w - r) <= Word(e - r) /\ Word(e - r) <= INPUT_BUF
  /\ Word(e - r) = INPUT_BUF => w = e

(* cgaputc keeps the cursor on the screen, above the last row, which makes  *)
(* its panic unreachable.                                                   *)
CursorOnScreen == pos \in 0 .. (ROWS - 1) * COLS - 1

(* A reader that sleeps has nothing to read.                                *)
ReaderNotForgotten == \A p \in Proc : chan[p] = "input.r" => r = w

(* Whoever has the lock of the inode is on the way in or out of a call and  *)
(* can go on: a process that waits for input does not keep the others from  *)
(* writing to the console.                                                  *)
InodeLockIsBrief == ilk # Nobody => pc[ilk] \in {"read_locked", "write_locked", "iunlock"}

(* The console keeps what was typed, for readers and writers that share its *)
(* inode: lines in order, indices and cursor in bounds, the lock available. *)
ConsoleSound == ConsoleTypeOK /\ LinesInOrder /\ EditorInBounds /\ CursorOnScreen /\ InodeLockIsBrief
=============================================================================
