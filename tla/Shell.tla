-------------------------------- MODULE Shell --------------------------------
(***************************************************************************)
(* The parser of the shell (sh.c): parseline, parsepipe, parseredirs,      *)
(* parseblock and parseexec by recursive descent, and the grammar that     *)
(* they are to recognise.                                                  *)
(*                                                                         *)
(* Input is a sequence of tokens <<kind, place>>: what gettoken returns,   *)
(* "a" for a word and "+" for >>, and where it stands, which tells the     *)
(* words apart.  A parser returns the command and the tokens left.         *)
(***************************************************************************)
EXTENDS Integers, SequencesExt

CONSTANTS MAXARGS, MAXTOKENS

ASSUME ShellAssumption == MAXARGS \in Nat \ {0} /\ MAXTOKENS \in Nat

VARIABLE line      \* the kinds of the tokens of a line

Kinds == {"a", "<", ">", "+", "|", "&", ";", "(", ")"}

(* Every line, token by token, and then the next line. *)
ShellInit == line = <<>>
ShellNext == line' = <<>> \/ (Len(line) < MAXTOKENS /\ \E k \in Kinds : line' = Append(line, k))

Panic == <<"PANIC">>
execcmd(argv) == <<"EXEC", argv>>
redircmd(c, file, tok) == <<"REDIR", c, file, IF tok = "<" THEN 0 ELSE 1>>
pipecmd(l, r) == <<"PIPE", l, r>>
listcmd(l, r) == <<"LIST", l, r>>
backcmd(c) == <<"BACK", c>>

Result(c, ts) == [cmd |-> c, ts |-> ts]
Stop == Result(Panic, <<>>)          \* panic exits: nothing is parsed any more
Stopped(x) == x.cmd = Panic
peek(ts, toks) == ts # <<>> /\ ts[1][1] \in toks

(* parseredirs: the redirections at the head of ts, which wrap a command;   *)
(* execcmd fills argv while they do, so they are wrapped at the end.        *)
RECURSIVE TakeRedirs(_, _)
TakeRedirs(rs, ts) ==
  IF ~peek(ts, {"<", ">", "+"}) THEN [ok |-> TRUE, rs |-> rs, ts |-> ts]
  ELSE IF ~peek(Tail(ts), {"a"}) THEN [ok |-> FALSE, rs |-> rs, ts |-> ts]
  ELSE TakeRedirs(Append(rs, <<ts[2][2], ts[1][1]>>), Tail(Tail(ts)))

Wrap(c, rs) == FoldLeft(LAMBDA d, r : redircmd(d, r[1], r[2]), c, rs)
parseredirs(c, ts) ==
  LET r == TakeRedirs(<<>>, ts) IN IF r.ok THEN Result(Wrap(c, r.rs), r.ts) ELSE Stop

RECURSIVE parseargs(_, _, _)
parseargs(argv, rs, ts) ==
  LET r == TakeRedirs(rs, ts)
  IN IF ~r.ok THEN Stop
     ELSE IF r.ts = <<>> \/ peek(r.ts, {"|", ")", "&", ";"}) THEN Result(Wrap(execcmd(argv), r.rs), r.ts)
     ELSE IF ~peek(r.ts, {"a"}) \/ Len(argv) + 1 >= MAXARGS THEN Stop
     ELSE parseargs(Append(argv, r.ts[1][2]), r.rs, Tail(r.ts))

RECURSIVE parseline(_), parsepipe(_), parseblock(_), parsebacks(_)
parseexec(ts) == IF peek(ts, {"("}) THEN parseblock(ts) ELSE parseargs(<<>>, <<>>, ts)

parseblock(ts) ==
  LET x == parseline(Tail(ts))
  IN IF Stopped(x) \/ ~peek(x.ts, {")"}) THEN Stop ELSE parseredirs(x.cmd, Tail(x.ts))

parsepipe(ts) ==
  LET x == parseexec(ts)
      y == parsepipe(Tail(x.ts))
  IN IF Stopped(x) \/ ~peek(x.ts, {"|"}) THEN x
     ELSE IF Stopped(y) THEN Stop ELSE Result(pipecmd(x.cmd, y.cmd), y.ts)

(* A slip: "if" for "while" in parseline. *)
parsebackOnce(x) == IF peek(x.ts, {"&"}) THEN Result(backcmd(x.cmd), Tail(x.ts)) ELSE x

parsebacks(x) == IF peek(x.ts, {"&"}) THEN parsebacks(Result(backcmd(x.cmd), Tail(x.ts))) ELSE x

parseline(ts) ==
  LET x == parsepipe(ts)
      b == parsebacks(x)
      y == parseline(Tail(b.ts))
  IN IF Stopped(x) \/ ~peek(b.ts, {";"}) THEN b
     ELSE IF Stopped(y) THEN Stop ELSE Result(listcmd(b.cmd, y.cmd), y.ts)

parsecmd(ts) == LET x == parseline(ts) IN IF x.ts # <<>> THEN Panic ELSE x.cmd
-----------------------------------------------------------------------------
(* The grammar, by splitting a line at the operators outside parentheses:   *)
(*   line = pipe &* [; line]   pipe = exec [| pipe]                         *)
(*   exec = ( line ) redir*  or fewer than MAXARGS words among redir*       *)
Depth(ts, k) == Cardinality({j \in 1 .. k : ts[j][1] = "("}) - Cardinality({j \in 1 .. k : ts[j][1] = ")"})
Outer(ts, kind) == {k \in DOMAIN ts : ts[k][1] = kind /\ Depth(ts, k) = 0}
Before(ts, k) == SubSeq(ts, 1, k - 1)
After(ts, k) == SubSeq(ts, k + 1, Len(ts))
Both(x, y, c) == IF Panic \in {x, y} THEN Panic ELSE c

Redirected(c, ts) == LET r == parseredirs(c, ts) IN IF r.ts = <<>> THEN r.cmd ELSE Panic
Redirs(ts) == {k \in DOMAIN ts : ts[k][1] \in {"<", ">", "+"}}
Files(ts) == {k \in DOMAIN ts : k - 1 \in Redirs(ts)}
Pick(ts, S) == LET at == SetToSortSeq(S, <) IN [k \in DOMAIN at |-> ts[at[k]]]

GrammarWords(ts) ==
  LET words == Pick(ts, DOMAIN ts \ (Redirs(ts) \cup Files(ts)))
  IN IF /\ \A k \in DOMAIN words : words[k][1] = "a"
        /\ Len(words) < MAXARGS
     THEN Redirected(execcmd([k \in DOMAIN words |-> words[k][2]]), Pick(ts, Redirs(ts) \cup Files(ts)))
     ELSE Panic

RECURSIVE GrammarLine(_), GrammarPipe(_), GrammarBack(_)
GrammarExec(ts) ==
  IF ~peek(ts, {"("}) THEN GrammarWords(ts)
  ELSE IF Outer(ts, ")") = {} THEN Panic
  ELSE LET m == Min(Outer(ts, ")"))
           c == GrammarLine(SubSeq(ts, 2, m - 1))
       IN Both(c, c, Redirected(c, After(ts, m)))

GrammarPipe(ts) ==
  IF Outer(ts, "|") = {} THEN GrammarExec(ts)
  ELSE LET k == Min(Outer(ts, "|"))
           l == GrammarExec(Before(ts, k))
           r == GrammarPipe(After(ts, k))
       IN Both(l, r, pipecmd(l, r))

GrammarBack(ts) ==
  IF ts # <<>> /\ ts[Len(ts)][1] = "&"
  THEN LET c == GrammarBack(Before(ts, Len(ts))) IN Both(c, c, backcmd(c))
  ELSE GrammarPipe(ts)

GrammarLine(ts) ==
  IF Outer(ts, ";") = {} THEN GrammarBack(ts)
  ELSE LET k == Min(Outer(ts, ";"))
           l == GrammarBack(Before(ts, k))
           r == GrammarLine(After(ts, k))
       IN Both(l, r, listcmd(l, r))

(* parsecmd returns the command that the grammar gives a line, with its     *)
(* words and redirections in their places, and panics on every other line.  *)
Tokens == [k \in DOMAIN line |-> <<line[k], k>>]
ParsesGrammar == parsecmd(Tokens) = GrammarLine(Tokens)
=============================================================================
