-------------------------------- MODULE Grep --------------------------------
(***************************************************************************)
(* The matcher of grep (grep.c): match, matchhere and matchstar, and what  *)
(* a pattern of ^ . * $ means.  Characters are strings of length one; the  *)
(* end of re and of text is the end of the sequence.                       *)
(***************************************************************************)
EXTENDS Integers, SequencesExt

CONSTANTS
  Letters,       \* the characters of text
  MAXRE, MAXTEXT \* bounds on the lengths

VARIABLES re, text

grepVars == <<re, text>>

(* Every pattern and text, character by character, and then the next ones. *)
GrepInit == re = <<>> /\ text = <<>>
GrepNext ==
  \/ re' = <<>> /\ text' = <<>>
  \/ Len(re) < MAXRE /\ (\E c \in Letters \cup {"^", ".", "*", "$"} : re' = Append(re, c)) /\ UNCHANGED text
  \/ Len(text) < MAXTEXT /\ (\E c \in Letters : text' = Append(text, c)) /\ UNCHANGED re

From(s, k) == SubSeq(s, k, Len(s))

RECURSIVE matchhere(_, _), matchstar(_, _, _)
(* matchhere: search for r at the beginning of t. *)
matchhere(r, t) ==
  IF r = <<>> THEN TRUE
  ELSE IF Len(r) > 1 /\ r[2] = "*" THEN matchstar(r[1], From(r, 3), t)
  ELSE IF r = <<"$">> THEN t = <<>>
  ELSE t # <<>> /\ r[1] \in {".", t[1]} /\ matchhere(Tail(r), Tail(t))

(* A slip: at most one c. *)
matchonce(c, r, t) ==
  \/ matchhere(r, t)
  \/ t # <<>> /\ c \in {".", t[1]} /\ matchhere(r, Tail(t))

(* matchstar: search for c*r at the beginning of t. *)
matchstar(c, r, t) ==
  \/ matchhere(r, t)
  \/ t # <<>> /\ c \in {".", t[1]} /\ matchstar(c, r, Tail(t))

match(r, t) ==
  IF r # <<>> /\ r[1] = "^" THEN matchhere(Tail(r), t)
  ELSE \E k \in 1 .. Len(t) + 1 : matchhere(r, From(t, k))
-----------------------------------------------------------------------------
UpTo(S, k) == UNION {[1 .. j -> S] : j \in 0 .. k}

(* What a pattern means: the set of texts that it matches from end to end,  *)
(* out of those that can occur.                                             *)
Texts(c) == IF c = "." THEN {<<x>> : x \in Letters} ELSE {<<c>>}
Then(A, B) == {a \o b : a \in A, b \in B}
Star(c) == {s \in UpTo(Letters, MAXTEXT) : \A k \in DOMAIN s : <<s[k]>> \in Texts(c)}

RECURSIVE Language(_)
Language(r) ==
  IF r = <<>> THEN {<<>>}
  ELSE IF Len(r) > 1 /\ r[2] = "*" THEN Then(Star(r[1]), Language(From(r, 3)))
  ELSE Then(Texts(r[1]), Language(Tail(r)))

(* A final $, unless it is what a star repeats or all that is starred,      *)
(* anchors the end, a first ^ the beginning.                                *)
Anchored(r) == r # <<>> /\ r[1] = "^"
Body(r) == IF Anchored(r) THEN Tail(r) ELSE r
RECURSIVE Atoms(_)
Atoms(r) == IF r = <<>> THEN <<>>
            ELSE IF Len(r) > 1 /\ r[2] = "*" THEN <<SubSeq(r, 1, 2)>> \o Atoms(From(r, 3))
            ELSE <<SubSeq(r, 1, 1)>> \o Atoms(Tail(r))
ToEnd(r) == Atoms(r) # <<>> /\ Atoms(r)[Len(Atoms(r))] = <<"$">>

Means(r, t) ==
  LET b == Body(r)
      core == IF ToEnd(b) THEN SubSeq(b, 1, Len(b) - 1) ELSE b
  IN \E i \in 1 .. Len(t) + 1, j \in 0 .. Len(t) :
       /\ i <= j + 1 /\ (Anchored(r) => i = 1) /\ (ToEnd(b) => j = Len(t))
       /\ SubSeq(t, i, j) \in Language(core)

(* match finds a text exactly when the pattern, read as a language, occurs  *)
(* in it at the places that ^ and $ allow: the search of matchstar is       *)
(* complete although it stops at the first success.                         *)
MatchIsLanguage == match(re, text) <=> Means(re, text)
=============================================================================
