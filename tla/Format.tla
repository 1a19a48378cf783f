------------------------------- MODULE Format -------------------------------
(***************************************************************************)
(* The formatting of log messages into buf[64] (klog_printf_internal,      *)
(* snprintf_int and snprintf_hex of klog.c), and of numbers by printf of   *)
(* user programs (printint of printf.c).                                   *)
(*                                                                         *)
(* A format is a sequence of items: a character, or a conversion with its  *)
(* argument.  Ints wrap around at FWORD.  Each store goes to the end of    *)
(* what is stored, so buf is a sequence, and the final 0 goes to           *)
(* buf[Len(buf)].  A digit is its value, another character is negative.    *)
(***************************************************************************)
EXTENDS Integers, SequencesExt

CONSTANTS
  BUF,       \* sizeof(buf): 64
  TMP,       \* sizeof(tmp): 16
  DEC, HEX,  \* the bases, 10 and 16
  FWORD,     \* 2^32
  Items,     \* the items of the formats
  MAXFMT     \* bound on their number

ASSUME FormatAssumption == BUF > 2 /\ FWORD % 2 = 0 /\ DEC > 1 /\ HEX > 1

VARIABLE fmt

(* Every format, item by item, and then the next message. *)
FormatInit == fmt = <<>>
FormatNext == fmt' = <<>> \/ (Len(fmt) < MAXFMT /\ \E item \in Items : fmt' = Append(fmt, item))

MINUS == -1
LETTERX == -2
PERCENT == -3
Signed(v) == IF v >= FWORD \div 2 THEN v - FWORD ELSE v
IntMin == FWORD \div 2

(* The digits of v, the last one first: tmp. *)
RECURSIVE Digits(_, _)
Digits(v, b) == IF v < b THEN <<v>> ELSE <<v % b>> \o Digits(v \div b, b)
Tmp(v, b) == LET d == Digits(v, b) IN SubSeq(d, 1, Min({Len(d), TMP}))

(* A slip: no room for the final 0. *)
FillAll(s, size) == SubSeq(s, 1, Min({Len(s), size}))

(* The loops that copy to buf: at most size - 1 characters in all. *)
Fill(s, size) == SubSeq(s, 1, Min({Len(s), Max({size - 1, 0})}))

(* -val of the least int is negative again: no digit is stored. *)
snprintf_int(size, v) ==
  LET val == Signed(v)
      digits == IF v = IntMin THEN <<>> ELSE Reverse(Tmp(IF val < 0 THEN -val ELSE val, DEC))
  IN IF size <= 0 THEN <<>> ELSE Fill((IF val < 0 THEN <<MINUS>> ELSE <<>>) \o digits, size)

snprintf_hex(size, v) ==
  IF size <= 2 THEN <<>> ELSE Fill(<<0, LETTERX>> \o Reverse(Tmp(v, HEX)), size)

(* One item, stored behind buf. *)
Conv(buf, item) ==
  CASE item[1] \in {"char", "%%"} -> <<item[2]>>
    [] item[1] = "%d" -> snprintf_int(BUF - Len(buf), item[2])
    [] item[1] = "%x" -> snprintf_hex(BUF - Len(buf), item[2])
    [] item[1] = "%s" -> SubSeq(item[2], 1, Min({Len(item[2]), BUF - 1 - Len(buf)}))
    [] item[1] = "%?" -> <<PERCENT, item[2]>>

RECURSIVE klog_format(_, _)
klog_format(buf, f) ==
  IF f = <<>> \/ Len(buf) >= BUF - 1 THEN buf ELSE klog_format(buf \o Conv(buf, Head(f)), Tail(f))

(* printint(fd, v, DEC, 1) *)
printint(v) ==
  LET val == Signed(v)
  IN (IF val < 0 THEN <<MINUS>> ELSE <<>>) \o Reverse(Digits((IF val < 0 THEN -val ELSE val) % FWORD, DEC))
-----------------------------------------------------------------------------
(* What the items say, without bounds. *)
RECURSIVE Value(_)
Value(d) == IF d = <<>> THEN 0 ELSE Value(SubSeq(d, 1, Len(d) - 1)) * DEC + d[Len(d)]
Denotes(s, v) == IF s # <<>> /\ s[1] = MINUS THEN Len(s) > 1 /\ -Value(Tail(s)) = v ELSE s # <<>> /\ Value(s) = v

Known == \A k \in DOMAIN fmt : fmt[k][1] # "%?"
Plain == Known /\ \A k \in DOMAIN fmt : fmt[k][1] # "%x" /\ fmt[k] # <<"%d", IntMin>>
Says(item) == CASE item[1] \in {"char", "%%"} -> <<item[2]>>
                [] item[1] = "%d" -> printint(item[2])
                [] item[1] = "%s" -> item[2]

(* No format of known conversions stores outside of buf[BUF], its final 0   *)
(* included, wherever the buffer fills up.                                  *)
FormatInBounds == Known => Len(klog_format(<<>>, fmt)) <= BUF - 1

(* What is logged is the beginning of what the format says, cut only when   *)
(* buf is full (for the conversions that the kernel uses, but for -2^31).   *)
LoggedIsBeginning ==
  Plain => LET says == FlattenSeq([k \in DOMAIN fmt |-> Says(fmt[k])])
           IN klog_format(<<>>, fmt) = SubSeq(says, 1, Min({Len(says), BUF - 1}))

(* printint writes every int as a number that denotes it, the least one,    *)
(* whose negation overflows, included.                                      *)
PrintintDenotes ==
  \A k \in DOMAIN fmt : fmt[k][1] = "%d" => Denotes(printint(fmt[k][2]), Signed(fmt[k][2]))

(* Formatting stays in its buffer and writes what the format says: klog.c   *)
(* for its known conversions, printf.c for every int.                       *)
FormatSound == FormatInBounds /\ LoggedIsBeginning /\ PrintintDenotes
=============================================================================
