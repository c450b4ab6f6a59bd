----------------------------- MODULE ScanStream -----------------------------
(***************************************************************************)
(* What the scanf and strto... families read their bytes through, and the  *)
(* two number scanners on top of it (csrc/stdio.c: shlim, shgetc, shunget, *)
(* __intscan, __floatscan and its helpers, strtox_int, wcstox_int).        *)
(*                                                                         *)
(* A stream f is a FILE reduced to its read side.  Byte i of its buffer is *)
(* src[off + i + 1], so off + rpos bytes have been consumed; chunk is the  *)
(* size of the buffer, 0 for an unbuffered stream.  shcnt and shend count  *)
(* and limit what one conversion consumes although the buffer is refilled  *)
(* meanwhile.  A string is a stream with one chunk.  Numbers are of        *)
(* ULLONG_MAX's width; of a floating-point number only its extent is       *)
(* modelled, not its value.                                                *)
(***************************************************************************)
EXTENDS Integers, Sequences, SequencesExt

CONSTANT ULLONG_MAX

EOF == "EOF"
Space == {" "}
Letters == {"a", "e", "f", "i", "n", "p", "t", "x", "y"}

\* intscan_table: what the byte is worth as a digit, 255 if it is none.
Val(c) ==
  CASE c = "0" -> 0 [] c = "1" -> 1 [] c = "7" -> 7 [] c = "9" -> 9
    [] c = "a" -> 10 [] c = "e" -> 14 [] c = "f" -> 15 [] c = "x" -> 33
    [] OTHER -> 255

Bytes == {" ", "+", "-", ".", "(", ")", "nul", "0", "1", "7", "9", "L", "T"} \cup Letters
Digits(b) == {c \in Bytes : Val(c) < b}

-----------------------------------------------------------------------------
(* The stream                                                              *)

RECURSIVE While(_, _), Accumulate(_, _, _), Word(_, _, _), NanTail(_, _, _)

Consumed(f) == f.off + f.rpos

Stream(src, chunk) ==
  [src |-> src, chunk |-> chunk, off |-> -chunk, rpos |-> chunk, rend |-> chunk,
   shend |-> chunk, shlim |-> 0, shcnt |-> 0]

\* __toread and f->read(f, &c, 1): the buffer is filled and its first byte
\* consumed; at the end of the input it is left empty.
Uflow(f) ==
  LET used == Consumed(f)
      left == Len(f.src) - used
  IN IF left = 0
     THEN [f EXCEPT !.rpos = f.chunk, !.rend = f.chunk, !.off = used - f.chunk]
     ELSE IF f.chunk = 0
     THEN [f EXCEPT !.rpos = 0, !.rend = 0, !.off = used + 1]
     ELSE [f EXCEPT !.rpos = 1, !.off = used,
                    !.rend = IF left < f.chunk THEN left ELSE f.chunk]

Shcnt(f) == f.shcnt + f.rpos

\* Where a buffer is cut short for a conversion that may consume n more bytes.
Cut(f, limited, n) ==
  IF limited /\ f.rend - f.rpos > n THEN f.rpos + n ELSE f.rend

Shlim(f, lim) ==
  [f EXCEPT !.shlim = lim, !.shcnt = -f.rpos, !.shend = Cut(f, lim # 0, lim)]

\* The limit is not applied to a buffer that was refilled in mid-conversion.
Refilled_Uncut(g, cnt) == g.rend

Refilled(g, cnt) == Cut(g, g.shlim # 0, g.shlim - cnt)

\* The buffer is used up: g is the stream after a refill, if that was allowed.
\* EOF is sticky, and makes shunget do nothing.
Underflow(f, g, cnt) ==
  IF g = f \/ Consumed(f) = Len(f.src)
  THEN [f |-> [g EXCEPT !.shcnt = cnt - g.rpos, !.shend = g.rpos, !.shlim = -1], c |-> EOF]
  ELSE [f |-> [g EXCEPT !.shcnt = cnt + 1 - g.rpos, !.shend = Refilled(g, cnt + 1)],
        c |-> f.src[Consumed(f) + 1]]

\* One byte, or EOF at the end of the input and at the limit.
Shgetc(f) ==
  IF f.rpos # f.shend
  THEN [f |-> [f EXCEPT !.rpos = @ + 1], c |-> f.src[Consumed(f) + 1]]
  ELSE Underflow(f, IF f.shlim # 0 /\ Shcnt(f) >= f.shlim THEN f ELSE Uflow(f), Shcnt(f))

Ungets(f, n) == IF f.shlim >= 0 THEN [f EXCEPT !.rpos = @ - n] ELSE f
Shunget(f) == Ungets(f, 1)

\* The loops over shgetc: g is a stream and the byte just taken from it.
While(g, S) == IF g.c \in S THEN While(Shgetc(g.f), S) ELSE g

-----------------------------------------------------------------------------
(* __intscan                                                               *)

Accumulate(g, y, b) ==
  IF Val(g.c) < b /\ y <= ULLONG_MAX \div b /\ b * y <= ULLONG_MAX - Val(g.c)
  THEN Accumulate(Shgetc(g.f), y * b + Val(g.c), b)
  ELSE [g |-> g, y |-> y]

\* The value, cut to what lim allows: unsigned where lim is odd, and signed with
\* lim as the magnitude of its minimum where it is even.
Clamp(y, neg, over, lim) ==
  LET odd == lim % 2 = 1
      m == IF over THEN lim ELSE y
      minus == neg /\ ~(over /\ odd)
  IN IF m >= lim /\ ~odd /\ ~minus THEN lim - 1
     ELSE IF m > lim THEN lim
     ELSE IF minus THEN (-m) % (ULLONG_MAX + 1) ELSE m

\* A sign, if there is one, after the blanks.
Sign(g) ==
  IF g.c \in {"+", "-"} THEN [neg |-> g.c = "-"] @@ Shgetc(g.f) ELSE [neg |-> FALSE] @@ g
Signed(f) == Sign(While(Shgetc(f), Space))

NoInteger(f) == [f |-> Shlim(Shunget(f), 0), y |-> 0]

\* The digits after those that were summed up overflow the number.
Integer(sum, neg, b, lim) ==
  [f |-> Shunget(While(sum.g, Digits(b)).f),
   y |-> Clamp(sum.y, neg, Val(sum.g.c) < b, lim)]

\* pok: may the scanner take back more than the byte it stopped at?  Only then
\* does "0x" without a digit leave the "0" as a number.
AfterX(g, neg, pok, lim) ==
  IF Val(g.c) < 16 THEN Integer(Accumulate(g, 0, 16), neg, 16, lim)
  ELSE IF pok THEN [f |-> Ungets(g.f, 2), y |-> 0]
  ELSE NoInteger(g.f)

AfterZero(g, neg, b, pok, lim) ==
  IF g.c = "x" THEN AfterX(Shgetc(g.f), neg, pok, lim)
  ELSE Integer(Accumulate(g, 0, b), neg, b, lim)

AfterSign(g, base, pok, lim) ==
  IF base \in {0, 16} /\ g.c = "0"
  THEN AfterZero(Shgetc(g.f), g.neg, IF base = 0 THEN 8 ELSE base, pok, lim)
  ELSE LET b == IF base = 0 THEN 10 ELSE base
       IN IF Val(g.c) < b THEN Integer(Accumulate(g, 0, b), g.neg, b, lim)
          ELSE NoInteger(g.f)

Intscan(f, base, pok, lim) ==
  IF base = 1 \/ base > 36 THEN [f |-> f, y |-> 0]
  ELSE AfterSign(Signed(f), base, pok, lim)

-----------------------------------------------------------------------------
(* __floatscan: how far it reads, and whether it has read a number         *)

NoFloat(f) == [f |-> Shlim(Shunget(f), 0), ok |-> FALSE]

\* Faulty variant, for mutation: a sign without digits is not taken back.
ExpDigits_KeepsSign(g, signed, pok) ==
  IF Val(g.c) < 10 THEN [f |-> Shunget(While(g, Digits(10)).f), ok |-> TRUE]
  ELSE [f |-> Shunget(g.f), ok |-> FALSE]

ExpDigits(g, signed, pok) ==
  IF Val(g.c) < 10 THEN [f |-> Shunget(While(g, Digits(10)).f), ok |-> TRUE]
  ELSE [f |-> Ungets(g.f, IF signed /\ pok THEN 2 ELSE 1), ok |-> FALSE]

ExpSign(g, pok) ==
  IF g.c \in {"+", "-"} THEN ExpDigits(Shgetc(g.f), TRUE, pok) ELSE ExpDigits(g, FALSE, pok)

Scanexp(f, pok) == ExpSign(Shgetc(f), pok)

\* The digits of decfloat and hexfloat, around at most one radix point.
Fraction(g, D, got) == [rad |-> TRUE, got |-> got \/ g.c \in D] @@ While(g, D)

Point(g, D, got) ==
  IF g.c = "." THEN Fraction(Shgetc(g.f), D, got) ELSE [rad |-> FALSE, got |-> got] @@ g

Mantissa(g, D) == Point(While(g, D), D, g.c \in D)

\* An exponent that turns out not to be one is taken back, if that is possible.
ExpEnd(e, pok) ==
  IF e.ok THEN e
  ELSE IF pok THEN [f |-> Shunget(e.f), ok |-> TRUE]
  ELSE [f |-> Shlim(e.f, 0), ok |-> FALSE]

DecEnd(m, pok) ==
  IF ~m.got THEN NoFloat(m.f)
  ELSE IF m.c = "e" THEN ExpEnd(Scanexp(m.f, pok), pok)
  ELSE [f |-> Shunget(m.f), ok |-> TRUE]

HexEnd(m, pok) ==
  IF ~m.got /\ pok THEN [f |-> Ungets(m.f, IF m.rad THEN 3 ELSE 2), ok |-> TRUE]
  ELSE IF ~m.got THEN NoFloat(m.f)
  ELSE IF m.c = "p" THEN ExpEnd(Scanexp(m.f, pok), pok)
  ELSE [f |-> Shunget(m.f), ok |-> TRUE]

Decfloat(g, pok) == DecEnd(Mantissa(g, Digits(10)), pok)
Hexfloat(f, pok) == HexEnd(Mantissa(Shgetc(f), Digits(16)), pok)

Infinity == <<"i", "n", "f", "i", "n", "i", "t", "y">>
Nan == <<"n", "a", "n">>

\* i letters of the word are matched; g.c is the first that does not match, or
\* the last letter of the word.
Word(g, word, i) ==
  IF g.c # word[i + 1] THEN [f |-> g.f, c |-> g.c, i |-> i]
  ELSE IF i + 1 = Len(word) THEN [f |-> g.f, c |-> g.c, i |-> i + 1]
  ELSE Word(Shgetc(g.f), word, i + 1)

\* nan(...): i bytes were taken after "nan".
NanTail(g, i, pok) ==
  IF g.c \in Letters \cup Digits(10) THEN NanTail(Shgetc(g.f), i + 1, pok)
  ELSE IF g.c = ")" THEN [f |-> g.f, ok |-> TRUE]
  ELSE IF pok THEN [f |-> Ungets(g.f, i + 1), ok |-> TRUE]
  ELSE NoFloat(g.f)

Paren(g, pok) ==
  IF g.c = "(" THEN NanTail(Shgetc(g.f), 1, pok) ELSE [f |-> Shunget(g.f), ok |-> TRUE]

LeadingZero(g, pok) ==
  IF g.c = "x" THEN Hexfloat(g.f, pok) ELSE Decfloat([f |-> Shunget(g.f), c |-> "0"], pok)

AfterNan(w, pok) ==
  CASE w.i = 3 -> Paren(Shgetc(w.f), pok)
    [] w.i \in {1, 2} -> NoFloat(w.f)
    [] w.i = 0 /\ w.c = "0" -> LeadingZero(Shgetc(w.f), pok)
    [] OTHER -> Decfloat(w, pok)

AfterInf(w, pok) ==
  CASE w.i = 8 -> [f |-> w.f, ok |-> TRUE]
    [] w.i = 3 \/ (w.i \in 4 .. 7 /\ pok) ->
         [f |-> Ungets(w.f, IF pok THEN w.i - 2 ELSE 1), ok |-> TRUE]
    [] w.i = 0 -> AfterNan(Word(w, Nan, 0), pok)
    [] OTHER -> NoFloat(w.f)

Floatscan(f, pok) == AfterInf(Word(Signed(f), Infinity, 0), pok)

-----------------------------------------------------------------------------
(* strtol, strtod, wcstol, wcstod and their kin: the value, and how many   *)
(* characters of s it took (0 if there is no number)                       *)

\* The string is the buffer; the byte after it is the terminating one.
Direct(s) ==
  [Stream(s \o <<"nul">>, Len(s) + 1) EXCEPT !.off = 0, !.rpos = 0]

StrtoxInt(s, base, lim) ==
  LET r == Intscan(Shlim(Direct(s), 0), base, TRUE, lim)
  IN [y |-> r.y, end |-> Shcnt(r.f)]

Strtox(s) == Shcnt(Floatscan(Shlim(Direct(s), 0), TRUE).f)

\* The wide string is copied to a buffer of bytes in pieces (do_read), in which
\* what is not ASCII, and the end, is a byte no number contains.
Pieces(t, chunk) == Shlim(Stream(t \o <<"nul">>, chunk), 0)

Blanks(s) ==
  CHOOSE i \in 0 .. Len(s) :
    /\ \A j \in 1 .. i : s[j] \in Space
    /\ i < Len(s) => s[i + 1] \notin Space

Counted(s, f) == IF Shcnt(f) = 0 THEN 0 ELSE Blanks(s) + Shcnt(f)

WcstoxInt(s, chunk, base, lim) ==
  LET t == SubSeq(s, Blanks(s) + 1, Len(s))
      r == Intscan(Pieces(t, chunk), base, TRUE, lim)
  IN [y |-> r.y, end |-> Counted(s, r.f)]

WcstoxFloat(s, chunk) ==
  Counted(s, Floatscan(Pieces(SubSeq(s, Blanks(s) + 1, Len(s)), chunk), TRUE).f)

-----------------------------------------------------------------------------
(* What the C standard says a number is, as automata over bytes, and what  *)
(* scanf and strto... must therefore consume: for scanf the longest prefix *)
(* of the input that begins a number ("input item"), which is converted if *)
(* it is one; for strto... the longest prefix that is a number.  None of   *)
(* it knows of buffers, limits or bytes taken back.                        *)

\* The states in which what was read is a number.
Accepting ==
  {"zero", "oct", "dec", "hex", "int", "frac", "exp", "xint", "xfrac",
   "inf", "infinity", "nan", "nan()"}

InBase(c, b) == Val(c) < b

\* The automaton of an integer in the given base: state st, next byte c.
IntegerNext(st, c, base) ==
  CASE st = "start" /\ c \in {"+", "-"} -> "sign"
    [] st \in {"start", "sign"} /\ c = "0" /\ base \in {0, 16} -> "zero"
    [] st \in {"start", "sign"} /\ base = 0 /\ InBase(c, 10) -> "dec"
    [] st \in {"start", "sign", "int"} /\ base # 0 /\ InBase(c, base) -> "int"
    [] st = "zero" /\ c = "x" -> "x"
    [] st = "zero" /\ base = 16 /\ InBase(c, 16) -> "int"
    [] st \in {"zero", "oct"} /\ base = 0 /\ InBase(c, 8) -> "oct"
    [] st = "dec" /\ InBase(c, 10) -> "dec"
    [] st \in {"x", "hex"} /\ InBase(c, 16) -> "hex"
    [] OTHER -> "fail"

\* The radix of what led to an accepting state.
Radix(st, base) ==
  CASE st = "hex" -> 16 [] st \in {"zero", "oct"} /\ base = 0 -> 8
    [] st = "dec" -> 10 [] OTHER -> base

Words ==
  [i |-> "n", in |-> "f", inf |-> "i", infi |-> "n", infin |-> "i",
   infini |-> "t", infinit |-> "y", n |-> "a", na |-> "n", nan |-> "("]

FloatNext(st, c) ==
  CASE st = "start" /\ c \in {"+", "-"} -> "sign"
    [] st \in {"start", "sign"} /\ c \in {"i", "n"} -> c
    [] st \in {"start", "sign"} /\ c = "0" -> "zero"
    [] st \in {"start", "sign"} /\ InBase(c, 10) -> "int"
    [] st \in {"start", "sign"} /\ c = "." -> "dot"
    [] st = "zero" /\ c = "x" -> "x"
    [] st \in {"zero", "int"} /\ InBase(c, 10) -> "int"
    [] st \in {"zero", "int"} /\ c = "." -> "frac"
    [] st \in {"dot", "frac"} /\ InBase(c, 10) -> "frac"
    [] st \in {"zero", "int", "frac"} /\ c = "e" -> "e"
    [] st \in {"x", "xint"} /\ InBase(c, 16) -> "xint"
    [] st = "x" /\ c = "." -> "xdot"
    [] st = "xint" /\ c = "." -> "xfrac"
    [] st \in {"xdot", "xfrac"} /\ InBase(c, 16) -> "xfrac"
    [] st \in {"xint", "xfrac"} /\ c = "p" -> "e"
    [] st = "e" /\ c \in {"+", "-"} -> "esign"
    [] st \in {"e", "esign", "exp"} /\ InBase(c, 10) -> "exp"
    [] st \in {"nan(", "nan_"} /\ c \in Letters \cup Digits(10) -> "nan_"
    [] st \in {"nan(", "nan_"} /\ c = ")" -> "nan()"
    [] st \in DOMAIN Words /\ c = Words[st] ->
         CASE st = "i" -> "in" [] st = "in" -> "inf" [] st = "inf" -> "infi"
           [] st = "infi" -> "infin" [] st = "infin" -> "infini"
           [] st = "infini" -> "infinit" [] st = "infinit" -> "infinity"
           [] st = "n" -> "na" [] st = "na" -> "nan" [] OTHER -> "nan("
    [] OTHER -> "fail"

\* A kind of number is the base of an integer, or:
Float == -1

After(s, kind) ==
  FoldLeft(LAMBDA st, c : IF kind = Float THEN FloatNext(st, c)
                          ELSE IntegerNext(st, c, kind), "start", s)

\* The end of the longest prefix of s that begins a number of that kind, and of
\* the longest that is one; 0 where there is none.
ItemEnd(s, kind) ==
  CHOOSE i \in 0 .. Len(s) :
    /\ After(SubSeq(s, 1, i), kind) # "fail"
    /\ i < Len(s) => After(SubSeq(s, 1, i + 1), kind) = "fail"

IsNumber(s, kind) == After(s, kind) \in Accepting

SubjectEnd(s, kind) ==
  LET b == Blanks(s)
      ends == {i \in b + 1 .. Len(s) : IsNumber(SubSeq(s, b + 1, i), kind)}
  IN IF ends = {} THEN 0 ELSE CHOOSE i \in ends : \A j \in ends : j <= i

\* The integer that s is, in mathematics.
Value(s, base) ==
  LET r == Radix(After(s, base), base)
      digits == SelectSeq(s, LAMBDA c : Val(c) < r)
      mag == FoldLeft(LAMBDA y, c : y * r + Val(c), 0, digits)
  IN IF s # <<>> /\ s[1] = "-" THEN -mag ELSE mag
=============================================================================
