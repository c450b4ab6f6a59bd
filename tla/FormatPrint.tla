---------------------------- MODULE FormatPrint -----------------------------
(***************************************************************************)
(* One call of the printf family: vfprintf over printf_core and vfwprintf  *)
(* over wprintf_core (csrc/stdio.c), which has the first print its numbers *)
(* and its blanks.  The format is gone through twice, once to find invalid *)
(* directives and numbered arguments, and once to print; a step of the     *)
(* second pass handles one directive.                                      *)
(*                                                                         *)
(* The format is a sequence of parsed directives, each a record:           *)
(*   t        "lit", "d", "u", "x", "o", "c", "s", "S" (%ls, %lc), "m",    *)
(*            "n", or "bad" where the state table ends in no type          *)
(*   fl       the flags                                                    *)
(*   w, p     width and precision: a number, None, Star or Over            *)
(*   n, wn, pn   the number of its argument and those of its stars, or 0   *)
(*   text     what a "lit" prints                                          *)
(* An argument has an integer and a string, of which a directive takes the *)
(* one it asks for.  "W" is a character of two bytes, "L" and "T", and "x" *)
(* is none.  The value of a floating-point number is not modelled.         *)
(***************************************************************************)
EXTENDS Integers, Sequences, SequencesExt

CONSTANTS
  Formats, Arguments,
  Rooms,      \* how many characters a string may take
  Failures,   \* which write of a file fails; 0 for none
  BUF,        \* internal_buf of vfprintf (80) and buf of vswprintf (256)
  PAD,        \* pad's buffer (256)
  INT_MAX

VARIABLES
  wide, fmt, args, sink,   \* the call; sink is "string", "file" or "raw"
  pass,       \* "check", "print" or "done"
  i,          \* the next directive
  ap,         \* the next argument
  l10n,       \* are arguments numbered?
  cnt,
  f,          \* the stream
  olderr,
  ret,
  stored      \* ghost: what %n stored, by directive

printCall == <<wide, fmt, args, sink>>
printVars == <<printCall, pass, i, ap, l10n, cnt, f, olderr, ret, stored>>

None == -1
Star == -2
Over == -3     \* a number getint cannot hold
Larger(a, b) == IF a > b THEN a ELSE b
Lesser(a, b) == IF a < b THEN a ELSE b
Times(c, n) == [k \in 1 .. n |-> c]

-----------------------------------------------------------------------------
(* The stream a call prints to                                             *)

\* A string has room for so many characters, the null included (sn_write,
\* sw_write); write number fail of a file fails.
Opening(snk, room, fail, err) ==
  [buf |-> <<>>, got |-> <<>>, room |-> room, fail |-> fail, err |-> err,
   open |-> TRUE]

\* A string stores what fits and pretends that all of it did.
StringWrite_Whole(g, s) == [g EXCEPT !.got = @ \o g.buf \o s, !.buf = <<>>]
StringWrite(g, s) ==
  LET all == g.got \o g.buf \o s
  IN [g EXCEPT !.got = SubSeq(all, 1, Lesser(Len(all), Larger(g.room - 1, 0))),
               !.buf = <<>>]

\* A file that fails drops what was buffered and is not writable any more.
Write(g, s) ==
  CASE sink = "string" -> StringWrite(g, s)
    [] sink # "string" /\ g.fail = 1 ->
         [g EXCEPT !.buf = <<>>, !.err = TRUE, !.open = FALSE, !.fail = 0]
    [] OTHER -> [g EXCEPT !.got = @ \o g.buf \o s, !.buf = <<>>, !.fail = Larger(@ - 1, 0)]

\* vfwprintf gives an unbuffered stream no buffer.
Capacity == IF wide /\ sink = "raw" THEN 0 ELSE BUF

Fwritex(g, s) ==
  IF Len(s) > Capacity - Len(g.buf) THEN Write(g, s) ELSE [g EXCEPT !.buf = @ \o s]

\* out: nothing more once the stream is in error.  wout goes character by
\* character, and fputwc fails for what is no character.
Out(g, s) == IF g.err THEN g ELSE Fwritex(g, s)
Wout(g, s) ==
  FoldLeft(LAMBDA h, c : IF h.err THEN h
                         ELSE IF c = "x" THEN [h EXCEPT !.err = TRUE]
                         ELSE Fwritex(h, <<c>>), g, s)

\* pad: to width w what takes l, unless a flag of off is set.
RECURSIVE Blocks(_, _, _)
Blocks(g, c, n) ==
  IF n >= PAD THEN Blocks(Out(g, Times(c, PAD)), c, n - PAD) ELSE Out(g, Times(c, n))

Pad(g, c, w, l, on) == IF ~on \/ l >= w THEN g ELSE Blocks(g, c, w - l)

-----------------------------------------------------------------------------
(* One directive                                                           *)

\* fmt_x, fmt_o, fmt_u: no digit for 0.
RECURSIVE Digits(_, _)
Digits(n, b) == IF n = 0 THEN <<>> ELSE Append(Digits(n \div b, b), ToString(n % b))
Base(t) == CASE t = "x" -> 16 [] t = "o" -> 8 [] OTHER -> 10

Sign(d, v) ==
  CASE d.t = "x" /\ v # 0 /\ "#" \in d.fl -> <<"0", "x">>
    [] d.t = "d" /\ v < 0 -> <<"-">>
    [] d.t = "d" /\ v >= 0 /\ "+" \in d.fl -> <<"+">>
    [] d.t = "d" /\ v >= 0 /\ "+" \notin d.fl /\ " " \in d.fl -> <<" ">>
    [] OTHER -> <<>>

\* Where a directive leaves the stream, and how much it printed, or "EOVERFLOW",
\* "EILSEQ".
Printed(g, l) == [f |-> g, l |-> l, err |-> ""]
Failed(g, err) == [f |-> g, l |-> 0, err |-> err]

\* What p becomes when it was given, for a number: the digits at least.
NumberWidth(d, p, v, digits) ==
  LET alt == IF d.t = "o" /\ "#" \in d.fl THEN Len(digits) + 1 ELSE None
      least == Larger(p, alt)
  IN IF v = 0 /\ least = 0 THEN 0
     ELSE Larger(least, Len(digits) + IF v = 0 THEN 1 ELSE 0)

\* The blanks, the sign, the zeros and the digits, from ifmt_tail on.
Field(g, left, zero, w, prefix, p, body, done) ==
  LET pl == Len(prefix)
      p2 == Larger(p, Len(body))
      w2 == Larger(w, pl + p2)
      a == Out(Pad(g, " ", w2, pl + p2, ~left /\ ~zero), prefix)
      b == Pad(a, "0", w2, pl + p2, ~left /\ zero)
      c == Out(Pad(b, "0", p2, Len(body), TRUE), body)
  IN IF p2 > INT_MAX - pl \/ w2 > INT_MAX - done THEN Failed(g, "EOVERFLOW")
     ELSE Printed(Pad(c, " ", w2, pl + p2, left), w2)

\* A precision that was given in the format and that getint could not hold is
\* an error for a number only; a negative one from an argument is none at all.
Numeric(g, d, left, w, p, v, done) ==
  LET digits == Digits(IF v < 0 THEN -v ELSE v, Base(d.t))
  IN IF p = Over THEN Failed(g, "EOVERFLOW")
     ELSE Field(g, left, "0" \in d.fl /\ ~left /\ p < 0, w, Sign(d, v),
                NumberWidth(d, p, v, digits), digits, done)

Bytes(s) == FlattenSeq([k \in 1 .. Len(s) |-> IF s[k] = "W" THEN <<"L", "T">> ELSE <<s[k]>>])

\* %ls: how many characters fit into p bytes, none of them cut; -1 if one that
\* would be looked at is no character.
Measured(s, p) ==
  LET fits(k) == p < 0 \/ Len(Bytes(SubSeq(s, 1, k))) <= p
      room(k) == p < 0 \/ Len(Bytes(SubSeq(s, 1, k))) < p
      k == CHOOSE k \in 0 .. Len(s) :
             /\ \A j \in 1 .. k : s[j] # "x" /\ fits(j)
             /\ k < Len(s) => s[k + 1] = "x" \/ ~fits(k + 1)
  IN IF k < Len(s) /\ s[k + 1] = "x" /\ room(k) THEN -1 ELSE k

Narrow(g, d, left, w, p, v, done) ==
  LET s == Bytes(v.s)
      len == IF p < 0 THEN Len(s) ELSE Lesser(p, Len(s))
      k == Measured(v.s, p)
      body == Bytes(SubSeq(v.s, 1, k))
      padded == Pad(g, " ", w, Len(body), ~left /\ "0" \notin d.fl)
  IN CASE d.t = "c" -> Field(g, left, FALSE, w, <<>>, 1, <<"a">>, done)
       [] d.t \in {"s", "m"} ->
            IF p < 0 /\ Len(s) > INT_MAX THEN Failed(g, "EOVERFLOW")
            ELSE Field(g, left, FALSE, w, <<>>, len, SubSeq(s, 1, len), done)
       [] d.t = "S" ->
            IF k < 0 THEN Failed(g, "EILSEQ")
            ELSE IF Len(body) > INT_MAX THEN Failed(g, "EOVERFLOW")
            ELSE Printed(Pad(FoldLeft(Out, padded, [j \in 1 .. k |-> Bytes(<<v.s[j]>>)]),
                             " ", w, Len(body), left), Larger(w, Len(body)))
       [] OTHER -> Numeric(g, d, left, w, p, v.i, done)

\* wprintf_core: strings itself, and blanks and numbers through printf_core.
Wpad(g, n, on) == IF ~on \/ n = 0 \/ g.err THEN g ELSE Blocks(g, " ", n)

Wide(g, d, left, w, p, v) ==
  LET bad == {j \in 1 .. Len(v.s) : v.s[j] = "x" /\ (p < 0 \/ j <= p)} # {}
      len == IF p < 0 THEN Len(v.s) ELSE Lesser(p, Len(v.s))
      body == IF d.t = "c" THEN <<"a">> ELSE SubSeq(v.s, 1, len)
      w2 == Larger(w, Len(body))
      num == Numeric(g, d, left, w, p, v.i, 0)
  IN CASE d.t \in {"s", "m"} /\ bad -> Failed(g, "EILSEQ")
       [] d.t \in {"s", "m", "S"} /\ ~(d.t # "S" /\ bad) /\ p < 0 /\ Len(v.s) > INT_MAX ->
            Failed(g, "EOVERFLOW")
       [] d.t \in {"c", "s", "m", "S"} ->
            Printed(Wpad(Wout(Wpad(g, w2 - Len(body), ~left), body),
                         w2 - Len(body), left), w2)
       [] p = Over -> Failed(g, "EOVERFLOW")
       [] num.err # "" -> Printed(g, -1)
       [] OTHER -> num

-----------------------------------------------------------------------------
(* The call                                                                *)

\* The arguments a directive takes, its stars first.
Stars(d) == (IF d.w = Star THEN 1 ELSE 0) + (IF d.p = Star THEN 1 ELSE 0)
Takes(d) == d.t \notin {"lit", "m", "bad"}

\* printf_core(0, ...), up to the first argument that is not numbered: "" or
\* the error.  used are the numbers that occur.
RECURSIVE Checked(_, _, _, _)
Checked(k, total, numbered, used) ==
  LET d == fmt[k]
      numbers == {d.n, d.wn, d.pn} \ {0}
      gap == \E a \in used : \E b \in 1 .. a : b \notin used
      starInval == \/ d.w = Star /\ d.wn = 0 /\ (numbered \/ d.n > 0)
                   \/ d.p = Star /\ d.pn = 0 /\ (numbered \/ d.n > 0 \/ d.wn > 0)
  IN IF k > Len(fmt) THEN IF numbered /\ gap THEN "EINVAL" ELSE ""
     ELSE IF d.t = "lit"
     THEN IF Len(d.text) > INT_MAX - total THEN "EOVERFLOW"
          ELSE Checked(k + 1, total + Len(d.text), numbered, used)
     ELSE IF d.w = Over THEN "EOVERFLOW"
     ELSE IF starInval \/ d.t = "bad" \/ (d.t = "m" /\ d.n > 0) THEN "EINVAL"
     ELSE IF Takes(d) /\ d.n = 0 THEN ""
     ELSE Checked(k + 1, total, numbered \/ d.n > 0 \/ d.wn > 0, used \cup numbers)

\* The caller numbers all arguments or none.
Uniform(s) ==
  LET taking == {k \in 1 .. Len(s) : Takes(s[k])}
  IN \/ \A k \in taking : s[k].n > 0
     \/ \A k \in taking : s[k].n = 0 /\ s[k].wn = 0 /\ s[k].pn = 0

PrintInit ==
  /\ wide \in BOOLEAN
  /\ fmt \in Formats /\ Uniform(fmt) /\ args \in Arguments
  /\ sink \in {"string", "file", "raw"}
  /\ pass = "check" /\ i = 1 /\ ap = 1 /\ l10n = FALSE
  /\ cnt = 0 /\ ret = 0 /\ stored = {}
  /\ \E room \in Rooms, fail \in Failures, err \in BOOLEAN :
       /\ f = Opening(sink, room, fail, err)
       /\ sink # "string" => room = 0
       /\ sink = "string" => fail = 0 /\ ~err
  /\ olderr = f.err

\* vsnprintf and vswprintf do not start with a room that no int can count, nor
\* vswprintf with none at all.
Refused == sink = "string" /\ (f.room > INT_MAX \/ (wide /\ f.room = 0))
Refuse ==
  /\ pass = "check" /\ Refused
  /\ pass' = "done" /\ ret' = -1
  /\ UNCHANGED <<printCall, i, ap, l10n, cnt, f, olderr, stored>>

\* Under the FILE's lock: the stream's error flag is put aside.
Check ==
  /\ pass = "check" /\ ~Refused
  /\ LET bad == Checked(1, 0, FALSE, {}) # ""
     IN /\ pass' = IF bad THEN "done" ELSE "print"
        /\ ret' = IF bad THEN -1 ELSE 0
        /\ f' = IF bad THEN f ELSE [f EXCEPT !.err = FALSE]
  /\ olderr' = f.err
  /\ UNCHANGED <<printCall, i, ap, l10n, cnt, stored>>

OldError_Dropped(e) == FALSE
OldError(e) == e

\* vfprintf gives an unbuffered stream a buffer for the call, and writes it out;
\* vswprintf writes its own out; and a failure sets the result.
End(g, r) ==
  LET g2 == IF sink = "string" \/ (sink = "raw" /\ ~wide) THEN Write(g, <<>>) ELSE g
      failed == g2.err \/ (sink = "raw" /\ ~g2.open)
  IN /\ pass' = "done"
     /\ f' = [g2 EXCEPT !.err = @ \/ OldError(olderr)]
     /\ ret' = IF failed \/ (wide /\ sink = "string" /\ r >= g.room) THEN -1 ELSE r

\* The argument numbered n, or the next one.
Arg(n, next) == IF n > 0 THEN args[n] ELSE args[next]

\* printf_core(f, ...): the literal text, or one directive.
Literal ==
  LET d == fmt[i]
  IN /\ pass = "print" /\ i <= Len(fmt) /\ d.t = "lit"
     /\ IF Len(d.text) > INT_MAX - cnt
        THEN End(f, -1) /\ UNCHANGED <<cnt, i>>
        ELSE /\ f' = IF wide THEN Wout(f, d.text) ELSE Out(f, d.text)
             /\ cnt' = cnt + Len(d.text) /\ i' = i + 1
             /\ UNCHANGED <<pass, ret>>
     /\ UNCHANGED <<printCall, ap, l10n, olderr, stored>>

Tallied_Unchecked(c, l) == c + l
Tallied(c, l) == IF l > INT_MAX - c THEN Over ELSE c + l

Directive ==
  LET d == fmt[i]
      wv == Arg(d.wn, ap).i
      afterW == IF d.w = Star /\ d.wn = 0 THEN ap + 1 ELSE ap
      pv == Arg(d.pn, afterW).i
      afterP == IF d.p = Star /\ d.pn = 0 THEN afterW + 1 ELSE afterW
      after == IF Takes(d) /\ d.n = 0 THEN afterP + 1 ELSE afterP
      v == IF d.t = "m" THEN [i |-> 0, s |-> <<"a">>] ELSE Arg(d.n, afterP)
      w == CASE d.w = Star -> IF wv < 0 THEN -wv ELSE wv
             [] d.w = None -> 0 [] OTHER -> d.w
      left == "-" \in d.fl \/ (d.w = Star /\ wv < 0)
      p == IF d.p = Star THEN IF pv < 0 THEN None ELSE pv ELSE d.p
      r == IF wide THEN Wide(f, d, left, w, p, v)
           ELSE Narrow(f, d, left, w, p, v, cnt)
      total == Tallied(cnt, r.l)
      numbered == l10n \/ d.n > 0 \/ d.wn > 0
      invalid == \/ d.w = Over \/ d.t = "bad" \/ (d.t = "m" /\ d.n > 0)
                 \/ d.w = Star /\ d.wn = 0 /\ (l10n \/ d.n > 0)
                 \/ d.p = Star /\ d.pn = 0 /\ numbered
  IN /\ pass = "print" /\ i <= Len(fmt) /\ d.t # "lit"
     /\ CASE invalid \/ f.err -> End(f, -1) /\ UNCHANGED <<cnt, i, ap, l10n, stored>>
          [] ~invalid /\ ~f.err /\ d.t = "n" ->
               /\ stored' = stored \cup {<<i, cnt>>}
               /\ i' = i + 1 /\ ap' = after /\ l10n' = numbered
               /\ UNCHANGED <<cnt, pass, f, ret>>
          [] OTHER ->
               IF r.err # "" \/ total = Over
               THEN End(r.f, -1) /\ UNCHANGED <<cnt, i, ap, l10n, stored>>
               ELSE /\ f' = r.f /\ cnt' = total /\ i' = i + 1
                    /\ ap' = after /\ l10n' = numbered
                    /\ UNCHANGED <<pass, ret, stored>>
     /\ UNCHANGED <<printCall, olderr>>

Finish ==
  /\ pass = "print" /\ i > Len(fmt)
  /\ End(f, cnt)
  /\ UNCHANGED <<printCall, i, ap, l10n, cnt, olderr, stored>>

PrintNext == Refuse \/ Check \/ Literal \/ Directive \/ Finish
PrintSpec == PrintInit /\ [][PrintNext]_printVars

-----------------------------------------------------------------------------
(* What the standard promises                                              *)

\* The argument of directive k and of its stars, by counting.
First(k) ==
  FoldLeft(LAMBDA n, d : n + Stars(d) + (IF Takes(d) THEN 1 ELSE 0), 1,
           SubSeq(fmt, 1, k - 1))
ValueAt(d, first, width, precision) ==
  [v |-> IF d.t = "m" THEN [i |-> 0, s |-> <<"a">>]
         ELSE args[IF d.n > 0 THEN d.n ELSE first + Stars(d)],
   left |-> "-" \in d.fl \/ (d.w = Star /\ width < 0),
   w |-> IF d.w = Star THEN Larger(width, -width) ELSE Larger(d.w, 0),
   p |-> IF d.p = Star THEN Larger(precision, None)
         ELSE IF d.p = Over THEN INT_MAX + 1 ELSE d.p]

ValueFrom(d, first) ==
  ValueAt(d, first,
          args[IF d.wn > 0 THEN d.wn ELSE first].i,
          args[IF d.pn > 0 THEN d.pn ELSE IF d.w = Star THEN first + 1 ELSE first].i)

ValueOf(k) == ValueFrom(fmt[k], First(k))

\* The digits of a number, at least as many as the precision asks for.
Padded(d, zeros, digits) ==
  IF d.t = "o" /\ "#" \in d.fl /\ zeros = <<>> THEN <<"0">> \o digits ELSE zeros \o digits
Least(d, p, digits) ==
  Padded(d, Times("0", Larger((IF p < 0 THEN 1 ELSE p) - Len(digits), 0)), digits)
Magnitude(d, p, n) == Least(d, p, Digits(Larger(n, -n), Base(d.t)))

\* Whole characters, up to the precision, which counts bytes or characters.
Cut(d, p, units, wholes) ==
  LET lengths == {n \in 0 .. Len(units) :
                    (p < 0 \/ n <= p) /\ (d.t # "S" \/ SubSeq(units, 1, n) \in wholes)}
  IN SubSeq(units, 1, CHOOSE n \in lengths : \A m \in lengths : m <= n)
Prefix(d, p, s) ==
  IF wide THEN Cut(d, p, s, Prefixes(s))
  ELSE Cut(d, p, Bytes(s), {Bytes(t) : t \in Prefixes(s)})

\* What a directive prints.
IsNumber(d) == d.t \in {"d", "u", "x", "o"}

Filled(d, a, sign, body, fill) ==
  CASE a.left -> sign \o body \o Times(" ", fill)
    [] ~a.left /\ IsNumber(d) /\ "0" \in d.fl /\ a.p < 0 -> sign \o Times("0", fill) \o body
    [] OTHER -> Times(" ", fill) \o sign \o body

InWidth(d, a, sign, body) ==
  Filled(d, a, sign, body, Larger(a.w - Len(sign) - Len(body), 0))

TextWith(d, a) ==
  IF IsNumber(d) THEN InWidth(d, a, Sign(d, a.v.i), Magnitude(d, a.p, a.v.i))
  ELSE InWidth(d, a, <<>>, IF d.t = "c" THEN <<"a">> ELSE Prefix(d, a.p, a.v.s))

TextOf(k) ==
  CASE fmt[k].t = "lit" -> fmt[k].text
    [] fmt[k].t \in {"n", "bad"} -> <<>>
    [] OTHER -> TextWith(fmt[k], ValueOf(k))

Text(k) == FlattenSeq([j \in 1 .. k |-> TextOf(j)])

\* Directive k cannot be printed: it is invalid, its text would make the count
\* too large, or a character it has to convert is none.
IllFormed(d) ==
  \/ d.t = "bad" \/ d.w = Over \/ (d.t = "m" /\ d.n > 0)
  \/ ((d.w = Star /\ d.wn = 0) \/ (d.p = Star /\ d.pn = 0)) /\ d.n > 0

TooLong(k) == Len(Text(k)) > INT_MAX

IllegalIn(d, a) ==
  /\ d.t = "S" \/ (wide /\ d.t = "s")
  /\ \E j \in 1 .. Len(a.v.s) :
       /\ a.v.s[j] = "x"
       /\ \/ a.p < 0
          \/ Len(IF wide THEN SubSeq(a.v.s, 1, j - 1) ELSE Bytes(SubSeq(a.v.s, 1, j - 1))) < a.p
Illegal(k) == IllegalIn(fmt[k], ValueOf(k))

Gaps ==
  LET used == UNION {{fmt[k].n, fmt[k].wn, fmt[k].pn} : k \in 1 .. Len(fmt)} \ {0}
  IN \E a \in used : \E b \in 1 .. a : b \notin used

Unprintable ==
  Gaps \/ \E k \in 1 .. Len(fmt) : IllFormed(fmt[k]) \/ TooLong(k) \/ Illegal(k)

-----------------------------------------------------------------------------
(* Properties                                                              *)

\* printf_core on behalf of wprintf_core cannot print a number whose field alone
\* is too large: wprintf_core counts its -1 and goes on.
TooLargeForWide ==
  wide /\ \E k \in 1 .. Len(fmt) :
            IsNumber(fmt[k]) /\ Len(TextOf(k)) > INT_MAX

Whole == Text(Len(fmt))
Delivered == IF sink = "string" THEN f.got ELSE f.got \o f.buf
Kept(whole) ==
  IF sink = "string" THEN SubSeq(whole, 1, Lesser(Len(whole), Larger(f.room - 1, 0)))
  ELSE whole

DonePrinting(whole) ==
  /\ (ret < 0) = \/ Unprintable \/ ~f.open
                 \/ sink = "string" /\ f.room > INT_MAX
                 \/ sink = "string" /\ wide /\ Len(whole) >= f.room
  /\ ret >= 0 =>
       /\ ret = Len(whole) /\ Delivered = Kept(whole)
       /\ sink = "raw" => f.buf = <<>>

BeginningOf(whole) == Delivered \in Prefixes(whole)

\* A call that succeeds has printed what its format says, at every width,
\* precision and flag, through whatever buffer: a string holds as much of it as
\* fits, so that snprintf(NULL, 0) measures what a second call stores (vasprintf),
\* a stream all of it, and an unbuffered stream has it out.  It returns the
\* length.  A call fails exactly if the format is invalid, the text too long, a
\* character illegal or a write failed, if the room is larger than INT_MAX
\* (stdio.c:1327, 4832), or if a wide string does not take all of the text
\* (stdio.c:990-1285, 4503-4865).
PrintExact ==
  pass = "done" /\ ~TooLargeForWide => DonePrinting(Whole)

\* Nothing is printed that is not the beginning of the right text, whatever
\* fails.
PrefixOnly == ~TooLargeForWide => BeginningOf(Whole)

\* %n stores how much was printed before it, also where a string took less.
StoredExact ==
  ~TooLargeForWide => \A <<k, n>> \in stored : n = Len(Text(k - 1))

\* An error of an earlier call on the stream neither makes this one fail nor is
\* forgotten by it (stdio.c:1264-1265, 1287).
OldErrorKept == pass = "done" => (olderr => f.err) /\ (f.err => olderr \/ ret < 0)
=============================================================================
