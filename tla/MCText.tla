------------------------------- MODULE MCText -------------------------------
(***************************************************************************)
(* TLC instance of how text goes in and out: the number scanners against   *)
(* the grammar of numbers ("strto"), floating-point numbers ("floats"),    *)
(* pathname patterns ("glob"), one call of scanf ("scan") or printf        *)
(* ("print"), the restartable conversions of strings ("multibyte"), those  *)
(* between codesets ("iconv"), and wide characters through a FILE          *)
(* ("wide").  They share no state, so a behaviour exercises one of them,   *)
(* "part", and the variables of the others stay Idle.  A variable of one   *)
(* name belongs to several parts.                                          *)
(***************************************************************************)
EXTENDS ScanStream, TLC

CONSTANT Parts

VARIABLES
  part,
  numeral, answer,
  wide, fmt, f, utf16,
  managed, p, pos, matches, alloc, block, live, given, nomem, ended,
  args, sink, pass, i, ap, l10n, cnt, olderr, ret, stored,
  dir, chars, at, st, out, errno,
  to, source, cd, subs, last, base, errs, skips, runs,
  result, calls, reading, ahead, put, from

strtoOwn == <<numeral, answer>>
scanOwn == <<managed, p, pos, matches, alloc, block, live, given, nomem, ended>>
printOwn == <<args, sink, pass, i, ap, l10n, cnt, olderr, ret, stored>>
multibyteOwn == <<dir, chars, at, st, out, errno>>
iconvOwn == <<to, source, cd, subs, last, base, errs, skips, runs>>
wideOwn == <<result, calls, reading, ahead, put>>
allVars ==
  <<part, strtoOwn, wide, fmt, f, utf16, scanOwn, printOwn, multibyteOwn, iconvOwn, wideOwn,
    from>>

\* All sequences of at most n members of A, and what they join to.
UpTo(A, n) == UNION {[1 .. k -> A] : k \in 0 .. n}
Joined(A, n) == {FlattenSeq(w) : w \in UpTo(A, n)}

-----------------------------------------------------------------------------
(* Numbers: strings that nearly are one, and what reads them: strtol and   *)
(* strtod, or wcstol and wcstod with a buffer of so many bytes.  The       *)
(* limits are those of an unsigned and of a signed type.                   *)

IntegerStrings ==
  UpTo({" ", "-", "0", "x", "1", "9"}, 4)
    \cup {<<"-", "0", "x">> \o t : t \in UpTo({"1", "9", "f", "y"}, 3)}

FloatStrings ==
  UpTo({" ", "-", "0", "1", ".", "e", "x"}, 4)
    \cup {<<"0", "x">> \o t : t \in UpTo({"1", ".", "p", "-"}, 4)}
    \cup {<<"1", "e">> \o t : t \in UpTo({"1", ".", "e", "-"}, 3)}
    \cup {t \o u : t \in Prefixes(Infinity), u \in {<<>>, <<"x">>, <<"i">>}}
    \cup {t \o u : t \in Prefixes(<<"n", "a", "n", "(", "1", "a", ")">>),
                   u \in {<<>>, <<"x">>, <<"-">>}}

Direct0 == 0

Numerals ==
  [s : IntegerStrings, kind : {0, 10, 16, 36}, lim : {255, 128}, chunk : {Direct0, 1, 3}]
    \cup [s : FloatStrings, kind : {Float}, lim : {0}, chunk : {Direct0, 1, 3}]

Read(n) ==
  CASE n.kind = Float /\ n.chunk = Direct0 -> [y |-> 0, end |-> Strtox(n.s)]
    [] n.kind = Float /\ n.chunk # Direct0 ->
         [y |-> 0, end |-> WcstoxFloat(n.s, n.chunk)]
    [] n.kind # Float /\ n.chunk = Direct0 -> StrtoxInt(n.s, n.kind, n.lim)
    [] OTHER -> WcstoxInt(n.s, n.chunk, n.kind, n.lim)

ReadNumeral ==
  /\ answer = <<>>
  /\ answer' = <<Read(numeral)>>
  /\ UNCHANGED numeral

\* A value outside the range of its type becomes the nearest bound, and a
\* negative unsigned one wraps.
InRange(v, lim) ==
  CASE lim % 2 = 1 -> IF v > lim \/ v < -lim THEN lim ELSE v
    [] lim % 2 = 0 /\ v < -lim -> -lim
    [] lim % 2 = 0 /\ v > lim - 1 -> lim - 1
    [] OTHER -> v

-----------------------------------------------------------------------------
(* Floating-point numbers, of formats small enough that every figure, limb *)
(* and exponent there is gets used: what printf makes of one, what strtod  *)
(* and strtof make of a text, and the functions on the bits of a double.   *)

Printer == INSTANCE FloatText WITH
  DIGS <- 2, UP <- 6, BITS <- 7, MANT <- 7, MAXEXP <- 8, KMAX <- 16, GUARD <- 3, XDIGS <- 1
Scanner == INSTANCE FloatText WITH
  DIGS <- 2, UP <- 6, BITS <- 7, MANT <- 9, MAXEXP <- 8, KMAX <- 16, GUARD <- 3, XDIGS <- 1
Patterns == INSTANCE FloatText WITH
  DIGS <- 2, UP <- 6, BITS <- 7, MANT <- 3, MAXEXP <- 13, KMAX <- 16, GUARD <- 3, XDIGS <- 1

Doubles ==
  [m : {64, 65, 75, 80, 93, 96, 99, 100, 101, 115, 126, 127}, q : -18 .. 5, junk : {0, 107}]
    \cup [m : {0}, q : {0}, junk : {0, 107}]

\* Digits from the first that is not 0; some are those of a number halfway
\* between two of the format.
Halfway ==
  {<<1>>, <<2, 4>>, <<5, 1, 2>>, <<2, 5, 6>>, <<3, 9, 0, 6, 2, 5>>, <<1, 9, 5, 3, 1, 2, 5>>,
   <<1, 0, 2, 2>>, <<5, 1, 1>>, <<4, 7, 6, 8, 3, 7, 1, 5, 8, 2, 0, 3, 1, 2, 5>>,
   <<1, 4, 3, 0, 5, 1, 1, 4, 7, 4, 6, 0, 9, 3, 7, 5>>}
DecimalDigits ==
  {d \in UpTo({0, 1, 9}, 3) : d # <<>> => d[1] # 0}
    \cup {h \o t : h \in Halfway,
                   t \in {<<>>, <<5>>, <<0, 1>>, <<4, 9, 9>>, <<0, 0, 0, 0, 0, 0, 1>>}}
HexDigits == {d \in UpTo({0, 1, 7, 8}, 4) : d # <<>> => d[1] # 0}

\* Of double and of float: bits, and the exponent of the smallest number.
Formats == {<<9, -20>>, <<5, -16>>}

FloatCases ==
  [do : {"print"}, v : Doubles, t : {"e", "f", "g"}, p : {-1, 0, 1, 3}, alt : BOOLEAN]
    \cup [do : {"print a"}, v : Doubles, p : -1 .. 3, alt : BOOLEAN]
    \cup [do : {"read"}, ds : DecimalDigits, lrp : -8 .. 12 \cup {-39, -38}, to : Formats,
          neg : BOOLEAN]
    \cup [do : {"read x"}, ds : HexDigits, rp : {-1, 2}, exp : -32 .. 16, to : Formats]
    \cup [do : {"scale"}, x : 0 .. Patterns!InfBits, n : -40 .. 40]
    \cup [do : {"split"}, x : 0 .. Patterns!InfBits - 1]
    \cup [do : {"remainder"}, x : 0 .. Patterns!InfBits - 1, y : 1 .. Patterns!InfBits - 1]

Converted(n) ==
  CASE n.do = "print" -> Printer!Fmt_fp(n.v, n.t, n.p, n.alt)
    [] n.do = "print a" -> Printer!Fmt_a(n.v, n.p, n.alt)
    [] n.do = "read" -> Scanner!Decfloat(n.ds, n.lrp, n.to[1], n.to[2], n.neg)
    [] n.do = "read x" -> Scanner!Hexfloat(n.ds, n.rp, n.exp, n.to[1], n.to[2])
    [] n.do = "scale" -> Patterns!Scalbn(n.x, n.n)
    [] n.do = "split" -> Patterns!Frexp(n.x)
    [] n.do = "remainder" -> Patterns!Fmod(n.x, n.y)

ConvertFloat ==
  /\ answer = <<>>
  /\ answer' = <<Converted(numeral)>>
  /\ UNCHANGED numeral

RightlyConverted(n, r) ==
  CASE n.do = "print" -> Printer!PrintsNearest(n.v, n.t, IF n.p < 0 THEN 6 ELSE n.p, n.alt, r)
    [] n.do = "print a" -> Printer!PrintsHex(n.v, n.p, n.alt, r)
    [] n.do = "read" -> Scanner!ReadsDecimal(n.ds, n.lrp, n.to[1], n.to[2], n.neg, r)
    [] n.do = "read x" -> Scanner!ReadsHex(n.ds, n.rp, n.exp, n.to[1], n.to[2], r)
    [] n.do = "scale" -> Patterns!ScalesExactly(n.x, n.n, r)
    [] n.do = "split" -> Patterns!SplitsExactly(n.x, r)
    [] n.do = "remainder" -> Patterns!DividesExactly(n.x, n.y, r)

\* What the answer has to be: the end of the longest prefix that is a number.
RightlyRead(n, a, end) ==
  LET number == SubSeq(n.s, Blanks(n.s) + 1, end)
      values == IF n.lim % 2 = 1 THEN n.lim + 1 ELSE 2 * n.lim
  IN /\ a.end = end
     /\ n.kind # Float =>
          a.y % values
            = (IF end = 0 THEN 0 ELSE InRange(Value(number, n.kind), n.lim)) % values

\* Whatever pieces a string comes in, strto... and wcsto... take the longest
\* prefix that is a number, none if there is none, and give its value, or the
\* nearest of the type; and floating-point numbers are printed and read as the
\* nearest that there is (stdio.c:619-970, 2371-2657, 3201-3343).
NumbersExact ==
  /\ part = "strto" /\ answer # <<>> =>
       RightlyRead(numeral, answer[1], SubjectEnd(numeral.s, numeral.kind))
  /\ part = "floats" /\ answer # <<>> => RightlyConverted(numeral, answer[1])

-----------------------------------------------------------------------------
(* Pathname patterns over a small tree, and directories read in order.     *)

G == INSTANCE Glob WITH PATH_MAX <- 8, SIZE_MAX <- 31, SLOT <- 2, INT_MAX <- 5

Entry(name, node) == [name |-> name, node |-> node]
DotsOf(node, parent) == <<Entry(<<".">>, node), Entry(<<".", ".">>, parent)>>
Tree ==
  [root |-> "r", home |-> <<"a">>, typed |-> TRUE, locked |-> {}, broken |-> {},
   kind |-> [r |-> "dir", a |-> "dir", d |-> "dir", h |-> "dir", file |-> "reg",
             la |-> "lnk", lf |-> "lnk", ln |-> "lnk"],
   to |-> [la |-> "a", lf |-> "file", ln |-> "none"],
   entries |->
     [r |-> DotsOf("r", "r")
              \o <<Entry(<<"b">>, "file"), Entry(<<"a">>, "a"), Entry(<<".", "h">>, "h"),
                   Entry(<<"k">>, "lf"), Entry(<<"l">>, "la"), Entry(<<"n">>, "ln")>>,
      a |-> DotsOf("a", "r")
              \o <<Entry(<<"b">>, "file"), Entry(<<"a", "*">>, "d"), Entry(<<"]">>, "file")>>,
      d |-> DotsOf("d", "a"),
      h |-> DotsOf("h", "r") \o <<Entry(<<"a">>, "file")>>]]

Trees ==
  {[Tree EXCEPT !.typed = y, !.locked = l, !.broken = b] :
     y \in BOOLEAN, l \in {{}, {"a"}}, b \in {{}, {"a"}, {"r"}}}
    \cup {[Tree EXCEPT !.home = h] :
            h \in {<<"NULL">>, <<>>, <<"/">>, <<"a", "/", ".", "/", ".">>,
                   <<"a", "/", ".", "/", ".", ".">>, <<"a", "/", ".", "/", ".", ".", "/">>}}

GlobPatterns ==
  {<<>>, <<"*">>, <<"*", "/">>, <<"a">>, <<"a", "/">>, <<"b", "/">>, <<"x">>, <<"*", "/", "*">>,
   <<"?", "/", "b">>, <<"a", "/", "*">>, <<".", "*">>, <<"*", "/", ".">>, <<".", "*", "/", "*">>,
   <<"[", "a", "b", "]">>, <<"[", "a", "b">>, <<"[", "a", "/", "b", "]">>, <<"\\", "a">>,
   <<"*", "/", "a", "\\", "*">>, <<"a", "\\">>, <<"*", "\\", "/", "b">>, <<"a", "\\", "/", "*">>,
   <<"/", "/", "a">>, <<"/", "*", "/", "/", "b">>, <<"l", "/", "*">>, <<"n", "/", "*">>,
   <<"b", "/", "*">>, <<"a", "/", "[", "\\", "]", "]">>, <<"~">>, <<"~", "/", "*">>,
   <<"~", "a", "/", "b">>, <<"*", "/", ".", ".", "/", "*">>, <<"*", "/", "a", "*", "/", ".", ".">>,
   <<"a", "/", ".", "/", ".", "/", "b">>, <<"a", "/", ".", "/", ".", "/", "/", "b">>,
   <<"/", "/", "/", "/", "/", "/", "/", "/", "a">>, <<"*", "*", "\\", "\\", "/", "*">>,
   <<"[", "a", "a", "a", "a", "a", "a", "a", "a", "]">>, <<"a", "a", "a", "a", "a", "a", "a", "a">>}

Call(pattern, flags, stop, mem) ==
  [pattern |-> pattern, flags |-> flags, stop |-> stop, mem |-> mem]
Ample == 99
Modes ==
  {[flags |-> {}, stop |-> FALSE], [flags |-> {"NOSORT", "NOCHECK"}, stop |-> TRUE],
   [flags |-> {"ERR", "TILDE", "DOOFFS"}, stop |-> FALSE],
   [flags |-> {"NOCHECK", "TILDE"}, stop |-> FALSE]}

GlobCases ==
  [do : {"glob"}, t : Trees, offs : {2}, first : {Call(<<>>, {}, FALSE, Ample)},
   second : {Call(q, u \cup v.flags, v.stop, Ample) :
               q \in GlobPatterns, u \in SUBSET {"MARK", "PERIOD", "NOESCAPE"}, v \in Modes}]
    \cup [do : {"glob"}, t : {Tree, [Tree EXCEPT !.broken = {"a"}]}, offs : {0, 1, 13, 14, 15, 31},
          first : {Call(q, {"DOOFFS"}, FALSE, Ample) : q \in {<<"a">>, <<"x">>}},
          second : {Call(q, {"DOOFFS", "APPEND"} \cup u, FALSE, n) :
                      q \in {<<"*">>, <<"a", "/", "*">>, <<"x">>, <<>>},
                      u \in SUBSET {"NOCHECK", "ERR", "NOSORT"},
                      n \in {0, 1, 2, 3, 6, 7, 8, 11, 12, Ample}}]
ScanDirCases ==
  [do : {"scandir"}, t : {Tree, [Tree EXCEPT !.broken = {"a"}], [Tree EXCEPT !.locked = {"a"}]},
   path : {<<"a">>, <<"l">>, <<"b">>, <<"x">>, <<"/">>, <<>>},
   names : SUBSET {<<"b">>, <<".">>, <<".", ".">>, <<"k">>, <<"a">>, <<"n">>, <<"]">>},
   ordered : BOOLEAN, mem : {0, 1, 2, 3, 4, 5, 9, Ample}]
SortCases ==
  [do : {"sort"},
   s : UpTo({<<"a">>, <<"b">>, <<"b", "a">>}, 5) \cup [1 .. 6 -> {<<"a">>, <<"b">>}]
         \cup {[k \in 1 .. 7 |-> <<G!Order[8 - k]>>]}]

Looked(n) ==
  CASE n.do = "glob" ->
         LET r == G!Glob(n.t, G!Fresh(n.offs), n.first)
         IN <<r, G!Glob(n.t, r.g, n.second), G!Globfree(r.g)>>
    [] n.do = "scandir" -> <<G!ScanDir(n.t, n.path, n.names, n.ordered, n.mem)>>
    [] n.do = "sort" -> <<G!Sorted(n.s)>>

LookUp ==
  /\ answer = <<>>
  /\ answer' = Looked(numeral)
  /\ UNCHANGED numeral

\* glob finds what its pattern describes, whatever slashes, escapes, brackets,
\* links, unreadable directories and short buffers there are, adds it to what
\* was there and leaves that alone if memory ends; scandir likewise gives all
\* or nothing; and their sort sorts (mlib/glob.c:61-372, mlib/scandir.c:32-156).
PathsExact ==
  part = "glob" /\ answer # <<>> =>
    CASE numeral.do = "glob" ->
           /\ G!GlobExact(numeral.t, G!Fresh(numeral.offs), numeral.first, answer[1])
           /\ G!GlobExact(numeral.t, answer[1].g, numeral.second, answer[2])
           /\ answer[3] = G!Fresh(answer[1].g.offs)
      [] numeral.do = "scandir" ->
           G!ScanDirExact(numeral.t, numeral.path, numeral.names, numeral.ordered, numeral.mem,
                          answer[1])
      [] numeral.do = "sort" -> G!SortExact(numeral.s, answer[1])

\* Both: what is computed in one go is what it should be.
AnswersExact == NumbersExact /\ PathsExact

-----------------------------------------------------------------------------
(* scanf: two text directives over two-byte characters and blanks, or two  *)
(* number directives over what looks like numbers.                         *)

D == [op |-> "space", ch |-> "a", t |-> "s", base |-> 0, width |-> 0, m |-> FALSE,
      drop |-> FALSE, long |-> FALSE, set |-> {}]

TextDirectives ==
  {D, [D EXCEPT !.op = "lit"], [D EXCEPT !.op = "pct"], [D EXCEPT !.op = "count"],
   [D EXCEPT !.op = "text"], [D EXCEPT !.op = "text", !.m = TRUE],
   [D EXCEPT !.op = "text", !.m = TRUE, !.t = "c", !.width = 2],
   [D EXCEPT !.op = "text", !.t = "[", !.set = {"a", "L", "T", "W"}, !.width = 2,
             !.drop = TRUE],
   [D EXCEPT !.op = "text", !.long = TRUE, !.m = TRUE, !.width = 3]}

NumberDirectives ==
  {D, [D EXCEPT !.op = "lit", !.ch = "x"], [D EXCEPT !.op = "number"],
   [D EXCEPT !.op = "number", !.base = 16, !.width = 2],
   [D EXCEPT !.op = "number", !.base = 10, !.width = 1],
   [D EXCEPT !.op = "number", !.base = Float]}

TextInputs ==
  Joined({<<" ">>, <<"a">>, <<"L", "T">>}, 3) \cup {<<"T">>, <<"a", "L">>, <<"L", "a">>}
NumberInputs == UpTo({" ", "-", "0", "x", "1"}, 3)

S == INSTANCE FormatScan WITH
       Formats <- UpTo(TextDirectives, 2) \cup UpTo(NumberDirectives, 2),
       Inputs <- TextInputs \cup NumberInputs,
       Chunks <- {0, 1, 3}

ScanInit ==
  /\ S!ScanInit
  /\ (\A k \in DOMAIN fmt : fmt[k] \in NumberDirectives) <=> f.src \in NumberInputs

\* The count is exact, every directive takes what the standard says, no buffer
\* of %m is lost, and the wide core keeps its hands off those it has given away
\* (stdio.c:2779-3130, 4992-5343).
ScanSafe ==
  /\ [](part = "scan" =>
          S!CountExact /\ S!NoBufferLost /\ (wide => S!GivenStaysLive))
  /\ [][part = "scan" => S!ConsumesWhatItShould]_<<f, p, ended, matches>>

\* stdio.c:2052 "Root scanf preserves POSIX malloc ownership", of both cores.
GivenStaysLive == part = "scan" => S!GivenStaysLive

-----------------------------------------------------------------------------
(* printf: single directives with every flag, width and precision, short   *)
(* formats with %n, invalid directives and numbered arguments.             *)

None == -1
Star == -2
Over == -3
Plain == [t |-> "d", fl |-> {}, w |-> None, p |-> None, n |-> 0, wn |-> 0, pn |-> 0,
          text |-> <<>>]

Flagged ==
  {[Plain EXCEPT !.t = t, !.fl = fl, !.w = w, !.p = q] :
     t \in {"d", "x", "o"}, fl \in {{}, {"-"}, {"0"}, {"#"}, {"0", "-"}, {"+", "#", "0"}},
     w \in {None, 4}, q \in {None, 0, 3}}
Edges ==
  {[Plain EXCEPT !.t = t, !.w = w, !.p = q] :
     t \in {"d", "u", "s", "S"}, w \in {None, Star, 11, Over}, q \in {None, Star, 11, Over}}
Texts ==
  {[Plain EXCEPT !.t = t, !.w = w, !.p = q, !.fl = fl] :
     t \in {"s", "S", "c"}, w \in {None, 4}, q \in {None, 0, 1, 2}, fl \in {{}, {"-"}}}
Others ==
  {[Plain EXCEPT !.t = "lit", !.text = <<"a", "b">>], [Plain EXCEPT !.t = "n"],
   [Plain EXCEPT !.t = "m"], [Plain EXCEPT !.t = "bad"]}
Numbered ==
  {[Plain EXCEPT !.n = 1], [Plain EXCEPT !.n = 2, !.t = "s"],
   [Plain EXCEPT !.n = 3, !.w = Star, !.wn = 1],
   [Plain EXCEPT !.t = "S", !.n = 2, !.w = Star], [Plain EXCEPT !.t = "m", !.n = 1],
   [Plain EXCEPT !.t = "u", !.n = 3, !.p = Star, !.pn = 2]}
Common == {[Plain EXCEPT !.w = 4], [Plain EXCEPT !.t = "s"], [Plain EXCEPT !.t = "S", !.p = 2]}

PrintFormats ==
  LET short == Common \cup Others \cup Numbered
  IN {<<d>> : d \in Flagged \cup Edges \cup Texts \cup short}
       \cup [1 .. 2 -> short]
       \cup {<<d, e, g>> : d \in Others, e \in Common \cup Edges, g \in Others}

Argument(n, s) == [i |-> n, s |-> s]
Twelve == [k \in 1 .. 12 |-> "a"]
Arguments ==
  {<<Argument(5, <<"a", "W">>), Argument(-3, <<"W", "a">>), Argument(2, <<"a">>),
     Argument(0, <<>>), Argument(0, <<>>), Argument(0, <<>>)>>,
   <<Argument(0, <<"a", "x", "a">>), Argument(0, <<"W", "x">>), Argument(11, <<>>),
     Argument(3, <<"W">>), Argument(0, <<>>), Argument(0, <<>>)>>,
   <<Argument(-11, Twelve), Argument(4, <<"W", "W", "W", "W", "W", "W">>),
     Argument(-1, <<>>), Argument(10, <<"W">>), Argument(0, <<>>), Argument(0, <<>>)>>}

P == INSTANCE FormatPrint WITH
       Formats <- PrintFormats, Rooms <- {0, 1, 3, 6, 11, 12}, Failures <- {0, 1, 2},
       BUF <- 3, PAD <- 2, INT_MAX <- 11

\* printf prints and returns what its format says, or fails where it must; what
\* is out is the beginning of that, %n counts it, and an earlier error of the
\* stream is neither taken for one of this call nor forgotten
\* (stdio.c:990-1394, 4460-4854).
PrintSafe ==
  part = "print" =>
    P!PrintExact /\ P!PrefixOnly /\ P!StoredExact /\ P!OldErrorKept

-----------------------------------------------------------------------------
(* Multibyte strings of up to four characters.  BULK and WBUF are scaled   *)
(* down so that a call converts in bulk, and fills its buffer, at all.     *)

M == INSTANCE Multibyte WITH
       MaxChars <- 4, Rooms <- 1 .. 4, Lengths <- {0, 1, 2, 4, 9, 12},
       BULK <- 1, WBUF <- 8

ASSUME M!MultibyteConstants

C == INSTANCE Iconv WITH
       MaxChars <- 2, Windows <- {1, 3, 4, 12}, Rooms <- {0, 2, 3, 12}, MaxSkips <- 1,
       MaxRuns <- 2

\* A conversion cut into calls is the conversion of the whole, counting agrees
\* with storing, and calls keep to their bounds and get on; and iconv stops
\* where, and for the reason, it says (multibyte.c:109-555, iconv.go:197-357).
MultibyteSafe ==
  /\ part = "multibyte" => M!Restartable /\ M!CountAgrees /\ M!BoundedCalls
  /\ part = "iconv" => C!ConversionExact /\ C!StopsRightly /\ C!CountsSubstitutes

-----------------------------------------------------------------------------
(* Wide characters through a FILE of two characters, good or bad, or more. *)

W == INSTANCE WideStream WITH
       Files <- Joined({<<"a">>, <<"n">>, <<"2", "T">>, <<"4", "T", "T", "T">>, <<"x">>,
                        <<"4", "T">>}, 2)
                  \cup {<<"a", "2", "T", "4", "T", "T", "T">>, <<"2", "T", "4", "T", "a">>},
       BUF <- 4, UNGET <- 4, MaxCalls <- 4

\* No character, and no half of a pair, is lost, doubled or invented on its way
\* through the buffer, the slot and the bytes put back (stdio.c:4139-4432).
WideSafe ==
  /\ [](part = "wide" => W!AheadExact /\ W!WritesWhole)
  /\ [][part = "wide" => W!InOrder]_<<f, result, calls>>

-----------------------------------------------------------------------------
(* The parts                                                               *)

Idle == "idle"

NoStrto == numeral = Idle /\ answer = Idle
NoScan ==
  /\ managed = Idle /\ p = Idle /\ pos = Idle /\ matches = Idle /\ alloc = Idle
  /\ block = Idle /\ live = Idle /\ given = Idle /\ nomem = Idle /\ ended = Idle
NoPrint ==
  /\ args = Idle /\ sink = Idle /\ pass = Idle /\ i = Idle /\ ap = Idle /\ l10n = Idle
  /\ cnt = Idle /\ olderr = Idle /\ ret = Idle /\ stored = Idle
NoMultibyte ==
  /\ dir = Idle /\ chars = Idle /\ at = Idle /\ st = Idle /\ out = Idle /\ errno = Idle
NoIconv ==
  /\ to = Idle /\ source = Idle /\ cd = Idle /\ subs = Idle /\ last = Idle /\ base = Idle
  /\ errs = Idle /\ skips = Idle /\ runs = Idle
NoWide ==
  /\ result = Idle /\ calls = Idle /\ reading = Idle /\ ahead = Idle /\ put = Idle

MCInit ==
  /\ part \in Parts
  /\ \/ /\ \/ part = "strto" /\ numeral \in Numerals
           \/ part = "floats" /\ numeral \in FloatCases
           \/ part = "glob" /\ numeral \in GlobCases \cup ScanDirCases \cup SortCases
        /\ answer = <<>>
        /\ wide = Idle /\ fmt = Idle /\ f = Idle /\ utf16 = Idle /\ from = Idle
        /\ NoScan /\ NoPrint /\ NoMultibyte /\ NoIconv /\ NoWide
     \/ /\ part = "scan" /\ ScanInit
        /\ utf16 = Idle /\ from = Idle
        /\ NoStrto /\ NoPrint /\ NoMultibyte /\ NoIconv /\ NoWide
     \/ /\ part = "print" /\ P!PrintInit
        /\ utf16 = Idle /\ from = Idle
        /\ NoStrto /\ NoScan /\ NoMultibyte /\ NoIconv /\ NoWide
     \/ /\ part = "multibyte" /\ M!MbInit
        /\ wide = Idle /\ fmt = Idle /\ f = Idle /\ from = Idle
        /\ NoStrto /\ NoScan /\ NoPrint /\ NoIconv /\ NoWide
     \/ /\ part = "iconv" /\ C!IconvInit
        /\ wide = Idle /\ fmt = Idle /\ f = Idle /\ utf16 = Idle /\ dir = Idle /\ chars = Idle
        /\ NoStrto /\ NoScan /\ NoPrint /\ NoWide
     \/ /\ part = "wide" /\ W!WideInit
        /\ wide = Idle /\ fmt = Idle
        /\ NoStrto /\ NoScan /\ NoPrint /\ NoMultibyte /\ NoIconv

MCNext ==
  /\ UNCHANGED part
  /\ \/ /\ \/ part = "strto" /\ ReadNumeral
           \/ part = "floats" /\ ConvertFloat
           \/ part = "glob" /\ LookUp
        /\ UNCHANGED <<wide, fmt, f, utf16, from>>
        /\ UNCHANGED <<scanOwn, printOwn, multibyteOwn, iconvOwn, wideOwn>>
     \/ /\ part = "scan" /\ S!ScanNext
        /\ UNCHANGED <<utf16, from, strtoOwn, printOwn, multibyteOwn, iconvOwn, wideOwn>>
     \/ /\ part = "print" /\ P!PrintNext
        /\ UNCHANGED <<utf16, from, strtoOwn, scanOwn, multibyteOwn, iconvOwn, wideOwn>>
     \/ /\ part = "multibyte" /\ M!MbNext
        /\ UNCHANGED <<wide, fmt, f, from, strtoOwn, scanOwn, printOwn, iconvOwn, wideOwn>>
     \/ /\ part = "iconv" /\ C!IconvNext
        /\ UNCHANGED <<wide, fmt, f, utf16, dir, chars, strtoOwn, scanOwn, printOwn, wideOwn>>
     \/ /\ part = "wide" /\ W!WideNext
        /\ UNCHANGED <<wide, fmt, strtoOwn, scanOwn, printOwn, multibyteOwn, iconvOwn>>

MCSpec == MCInit /\ [][MCNext]_allVars
=============================================================================
