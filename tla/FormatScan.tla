----------------------------- MODULE FormatScan -----------------------------
(***************************************************************************)
(* One call of the scanf family: vfscanf_core and its wide twin            *)
(* vfwscanf_core (csrc/stdio.c), which share their number scanners and     *)
(* their way of allocating for %m, but not the way they read: the narrow   *)
(* one limits and counts bytes with shlim and shgetc, the wide one takes   *)
(* characters with getwc and counts them itself.  A step handles one       *)
(* directive of the format.                                                *)
(*                                                                         *)
(* The format is a sequence of parsed directives, each a record:           *)
(*   op       "space", "lit", "pct" (%%), "text", "number" or "count" (%n) *)
(*   ch       the character a "lit" or "pct" matches                       *)
(*   t        of a text "c", "s" or "["                                    *)
(*   base     of a number, or Float                                        *)
(*   width, m, drop, long     the field width, %m, %* and %l               *)
(*   set      what "[" accepts                                             *)
(* An input character is one byte, or the pair "L", "T" for one that takes *)
(* two; wchar_t is UTF-32.  The buffer of %m is named by the number of its *)
(* directive, and starts with room for one character.                      *)
(***************************************************************************)
EXTENDS ScanStream, FiniteSets

CONSTANTS Formats, Inputs, Chunks

VARIABLES
  wide,       \* the wide core?
  managed,    \* managed_results: does gc_malloc serve %m?
  fmt, p,     \* the format, and the directive to handle next
  f,          \* the stream
  pos,        \* bytes, or wide characters, that the directives so far took
  matches,    \* what the call will return
  alloc,      \* who owns the buffer of %m: "none", "libc" or "gc"
  block,      \* that buffer (s or wcs), 0 for NULL
  live,       \* ghost: buffers allocated and not freed
  given,      \* ghost: buffers stored where the caller asked for them
  nomem,      \* ghost: an allocation failed
  ended

call == <<wide, managed, fmt>>
scanVars == <<call, p, f, pos, matches, alloc, block, live, given, nomem, ended>>

Characters == Bytes \cup {"W"}

\* What a text takes: scanset, or set and invert.
Accepts(d) ==
  CASE d.t = "c" -> Characters [] d.t = "s" -> Characters \ Space [] OTHER -> d.set

Width(d) == IF d.op = "text" /\ d.t = "c" /\ d.width < 1 THEN 1 ELSE d.width
KeepsBlanks(d) == d.op = "text" /\ d.t \in {"c", "["}

\* What a directive comes to: the stream, how many units it took, and "ok", or
\* the failure of the input or of the match.
Result(g, n, out) == [f |-> g, n |-> n, out |-> out]

-----------------------------------------------------------------------------
(* vfscanf_core                                                            *)

SkipBlanks(g) == Shunget(While(Shgetc(Shlim(g, 0)), Space).f)

RECURSIVE Take(_, _, _), WideWhile(_, _, _), WideTake(_, _, _, _)

NarrowSpace(g) == Result(SkipBlanks(g), Shcnt(SkipBlanks(g)), "ok")

NarrowLiteral(g, d) ==
  LET first == Shgetc(Shlim(g, 0))
      c == IF d.op = "pct" THEN While(first, Space) ELSE first
  IN IF c.c = d.ch THEN Result(c.f, Shcnt(c.f), "ok")
     ELSE Result(Shunget(c.f), 0, IF c.c = EOF THEN "input" ELSE "match")

\* __mbrtoc32 byte by byte, for %l: st is "whole" or "part" of a character.
Decode(st, c) ==
  CASE st = "bytes" -> "bytes"
    [] st = "part" -> IF c = "T" THEN "whole" ELSE "bad"
    [] c = "L" -> "part" [] c = "T" -> "bad" [] OTHER -> "whole"

Take(g, S, st) ==
  IF g.c \notin S THEN [f |-> g.f, st |-> st]
  ELSE IF Decode(st, g.c) = "bad" THEN [f |-> g.f, st |-> "bad"]
  ELSE Take(Shgetc(g.f), S, Decode(st, g.c))

NarrowText(g, d) ==
  LET item == Take(Shgetc(g), Accepts(d), IF d.long THEN "whole" ELSE "bytes")
      h == Shunget(item.f)
  IN IF item.st \in {"part", "bad"} THEN Result(item.f, 0, "input")
     ELSE Result(h, Shcnt(h),
            IF Shcnt(h) = 0 \/ (d.t = "c" /\ Shcnt(h) # Width(d)) THEN "match" ELSE "ok")

\* The numbers of both cores: __intscan and __floatscan without taking back
\* more than a byte.
Number(g, d) ==
  LET h == IF d.base = Float THEN Floatscan(g, FALSE).f
           ELSE Intscan(g, d.base, FALSE, ULLONG_MAX).f
  IN Result(h, Shcnt(h), IF Shcnt(h) = 0 THEN "match" ELSE "ok")

\* Every conversion looks at the first character before it does anything else.
NarrowStart(g, d) ==
  LET start == IF KeepsBlanks(d) THEN Shlim(g, 0) ELSE SkipBlanks(g)
      peek == Shgetc(Shlim(start, Width(d)))
  IN [f |-> Shunget(peek.f), c |-> peek.c, n |-> Shcnt(start)]

-----------------------------------------------------------------------------
(* vfwscanf_core                                                           *)

\* getc_unlocked: not limited by shend.
Getc(g) ==
  IF g.rpos # g.rend \/ Consumed(g) < Len(g.src)
  THEN [f |-> IF g.rpos # g.rend THEN [g EXCEPT !.rpos = @ + 1] ELSE Uflow(g),
        c |-> g.src[Consumed(g) + 1]]
  ELSE [f |-> Uflow(g), c |-> EOF]

\* getwc: from the buffer, or assembled over its end.  An illegal sequence is
\* WEOF too, and the byte that made it illegal is taken back if it is not the
\* first one.
Getwc(g) ==
  LET a == Getc(g)
      b == Getc(a.f)
  IN CASE a.c = "L" /\ b.c = "T" -> [f |-> b.f, c |-> "W"]
       [] a.c = "L" /\ b.c = EOF -> [f |-> b.f, c |-> EOF]
       [] a.c = "L" /\ b.c \notin {"T", EOF} ->
            [f |-> [b.f EXCEPT !.rpos = @ - 1], c |-> EOF]
       [] a.c = "T" -> [f |-> a.f, c |-> EOF]
       [] OTHER -> a

Ungetwc(g, c) ==
  CASE c = EOF -> g [] c = "W" -> [g EXCEPT !.rpos = @ - 2]
    [] OTHER -> [g EXCEPT !.rpos = @ - 1]

WideWhile(g, S, n) ==
  IF g.c \in S THEN WideWhile(Getwc(g.f), S, n + 1)
  ELSE [f |-> g.f, c |-> g.c, n |-> n]

WideSpace(g) ==
  LET w == WideWhile(Getwc(g), Space, 0) IN Result(Ungetwc(w.f, w.c), w.n, "ok")

WideLiteral(g, d) ==
  LET w == WideWhile(Getwc(g), IF d.op = "pct" THEN Space ELSE {}, 0)
  IN IF w.c = d.ch THEN Result(w.f, w.n + 1, "ok")
     ELSE Result(Ungetwc(w.f, w.c), w.n, IF w.c = EOF THEN "input" ELSE "match")

\* At most left characters of S; a negative left is no limit.
WideTake(g, S, left, n) ==
  LET w == Getwc(g)
  IN IF left = 0 THEN [f |-> g, n |-> n, full |-> TRUE]
     ELSE IF w.c \notin S THEN [f |-> Ungetwc(w.f, w.c), n |-> n, full |-> FALSE]
     ELSE WideTake(w.f, S, IF left > 0 THEN left - 1 ELSE left, n + 1)

WideText(g, d) ==
  LET r == WideTake(g, Accepts(d), IF Width(d) < 1 THEN -1 ELSE Width(d), 0)
  IN Result(r.f, r.n, IF ~r.full /\ (d.t = "c" \/ r.n = 0) THEN "match" ELSE "ok")

WideStart(g, d) ==
  LET w == WideWhile(Getwc(g), IF KeepsBlanks(d) THEN {} ELSE Space, 0)
  IN [w EXCEPT !.f = Ungetwc(w.f, w.c)]

-----------------------------------------------------------------------------
(* The call                                                                *)

\* string_read, the read function of a file, wstring_read: the input comes in
\* pieces, one piece for a string.
ScanInit ==
  /\ wide \in BOOLEAN /\ managed \in BOOLEAN
  /\ fmt \in Formats /\ p = 1
  /\ \E src \in Inputs, chunk \in Chunks : f = Stream(src, chunk)
  /\ pos = 0 /\ matches = 0
  /\ alloc = "none" /\ block = 0
  /\ live = {} /\ given = {} /\ nomem = FALSE
  /\ ended = FALSE

Freed_Kept(blocks, b) == blocks \ {0}
Freed(blocks, b) == blocks \ {0, b}

\* fmt_fail, alloc_fail, input_fail and match_fail: -1 if nothing was converted
\* before the input gave out, and the buffer of %m is freed.
Fail(out, owner, b) ==
  /\ ended' = TRUE
  /\ matches' = IF out = "input" /\ matches = 0 THEN -1 ELSE matches
  /\ live' = IF owner = "libc" THEN Freed(live \cup {b}, b) ELSE live

\* Only the wide core resets alloc before a directive that converts nothing.
AllocAtTop_Kept(w) == alloc
AllocAtTop(w) == IF w THEN "none" ELSE alloc

Plain(r) ==
  /\ f' = r.f
  /\ alloc' = AllocAtTop(wide)
  /\ IF r.out = "ok"
     THEN /\ pos' = pos + r.n /\ p' = p + 1
          /\ UNCHANGED <<matches, live, ended>>
     ELSE Fail(r.out, AllocAtTop(wide), block) /\ UNCHANGED <<pos, p>>
  /\ UNCHANGED <<call, block, given, nomem>>

At(op) == ~ended /\ p <= Len(fmt) /\ fmt[p].op = op

Blank == At("space") /\ Plain(IF wide THEN WideSpace(f) ELSE NarrowSpace(f))

Literal ==
  /\ At("lit") \/ At("pct")
  /\ Plain(IF wide THEN WideLiteral(f, fmt[p]) ELSE NarrowLiteral(f, fmt[p]))

Owner(d) == IF ~d.m \/ d.drop THEN "none" ELSE IF managed THEN "gc" ELSE "libc"

Count ==
  /\ At("count")
  /\ alloc' = "none" /\ p' = p + 1
  /\ UNCHANGED <<call, f, pos, matches, block, live, given, nomem, ended>>

Start(d) == IF wide THEN WideStart(f, d) ELSE NarrowStart(f, d)

\* What a conversion comes to after its first character; fails says whether the
\* buffer of %m cannot be had, or cannot grow after one character.
Converted(g, d, fails) ==
  CASE fails = "malloc" -> Result(g, 0, "input")
    [] fails = "growth" -> Result(IF wide THEN Getwc(g).f ELSE Shgetc(g).f, 0, "input")
    [] d.op = "number" -> Number(IF wide THEN Shlim(g, d.width) ELSE g, d)
    [] OTHER -> IF wide THEN WideText(g, d) ELSE NarrowText(g, d)

Finish(d, start, r, b) ==
  /\ f' = r.f
  /\ alloc' = Owner(d) /\ block' = b
  /\ IF r.out = "ok"
     THEN /\ pos' = pos + start.n + r.n /\ p' = p + 1
          /\ matches' = IF d.drop THEN matches ELSE matches + 1
          /\ live' = live \cup ({b} \ {0}) /\ given' = given \cup ({b} \ {0})
          /\ UNCHANGED ended
     ELSE Fail(r.out, Owner(d), b) /\ UNCHANGED <<pos, p, given>>

\* start is where the conversion begins and its first character.
ConvertFrom(d, start, fails) ==
  LET allocates == d.op = "text" /\ Owner(d) # "none" /\ start.c # EOF
  IN /\ fails # "no" => allocates
     /\ nomem' = (fails # "no")
     /\ Finish(d, start,
               IF start.c = EOF THEN Result(start.f, 0, "input")
               ELSE Converted(start.f, d, fails),
               IF allocates /\ fails # "malloc" THEN p ELSE 0)
     /\ UNCHANGED call

Convert(fails) ==
  /\ At("text") \/ At("number")
  /\ ConvertFrom(fmt[p], Start(fmt[p]), fails)

End ==
  /\ ~ended /\ p > Len(fmt)
  /\ ended' = TRUE
  /\ UNCHANGED <<call, p, f, pos, matches, alloc, block, live, given, nomem>>

ScanNext ==
  \/ Blank \/ Literal \/ Count \/ End
  \/ \E fails \in {"no", "malloc", "growth"} : Convert(fails)

ScanSpec == ScanInit /\ [][ScanNext]_scanVars

-----------------------------------------------------------------------------
(* What the standard promises                                              *)

WellFormed(src) ==
  \A i \in 1 .. Len(src) :
    /\ src[i] = "T" => i > 1 /\ src[i - 1] = "L"
    /\ src[i] = "L" => i < Len(src) /\ src[i + 1] = "T"

\* The input in the units the core counts, and how many of them are consumed.
Text ==
  IF ~wide THEN f.src
  ELSE LET chars == SelectSeq(f.src, LAMBDA c : c # "T")
       IN [i \in 1 .. Len(chars) |-> IF chars[i] = "L" THEN "W" ELSE chars[i]]

Units(g) ==
  Consumed(g) -
    (IF wide THEN Cardinality({i \in 1 .. Consumed(g) : g.src[i] = "T"}) ELSE 0)

\* How far a directive reads from position q, and how it ends, by the letter of
\* fscanf's specification.
Promised(d, q) ==
  LET rest == SubSeq(Text, q + 1, Len(Text))
      skip == IF d.op \in {"lit", "count"} \/ KeepsBlanks(d) THEN 0 ELSE Blanks(rest)
      item == SubSeq(rest, skip + 1,
                IF Width(d) > 0 /\ skip + Width(d) < Len(rest)
                THEN skip + Width(d) ELSE Len(rest))
      taken == IF d.op = "number" THEN ItemEnd(item, d.base)
               ELSE CHOOSE i \in 0 .. Len(item) :
                      /\ \A j \in 1 .. i : item[j] \in Accepts(d)
                      /\ i < Len(item) => item[i + 1] \notin Accepts(d)
      whole == IF d.op = "number" THEN IsNumber(SubSeq(item, 1, taken), d.base)
               ELSE taken > 0 /\ (d.t = "c" => taken = Width(d))
  IN CASE d.op = "count" \/ d.op = "space" -> [to |-> q + skip, out |-> "ok"]
       [] skip = Len(rest) -> [to |-> q + skip, out |-> "input"]
       [] d.op \in {"lit", "pct"} ->
            IF rest[skip + 1] = d.ch THEN [to |-> q + skip + 1, out |-> "ok"]
            ELSE [to |-> q + skip, out |-> "match"]
       [] OTHER -> [to |-> q + skip + taken, out |-> IF whole THEN "ok" ELSE "match"]

-----------------------------------------------------------------------------
(* Properties                                                              *)

\* The count %n stores is what was consumed, whatever was read ahead, limited
\* and taken back on the way (stdio.c shcnt; C11 7.21.6.2).
CountExact == ended \/ (wide /\ ~WellFormed(f.src)) \/ pos = Units(f)

\* A directive consumes what the standard says, no byte more or less, and ends
\* as it says: over every refill of the buffer, field width and byte taken
\* back.  (Not for %l in the narrow core, where an incomplete character ends
\* the item, nor where the input is not valid UTF-8.)
ConsumesWhatItShould ==
  LET d == fmt[p]
      r == Promised(d, Units(f))
      exempt == nomem' \/ (~wide /\ d.op = "text" /\ d.long) \/ (wide /\ ~WellFormed(f.src))
  IN ~ended /\ p <= Len(fmt) /\ ~exempt =>
       /\ Units(f') = r.to
       /\ ended' = (r.out # "ok")
       /\ ended' => matches' = IF r.out = "input" /\ matches = 0 THEN -1 ELSE matches

ScanExact == [][ConsumesWhatItShould]_scanVars

\* A buffer that is not the caller's is freed before the call returns, whichever
\* way it fails.
NoBufferLost == live \subseteq given

\* stdio.c:2052: "Root scanf preserves POSIX malloc ownership".  A buffer the
\* caller was given stays allocated until the caller frees it.
GivenStaysLive == given \subseteq live
=============================================================================
