------------------------------- MODULE Iconv --------------------------------
(***************************************************************************)
(* iconv_open, iconv and iconv_close (iconv.go, csrc/iconv.c) over the     *)
(* decoders and encoders of golang.org/x/text.  Those are lenient: a       *)
(* malformed sequence becomes U+FFFD and never an error, so this code      *)
(* finds out again what was malformed, and where.                          *)
(*                                                                         *)
(* A program converts one string in calls that give it as much input and   *)
(* room as it likes; after EILSEQ it may skip the malformed part, and at   *)
(* any end it may reset the descriptor and convert the string again.       *)
(*                                                                         *)
(* In UTF-8 "a" is ASCII, "2" begins a character of two bytes, "EF" U+FFFD *)
(* and "x" none.  "gbk" stands for the codesets without a state that       *)
(* cannot express U+FFFD, "utf16le" for those that can, and "utf16" has a  *)
(* byte order mark, which the decoder remembers.                           *)
(***************************************************************************)
EXTENDS Integers, Sequences, SequencesExt, FiniteSetsExt

CONSTANTS
  MaxChars,    \* characters in the string
  Windows,     \* input a call may be given
  Rooms,       \* room for output
  MaxSkips, MaxRuns

VARIABLES
  from, to,    \* the codesets of iconv_open
  source,      \* ghost: the string
  cd,          \* "none", "open" or "closed"
  st,          \* of the transformer: is a byte order mark due, and which order
  at, out,     \* *inbuf, and what the calls have stored
  errno, subs,
  last,        \* ghost: the last call: where it began, and its window and room
  base,        \* ghost: where the program went on, and what it had then
  errs, skips, runs   \* ghost: EILSEQ so far, and what the program did

iconvVars ==
  <<from, to, source, cd, st, at, out, errno, subs, last, base, errs, skips, runs>>

Fffd == <<"EF", "BF", "BD">>
Cont == {"T", "BF", "BD"}
Order == <<"fe", "ff">>
Smaller(a, b) == IF a < b THEN a ELSE b

-----------------------------------------------------------------------------
(* The first character of s, as each codeset has it: its length and its    *)
(* text in UTF-8.                                                          *)

Ok(len, text) == [kind |-> "ok", len |-> len, text |-> text]
Bad(len) == [kind |-> "bad", len |-> len, text |-> Fffd]
More == [kind |-> "more", len |-> 0, text |-> <<>>]

\* As utf8.DecodeRune and utf8.FullRune see it.
Utf8Of(s, size) ==
  IF \E k \in 2 .. Smaller(size, Len(s)) : s[k] \notin Cont THEN Bad(1)
  ELSE IF Len(s) < size THEN More ELSE Ok(size, SubSeq(s, 1, size))
Utf8(s) ==
  CASE s[1] = "a" -> Ok(1, <<"a">>)
    [] s[1] = "2" -> Utf8Of(s, 2)
    [] s[1] = "EF" -> Utf8Of(s, 3)
    [] OTHER -> Bad(1)

Gbk(s) ==
  CASE s[1] = "a" -> Ok(1, <<"a">>)
    [] s[1] = "D" /\ Len(s) = 1 -> More
    [] s[1] = "D" /\ Len(s) > 1 /\ s[2] = "t" -> Ok(2, <<"2", "T">>)
    [] OTHER -> Bad(1)

\* u is a code unit, low what may be the second of a pair.
UnitOf(u, low, n) ==
  CASE u[1] \in {"d8", "dc"} /\ n < 4 -> More
    [] u[1] = "d8" /\ n >= 4 /\ low[1] = "dc" -> Ok(4, <<"4", "T", "T", "T">>)
    [] u[1] \in {"d8", "dc"} /\ n >= 4 /\ ~(u[1] = "d8" /\ low[1] = "dc") -> Bad(2)
    [] u = <<"ff", "fd">> -> Ok(2, Fffd)
    [] u[1] = "0" /\ u[2] = "a" -> Ok(2, <<"a">>)
    [] u[1] = "0" /\ u[2] # "a" -> Ok(2, <<"2", "T">>)
    [] OTHER -> Ok(2, <<"3">> \o u)
Ordered(s, k, le) == IF le THEN <<s[k + 1], s[k]>> ELSE <<s[k], s[k + 1]>>
Utf16(s, le) ==
  IF Len(s) < 2 THEN More
  ELSE UnitOf(Ordered(s, 1, le), IF Len(s) < 4 THEN <<>> ELSE Ordered(s, 3, le), Len(s))

FirstOf(s, state) ==
  CASE from = "utf8" -> Utf8(s) [] from = "gbk" -> Gbk(s) [] OTHER -> Utf16(s, state.le)

\* The encoder: a character of UTF-8 in the codeset to, or <<>>.
Encoded(text) ==
  CASE text = <<"a">> -> IF to = "gbk" THEN <<"a">> ELSE <<"0", "a">>
    [] text = <<"2", "T">> -> IF to = "gbk" THEN <<"D", "t">> ELSE <<"0", "e">>
    [] OTHER -> IF to = "gbk" THEN <<>> ELSE <<"ff", "fd">>

\* A transformer that is new, or was reset.
Fresh == [bom |-> "utf16" \in {from, to}, le |-> from = "utf16le"]

-----------------------------------------------------------------------------
(* One call: what is stored, how much is consumed, the state of the        *)
(* transformer, how many characters were substituted, and errno            *)

Back(s, made, n, k, err) == [st |-> s, out |-> made, n |-> n, subs |-> k, err |-> err]
Rest(s, n) == SubSeq(s, n + 1, Len(s))

\* utf8ValidPrefix
RECURSIVE ValidPrefix(_, _)
ValidStep(s, n, c) ==
  IF c.kind = "ok" THEN ValidPrefix(s, n + c.len) ELSE [n |-> n, more |-> c.kind = "more"]
ValidPrefix(s, n) ==
  IF n = Len(s) THEN [n |-> n, more |-> FALSE] ELSE ValidStep(s, n, Utf8(Rest(s, n)))

\* Faulty variant, for mutation: the copy is cut wherever the room ends.
Boundary_Any(s, room) == Smaller(Len(s), room)

\* A copy is cut before a character that does not fit.
Boundary(s, room) ==
  IF Len(s) <= room THEN Len(s)
  ELSE Max({m \in 0 .. room : m = 0 \/ s[m + 1] \notin Cont})

Copy(s, room, m) == Back(st, SubSeq(s, 1, m), m, 0, IF m < Len(s) THEN "E2BIG" ELSE "")

\* Transform on valid UTF-8, as often as a character has to be substituted.
RECURSIVE Encode(_, _, _)
EncodeOne(s, room, r, c, code) ==
  CASE code = <<>> /\ Len(r.out) < room ->
         Encode(s, room, [r EXCEPT !.out = Append(@, "*"), !.n = @ + c.len, !.subs = @ + 1])
    [] code # <<>> /\ Len(r.out) + Len(code) <= room ->
         Encode(s, room, [r EXCEPT !.out = @ \o code, !.n = @ + c.len])
    [] OTHER -> [r EXCEPT !.err = "E2BIG"]
EncodeNext(s, room, r, c) == EncodeOne(s, room, r, c, Encoded(c.text))
Encode(s, room, r) ==
  IF r.n = Len(s) THEN r
  ELSE IF ~r.st.bom THEN EncodeNext(s, room, r, Utf8(Rest(s, r.n)))
  ELSE IF room < 2 THEN [r EXCEPT !.err = "E2BIG"]
  ELSE Encode(s, room, [r EXCEPT !.out = Order, !.st.bom = FALSE])

\* Directions 0 and 2: the valid prefix of the window, and what stopped it.
Stopped(r, v, size) ==
  IF r.err = "" /\ v.n < size /\ r.n = v.n
  THEN [r EXCEPT !.err = IF v.more THEN "EINVAL" ELSE "EILSEQ"] ELSE r

FromUtf8(s, room, v) ==
  Stopped(IF to = "utf8" THEN Copy(SubSeq(s, 1, v.n), room, Boundary(SubSeq(s, 1, v.n), room))
          ELSE Encode(SubSeq(s, 1, v.n), room, Back(st, <<>>, 0, 0, "")),
          v, Len(s))

\* Transform of a decoder, from its mark on.
RECURSIVE Decode(_, _, _)
DecodeOne(s, room, r, c) ==
  IF c.kind = "more" THEN [r EXCEPT !.err = "EINVAL"]
  ELSE IF Len(r.out) + Len(c.text) > room THEN [r EXCEPT !.err = "E2BIG"]
  ELSE Decode(s, room, [r EXCEPT !.out = @ \o c.text, !.n = @ + c.len])
Decode(s, room, r) ==
  IF r.n = Len(s) THEN r ELSE DecodeOne(s, room, r, FirstOf(Rest(s, r.n), r.st))

Mark(s) == SubSeq(s, 1, 2)
Transform(s, room, state) ==
  CASE state.bom /\ s # <<>> /\ Len(s) < 2 -> Back(state, <<>>, 0, 0, "EINVAL")
    [] state.bom /\ Len(s) >= 2 ->
         Decode(s, room, Back([bom |-> FALSE, le |-> Mark(s) = Reverse(Order)], <<>>,
                              IF Mark(s) \in {Order, Reverse(Order)} THEN 2 ELSE 0, 0, ""))
    [] OTHER -> Decode(s, room, Back(state, <<>>, 0, 0, ""))

\* iconvLocate: a new decoder is run over the window until it has made prefix.
Replayed(r, prefix) == [ok |-> r.out = prefix, pre |-> r.n]
Locate(s, prefix) == Replayed(Transform(s, Len(prefix), Fresh), prefix)

\* st.fffd: what the encoder of the source makes of U+FFFD, its mark included.
OwnFffd ==
  CASE from = "utf16le" -> <<"fd", "ff">> [] from = "utf16" -> Order \o <<"ff", "fd">>
    [] OTHER -> <<>>

\* Faulty variant, for mutation: U+FFFD is a replacement always.
Genuine_Never(s, found) == FALSE
Genuine(s, found) ==
  found.ok /\ OwnFffd # <<>> /\ IsPrefix(OwnFffd, Rest(s, found.pre))

\* Direction 1: the output is searched for U+FFFD; at the first that is not in
\* the source it is cut, and the transformer begins anew.
Replacements(s, made) ==
  {j \in 0 .. Len(made) - 3 :
     SubSeq(made, j + 1, j + 3) = Fffd /\ ~Genuine(s, Locate(s, SubSeq(made, 1, j)))}
CutAt(r, j, found) ==
  Back(Fresh, IF found.ok THEN SubSeq(r.out, 1, j) ELSE <<>>,
       IF found.ok THEN found.pre ELSE 0, 0, "EILSEQ")
CutFrom(s, r, j) == CutAt(r, j, Locate(s, SubSeq(r.out, 1, j)))
Checked(s, r, js) == IF js = {} THEN r ELSE CutFrom(s, r, Min(js))
Searched(s, r) == Checked(s, r, Replacements(s, r.out))
ToUtf8(s, room) == Searched(s, Transform(s, room, st))

IconvRun(s, room) ==
  IF from = "utf8" THEN FromUtf8(s, room, ValidPrefix(s, 0)) ELSE ToUtf8(s, room)

-----------------------------------------------------------------------------
(* The program                                                             *)

Codesets == {"utf8", "gbk", "utf16le", "utf16", "unknown"}

Alphabet(codeset) ==
  CASE codeset = "utf8" ->
         {<<"a">>, <<"2", "T">>, Fffd, <<"x">>, <<"2">>, <<"EF", "BF">>}
    [] codeset = "gbk" -> {<<"a">>, <<"D", "t">>, <<"D">>, <<"x">>}
    [] OTHER -> {<<"0", "a">>, <<"0", "e">>, <<"ff", "fd">>, <<"d8", "0">>,
                 <<"d8", "0", "dc", "0">>}

InOrder(ch, le) ==
  IF le THEN FlattenSeq([k \in 1 .. Len(ch) \div 2 |-> <<ch[2 * k], ch[2 * k - 1]>>]) ELSE ch

Strings(codeset, le) ==
  {FlattenSeq([k \in DOMAIN w |-> InOrder(w[k], le)]) :
     w \in UNION {[1 .. n -> Alphabet(codeset)] : n \in 1 .. MaxChars}}

Sources(codeset) ==
  CASE codeset = "utf16" ->
         {Order \o s : s \in Strings(codeset, FALSE)} \cup Strings(codeset, FALSE)
           \cup {Reverse(Order) \o s : s \in Strings(codeset, TRUE)}
    [] codeset = "utf16le" -> Strings(codeset, TRUE)
    [] codeset \in {"utf8", "gbk"} -> Strings(codeset, FALSE)
    [] OTHER -> {<<>>}

None == [at |-> 0, n |-> 0, room |-> 0, made |-> 0]

IconvInit ==
  /\ from \in Codesets /\ to \in Codesets
  /\ source \in Sources(from)
  /\ cd = "none" /\ st = Fresh /\ at = 0 /\ out = <<>> /\ errno = "" /\ subs = 0
  /\ last = None /\ base = [at |-> 0, out |-> <<>>, due |-> TRUE]
  /\ errs = 0 /\ skips = 0 /\ runs = 1

\* One of the two is UTF-8, and both are known.
Supported == "utf8" \in {from, to} /\ "unknown" \notin {from, to}

IconvOpen ==
  /\ cd = "none" /\ errno = ""
  /\ IF Supported THEN cd' = "open" /\ st' = Fresh /\ errno' = errno
     ELSE errno' = "EINVAL" /\ UNCHANGED <<cd, st>>
  /\ UNCHANGED <<from, to, source, at, out, subs, last, base, errs, skips, runs>>

Called(r, n, room) ==
  /\ st' = r.st /\ at' = at + r.n /\ out' = out \o r.out
  /\ errno' = r.err /\ subs' = IF r.err = "" THEN r.subs ELSE 0
  /\ last' = [at |-> at, n |-> Smaller(n, Len(source) - at), room |-> room, made |-> Len(out)]
  /\ errs' = IF r.err = "EILSEQ" THEN errs + 1 ELSE errs
  /\ UNCHANGED <<from, to, source, cd, base, skips, runs>>

Iconv == \E n \in Windows, room \in Rooms :
  /\ cd = "open" /\ at < Len(source) /\ errno # "EILSEQ"
  /\ Called(IconvRun(SubSeq(source, at + 1, Smaller(at + n, Len(source))), room), n, room)

\* The program goes on behind the malformed sequence.
Skip ==
  /\ cd = "open" /\ errno = "EILSEQ" /\ skips < MaxSkips
  /\ at' = at + FirstOf(Rest(source, at), st).len
  /\ at' > at
  /\ base' = [at |-> at', out |-> out, due |-> st.bom] /\ skips' = skips + 1 /\ errno' = ""
  /\ last' = [None EXCEPT !.at = at', !.made = Len(out)]
  /\ UNCHANGED <<from, to, source, cd, st, out, subs, errs, runs>>

\* iconv(cd, NULL, ...)
Reset ==
  /\ cd = "open" /\ (at = Len(source) \/ errno = "EILSEQ") /\ runs < MaxRuns
  /\ st' = Fresh /\ runs' = runs + 1 /\ errs' = 0
  /\ at' = 0 /\ out' = <<>> /\ errno' = "" /\ subs' = 0 /\ last' = None
  /\ base' = [at |-> 0, out |-> <<>>, due |-> TRUE]
  /\ UNCHANGED <<from, to, source, cd, skips>>

\* The id is claimed: who comes second has a bad descriptor.
IconvClose ==
  /\ cd # "none" /\ (at = Len(source) \/ errno = "EILSEQ" \/ cd = "closed")
  /\ cd' = "closed" /\ errno' = IF cd = "open" THEN "" ELSE "EBADF"
  /\ UNCHANGED <<from, to, source, st, at, out, subs, last, base, errs, skips, runs>>

IconvNext == IconvOpen \/ Iconv \/ Skip \/ Reset \/ IconvClose

IconvSpec == IconvInit /\ [][IconvNext]_iconvVars

-----------------------------------------------------------------------------
(* Properties                                                              *)

\* The decoder of a string with a mark loses its byte order at the first error,
\* and then, or in a later window, it cannot place the next one.
Placed == from = "utf16" => errs = 0
Placeable ==
  from = "utf16" =>
    errs = 1 /\ last.at = 0 /\ \A k \in 1 .. Len(source) - 1 :
                                 {source[k], source[k + 1]} # {"ff", "fd"}

\* Whole characters, none of them malformed, and how they read.
Stranger == <<"malformed">>
RECURSIVE Reading(_, _)
ReadingOf(s, order, c) ==
  IF c.kind = "ok" THEN c.text \o Reading(Rest(s, c.len), order) ELSE Stranger
Reading(s, order) == IF s = <<>> THEN <<>> ELSE ReadingOf(s, order, FirstOf(s, order))

Written(s) ==
  LET size(k) == Utf8(Rest(s, k)).len
      starts == {k \in 0 .. Len(s) - 1 : s[k + 1] \notin Cont}
      one(k) == IF to = "utf8" THEN SubSeq(s, k + 1, k + size(k))
                ELSE IF Encoded(SubSeq(s, k + 1, k + size(k))) = <<>> THEN <<"*">>
                ELSE Encoded(SubSeq(s, k + 1, k + size(k)))
  IN FlattenSeq([i \in 1 .. Len(s) |-> IF i - 1 \in starts THEN one(i - 1) ELSE <<>>])

Marked == from = "utf16" /\ Mark(source) \in {Order, Reverse(Order)}
SourceOrder == [bom |-> FALSE, le |-> from = "utf16le" \/ (Marked /\ source[1] = "ff")]
Consumed == SubSeq(source, base.at + 1, at)
Promised ==
  IF from = "utf8" THEN Written(Consumed)
  ELSE Reading(IF Marked /\ at >= 2 THEN Rest(Consumed, 2) ELSE Consumed, SourceOrder)

\* However the program cuts the conversion into calls, what they have stored is
\* the conversion of the whole characters they consumed, and nothing of a
\* malformed one: the cursor never runs ahead of the output (iconv.go:8-20).
ConversionExact ==
  Placed => out = base.out
                   \o (IF to = "utf16" /\ ~st.bom /\ base.due THEN Order ELSE <<>>)
                   \o Promised

\* What is left of the window, and its first character.
Left == SubSeq(source, at + 1, last.at + last.n)
Fills(c) ==
  LET room == last.room - (Len(out) - last.made)
  IN IF from # "utf8" \/ to = "utf8" THEN Len(c.text) > room
     ELSE Len(IF Encoded(c.text) = <<>> THEN <<"*">> ELSE Encoded(c.text)) > room

Stops(c) ==
  CASE errno = "EINVAL" -> c.kind = "more"
    [] errno = "EILSEQ" -> c.kind = "bad"
    [] OTHER -> c.kind # "more" /\ (Fills(c) \/ (to = "utf16" /\ st.bom))

\* A call stops short of its window for the reason it gives: EILSEQ with the
\* cursor on what is malformed, which a U+FFFD of the source is not, EINVAL
\* before the beginning of a character, and E2BIG before one that has no room
\* (iconv.go:23-36, 282-357).
StopsRightly ==
  cd = "open" /\ last # None /\ (Placed \/ Placeable) =>
    /\ errno = "" => Left = <<>>
    /\ errno # "" /\ ~(from = "utf16" /\ at = 0) => Left # <<>> /\ Stops(FirstOf(Left, SourceOrder))

\* The count of a call that succeeds is that of the characters it substituted.
CountsSubstitutes ==
  cd = "open" /\ errno = "" =>
    subs = Cardinality({k \in last.made + 1 .. Len(out) : out[k] = "*"})
=============================================================================
