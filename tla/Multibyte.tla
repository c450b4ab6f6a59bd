----------------------------- MODULE Multibyte ------------------------------
(***************************************************************************)
(* The restartable conversions between UTF-8 and wchar_t                   *)
(* (csrc/multibyte.c): __mbrtoc32 and mbrtowc, mbsrtowcs, mbsnrtowcs,      *)
(* wcsrtombs, wcsnrtombs.  Where wchar_t has 16 bits (utf16, Windows) a    *)
(* character of four bytes is a pair of surrogates, which no call may      *)
(* split; that logic is this library's own.                                *)
(*                                                                         *)
(* A program converts one string, in calls that give it as much input and  *)
(* room for output as it likes, and keeps *src and the mbstate_t between   *)
(* them.  Bytes: "a" is ASCII, "2" and "4" lead sequences of two and four, *)
(* "T" is a continuation byte, "x" occurs in no character.  The state is   *)
(* the bytes of a character that were consumed.                            *)
(***************************************************************************)
EXTENDS Integers, Sequences, SequencesExt

CONSTANTS
  MaxChars,   \* characters in the string
  Rooms,      \* room for output a call may offer
  Lengths,    \* input a bounded call may offer
  BULK,       \* mbsnrtowcs converts in bulk above four times this (32)
  WBUF        \* the buffer it counts with (256)

MultibyteConstants ==
  /\ Rooms \subseteq Nat \ {0} /\ Lengths \subseteq Nat
  /\ BULK >= 1 /\ WBUF >= 4 * (BULK + 1)

VARIABLES
  utf16,      \* WCHAR_UTF16
  dir,        \* "decode" or "encode"
  chars,      \* ghost: the characters the string consists of
  at,         \* *src: how much is consumed; Null once the end was reached
  st,         \* the mbstate_t
  out,        \* what the calls have stored
  errno

mbVars == <<utf16, dir, chars, at, st, out, errno>>

Null == -1

\* Characters, good and bad, as bytes and as wide characters.
Good == {"a", "2", "4"}
BadBytes == {"x", "4T"}
BadUnits == {"lo", "hi a"}

Coded(ch) ==
  CASE ch = "2" -> <<"2", "T">> [] ch = "4" -> <<"4", "T", "T", "T">>
    [] ch = "4T" -> <<"4", "T">> [] OTHER -> <<ch>>

\* wcs[i++] = sc, or the two surrogates of it.
UnitsOf(ch) ==
  CASE ch = "4" /\ utf16 -> <<"hi", "lo">> [] ch = "hi a" -> <<"hi", "a">>
    [] OTHER -> <<ch>>

Mapped(Op(_), cs) == FlattenSeq([i \in 1 .. Len(cs) |-> Op(cs[i])])
src == Append(IF dir = "decode" THEN Mapped(Coded, chars) ELSE Mapped(UnitsOf, chars), "0")

-----------------------------------------------------------------------------
(* From bytes                                                              *)

Size(lead) == IF lead = "2" THEN 2 ELSE 4

\* __mbrtoc32 from byte i on, of which n may be read, after the bytes pend.
RECURSIVE Mbrtoc32(_, _, _)
Mbrtoc32At(pend, i, n, c) ==
  IF n = 0 THEN [r |-> "more", at |-> i, st |-> pend, ch |-> ""]
  ELSE IF pend = <<>> /\ c \in {"0", "a"}
  THEN [r |-> "ok", at |-> i + 1, st |-> <<>>, ch |-> c]
  ELSE IF IF pend = <<>> THEN c \notin {"2", "4"} ELSE c # "T"
  THEN [r |-> "EILSEQ", at |-> i, st |-> <<>>, ch |-> ""]
  ELSE IF pend # <<>> /\ Len(pend) + 1 = Size(pend[1])
  THEN [r |-> "ok", at |-> i + 1, st |-> <<>>, ch |-> pend[1]]
  ELSE Mbrtoc32(Append(pend, c), i + 1, n - 1)
Mbrtoc32(pend, i, n) == Mbrtoc32At(pend, i, n, src[i + 1])

\* How a call comes back: *src, the state, what it stored, and its errno.
Back(i, pend, made, err) == [at |-> i, st |-> pend, out |-> made, err |-> err]

\* One wchar_t at a time: on UTF-16 a pair is reported as an illegal sequence.
One(d, u) ==
  CASE d.r = "more" -> Back(d.at, d.st, <<>>, "")
    [] d.r = "EILSEQ" \/ Len(u) > 1 -> Back(d.at, <<>>, <<>>, "EILSEQ")
    [] d.r = "ok" /\ d.ch = "0" -> Back(Null, <<>>, <<>>, "")
    [] OTHER -> Back(d.at, <<>>, u, "")
OneOf(d) == One(d, UnitsOf(d.ch))
Mbrtowc(pend, i, n) == OneOf(Mbrtoc32(pend, i, n))

\* The pair is split: its first half is stored although there is no room for both.
Fits_Half(u, wn) == wn > 0
Fits(u, wn) == Len(u) <= wn

\* A pair would begin here and has no room, whatever follows its lead.
NoRoomForPair(i, wn) == utf16 /\ wn < 2 /\ src[i + 1] = "4"

\* mbsrtowcs with a buffer of wn > 0.  A character a former call began is taken
\* up again; if it turns out to be a pair without room, that call's state is
\* restored.
RECURSIVE Mbsrtowcs(_, _, _, _)
Stored(i, wn, pend, made, d, u) ==
  IF d.r = "EILSEQ" THEN Back(IF pend = <<>> THEN i ELSE i - 1, <<>>, made, "EILSEQ")
  ELSE IF d.ch = "0" THEN Back(Null, <<>>, made, "")
  ELSE IF ~Fits(u, wn) THEN Back(i, pend, made, "")
  ELSE Mbsrtowcs(d.at, wn - Len(u), <<>>, made \o u)
StoredFrom(i, wn, pend, made, d) == Stored(i, wn, pend, made, d, UnitsOf(d.ch))
Mbsrtowcs(i, wn, pend, made) ==
  IF wn = 0 \/ (pend = <<>> /\ NoRoomForPair(i, wn)) THEN Back(i, <<>>, made, "")
  ELSE StoredFrom(i, wn, pend, made, Mbrtoc32(pend, i, Len(src)))

\* mbsrtowcs without a buffer counts what is left, by the scalar's value.
Counted_Chars(ch) == 1
CountedUnits(ch) == Len(UnitsOf(ch))

\* From byte i on, n units being counted.
RECURSIVE MbsrtowcsCount(_, _, _)
Counted(n, d) ==
  IF d.r = "EILSEQ" THEN -1 ELSE IF d.ch = "0" THEN n
  ELSE MbsrtowcsCount(d.at, <<>>, n + CountedUnits(d.ch))
MbsrtowcsCount(i, pend, n) == Counted(n, Mbrtoc32(pend, i, Len(src)))

\* mbsnrtowcs, character by character.
RECURSIVE PerChar(_, _, _, _, _)
CharOf(i, n, wn, pend, made, d, u) ==
  IF d.r = "EILSEQ" THEN Back(i, <<>>, made, "EILSEQ")
  ELSE IF d.r = "more" THEN Back(d.at, d.st, made, "")
  ELSE IF d.ch = "0" THEN Back(Null, <<>>, made, "")
  ELSE IF ~Fits(u, wn) THEN Back(i, pend, made, "")
  ELSE PerChar(d.at, n - (d.at - i), wn - Len(u), <<>>, made \o u)
CharFrom(i, n, wn, pend, made, d) == CharOf(i, n, wn, pend, made, d, UnitsOf(d.ch))
PerChar(i, n, wn, pend, made) ==
  IF i = Null \/ wn = 0 \/ n = 0 \/ NoRoomForPair(i, wn)
  THEN Back(i, pend, made, "")
  ELSE CharFrom(i, n, wn, pend, made, Mbrtoc32(pend, i, n))

\* mbsnrtowcs: mbsrtowcs in batches of n / 4, which cannot read beyond n bytes,
\* while that is worth it.  Without a buffer each batch reuses its own.
RECURSIVE Mbsnrtowcs(_, _, _, _, _, _)
Batched(i, n, wn, pend, made, counting, r) ==
  IF r.err = "" /\ r.out = <<>> /\ r.at = i THEN PerChar(i, n, wn, pend, made)
  ELSE IF r.err # "" THEN Back(r.at, r.st, made \o r.out, r.err)
  ELSE Mbsnrtowcs(r.at, IF r.at = Null THEN 0 ELSE n - (r.at - i),
                  IF counting THEN wn ELSE wn - Len(r.out), r.st, made \o r.out, counting)
Mbsnrtowcs(i, n, wn, pend, made, counting) ==
  IF i = Null \/ wn = 0 \/ ~(n \div 4 >= wn \/ n \div 4 > BULK)
  THEN PerChar(i, n, wn, pend, made)
  ELSE Batched(i, n, wn, pend, made, counting,
               Mbsrtowcs(i, IF n \div 4 >= wn THEN wn ELSE n \div 4, pend, <<>>))

-----------------------------------------------------------------------------
(* From wide characters                                                    *)

\* The character at unit i, as far as wn units show: its length, "lone" for half
\* a pair, "more" if only its first half is in sight.
WideOf(u, wn, low) ==
  CASE u = "hi" /\ utf16 /\ wn < 2 -> [ch |-> "more", len |-> 0]
    [] u = "hi" /\ utf16 /\ wn >= 2 /\ low = "lo" -> [ch |-> "4", len |-> 2]
    [] u = "lo" \/ (u = "hi" /\ ~(utf16 /\ (wn < 2 \/ low = "lo"))) ->
         [ch |-> "lone", len |-> 0]
    [] OTHER -> [ch |-> u, len |-> 1]
WideAt(i, wn) == WideOf(src[i + 1], wn, src[i + 2])

\* wcsrtombs: n is what is left of the room, and it stops when that is used up.
RECURSIVE Wcsrtombs(_, _, _)
BytesOf(i, n, made, w, bytes) ==
  IF w.ch = "lone" THEN Back(i, <<>>, made, "EILSEQ")
  ELSE IF w.ch = "0" THEN Back(Null, <<>>, made, "")
  ELSE IF Len(bytes) > n THEN Back(i, <<>>, made, "")
  ELSE Wcsrtombs(i + w.len, n - Len(bytes), made \o bytes)
BytesFrom(i, n, made, w) == BytesOf(i, n, made, w, Coded(w.ch))
Wcsrtombs(i, n, made) ==
  IF n = 0 THEN Back(i, <<>>, made, "") ELSE BytesFrom(i, n, made, WideAt(i, 2))

\* wcsnrtombs: it goes on for as long as there is input, so what it has no room
\* for it still looks at, and an illegal character there is an error.
RECURSIVE Wcsnrtombs(_, _, _, _)
NBytesOf(i, wn, n, made, w, bytes) ==
  IF w.ch = "more" THEN Back(i, <<>>, made, "")
  ELSE IF w.ch = "lone" THEN Back(i, <<>>, made, "EILSEQ")
  ELSE IF Len(bytes) > n THEN Back(i, <<>>, made, "")
  ELSE IF w.ch = "0" THEN Back(Null, <<>>, made, "")
  ELSE Wcsnrtombs(i + w.len, wn - w.len, n - Len(bytes), made \o bytes)
NBytesFrom(i, wn, n, made, w) == NBytesOf(i, wn, n, made, w, Coded(w.ch))
Wcsnrtombs(i, wn, n, made) ==
  IF wn = 0 THEN Back(i, <<>>, made, "") ELSE NBytesFrom(i, wn, n, made, WideAt(i, wn))

\* Without a buffer both count, wcsrtombs up to the terminating character and
\* wcsnrtombs over no more than wn.
RECURSIVE WcsrtombsCount(_, _)
CountedFrom(i, n, w) ==
  IF w.ch = "lone" THEN -1 ELSE IF w.ch = "0" THEN n
  ELSE WcsrtombsCount(i + w.len, n + Len(Coded(w.ch)))
WcsrtombsCount(i, n) == CountedFrom(i, n, WideAt(i, 2))

RECURSIVE WcsnrtombsCount(_, _, _)
NCountedFrom(i, wn, n, w) ==
  IF w.ch = "lone" THEN -1 ELSE IF w.ch \in {"more", "0"} THEN n
  ELSE WcsnrtombsCount(i + w.len, wn - w.len, n + Len(Coded(w.ch)))
WcsnrtombsCount(i, wn, n) == IF wn = 0 THEN n ELSE NCountedFrom(i, wn, n, WideAt(i, wn))

-----------------------------------------------------------------------------
(* The program                                                             *)

MbInit ==
  /\ utf16 \in BOOLEAN /\ dir \in {"decode", "encode"}
  /\ chars \in UNION {[1 .. k -> Good \cup IF dir = "decode" THEN BadBytes ELSE BadUnits] :
                        k \in 0 .. MaxChars}
  /\ at = 0 /\ st = <<>> /\ out = <<>> /\ errno = ""

Called(r) ==
  /\ at' = r.at /\ st' = r.st /\ out' = out \o r.out /\ errno' = r.err
  /\ UNCHANGED <<utf16, dir, chars>>

Going == at # Null /\ errno = ""

CallMbrtowc == \E n \in Lengths :
  Going /\ dir = "decode" /\ ~utf16 /\ Called(Mbrtowc(st, at, n))

CallMbsrtowcs == \E wn \in Rooms :
  Going /\ dir = "decode" /\ Called(Mbsrtowcs(at, wn, st, <<>>))

CallMbsnrtowcs == \E n \in Lengths, wn \in Rooms \cup {0} :
  Going /\ dir = "decode" /\ Called(Mbsnrtowcs(at, n, wn, st, <<>>, FALSE))

CallWcsrtombs == \E n \in Rooms \cup {0} :
  Going /\ dir = "encode" /\ Called(Wcsrtombs(at, n, <<>>))

CallWcsnrtombs == \E wn \in Lengths, n \in Rooms \cup {0} :
  Going /\ dir = "encode" /\ Called(Wcsnrtombs(at, wn, n, <<>>))

MbNext ==
  CallMbrtowc \/ CallMbsrtowcs \/ CallMbsnrtowcs \/ CallWcsrtombs \/ CallWcsnrtombs

MbSpec == MbInit /\ [][MbNext]_mbVars

-----------------------------------------------------------------------------
(* Properties                                                              *)

From(ch) == IF dir = "decode" THEN Coded(ch) ELSE UnitsOf(ch)
To(ch) == IF dir = "decode" THEN UnitsOf(ch) ELSE Coded(ch)

\* What k characters of the string take up, and become.
Input(k) == Mapped(From, SubSeq(chars, 1, k))
Output(k) == Mapped(To, SubSeq(chars, 1, k))

\* However the program cuts the conversion into calls, what they have stored is
\* the conversion of the whole characters consumed, no pair of surrogates is
\* split, the state holds what was consumed of the next one, and an error is
\* reported exactly at a bad one (multibyte.c:156-160, 278-290, 430-470).
Restartable ==
  \E k \in 0 .. Len(chars) :
    /\ out = Output(k)
    /\ \A j \in 1 .. k : chars[j] \in Good
    /\ at = Null => k = Len(chars)
    /\ Going => at - Len(st) = Len(Input(k)) /\ st = SubSeq(src, at - Len(st) + 1, at)
    /\ errno # "" => k < Len(chars) /\ chars[k + 1] \notin Good

CountedAs(all, count) == count = IF all.err # "" THEN -1 ELSE Len(all.out)
SameCount(a, b) == a.err = b.err /\ (a.err = "" => Len(a.out) = Len(b.out))

\* A call without a buffer counts what the same call with enough room stores,
\* also where it takes up a character that is begun (multibyte.c:226-231).
CountAgrees ==
  /\ Going /\ dir = "encode" =>
       /\ CountedAs(Wcsrtombs(at, 99, <<>>), WcsrtombsCount(at, 0))
       /\ \A wn \in Lengths :
            CountedAs(Wcsnrtombs(at, wn, 99, <<>>), WcsnrtombsCount(at, wn, 0))
  /\ Going /\ dir = "decode" =>
       /\ CountedAs(Mbsrtowcs(at, 99, st, <<>>), MbsrtowcsCount(at, st, 0))
       /\ \A n \in Lengths : SameCount(Mbsnrtowcs(at, n, 99, st, <<>>, FALSE),
                                       Mbsnrtowcs(at, n, WBUF, st, <<>>, TRUE))

GetsOn(r, n, wn) ==
  /\ Len(r.out) <= wn
  /\ IF r.at = Null THEN Len(src) <= at + n ELSE r.at <= at + n
  /\ n >= 2 /\ wn >= 4 => r.at # at \/ r.err # ""

\* A bounded call reads nothing beyond the input it is given, and where it has
\* room for a pair, and input, it does not return with nothing done: a program
\* that calls until the string is converted comes to an end
\* (multibyte.c:436-441).
BoundedCalls ==
  Going => \A n \in Lengths, wn \in Rooms \cup {0} :
    GetsOn(IF dir = "decode" THEN Mbsnrtowcs(at, n, wn, st, <<>>, FALSE)
           ELSE Wcsnrtombs(at, n, wn, <<>>), n, wn)
=============================================================================
