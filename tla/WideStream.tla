----------------------------- MODULE WideStream -----------------------------
(***************************************************************************)
(* Wide characters through a FILE: fgetwc, ungetwc, fgetws, fputwc, fputws *)
(* and the look wide scanf takes at the next character (csrc/stdio.c:      *)
(* __fgetwc_unlocked_internal, __ungetwc_unlocked, __fputwc_unlocked,      *)
(* __ungetwc_pair, unget_wide).  The file holds UTF-8.  Where wchar_t has  *)
(* 16 bits (utf16) a character of four bytes is two units, which travel    *)
(* one by one through the slot wpend.                                      *)
(*                                                                         *)
(* Bytes: "a", "n" (newline), "2" or "4" (first of two or four), "T"       *)
(* (continues), "x" (in no character).  Units: "a", "n", "2", and "4" or   *)
(* the halves "hi" and "lo".  Of a buffer the model keeps what is unread   *)
(* and how many cells before it can be written (behind): the consumed ones *)
(* and UNGET more.  The kernel transfers all it is asked for; FileBuffer   *)
(* has the rest.                                                           *)
(***************************************************************************)
EXTENDS Integers, Sequences, SequencesExt

CONSTANTS
  Files,      \* what the file may hold at first
  BUF, UNGET,
  MaxCalls

VARIABLES
  utf16,      \* WCHAR_UTF16
  f,          \* the FILE
  result,     \* what the last call returned
  calls,      \* how many were made
  reading,    \* ghost: "no" after a seek, "read" or "write" after a call
  ahead,      \* ghost: the units the program should read from here on
  put,        \* ghost: the units it has put since the last seek
  from        \* ghost: where that seek went

wideVars == <<utf16, f, result, calls, reading, ahead, put, from>>

WEOF == "WEOF"
Nothing == ""
Bad == "bad"

Coded(u) ==
  CASE u = "2" -> <<"2", "T">> [] u = "4" -> <<"4", "T", "T", "T">> [] OTHER -> <<u>>
Size(lead) == CASE lead = "2" -> 2 [] lead = "4" -> 4 [] OTHER -> 1

\* How many bytes of b a character that begins there has, none missing; or how
\* many of them a decoder consumes before it finds out: the bytes that could
\* begin one, at least the first.
Whole(b) ==
  /\ b[1] \notin {"T", "x"} /\ Size(b[1]) <= Len(b)
  /\ \A j \in 2 .. Size(b[1]) : b[j] = "T"
Begun(b) ==
  CHOOSE k \in 1 .. Len(b) :
    IF b[1] \in {"T", "x"} THEN k = 1
    ELSE /\ \A j \in 2 .. k : b[j] = "T"
         /\ k = Len(b) \/ b[k + 1] # "T"

RECURSIVE Decoded(_)
Decoded(b) ==
  IF b = <<>> THEN <<>>
  ELSE IF ~Whole(b) THEN <<Bad>> \o Decoded(SubSeq(b, Begun(b) + 1, Len(b)))
  ELSE (IF b[1] = "4" /\ utf16 THEN <<"hi", "lo">> ELSE <<b[1]>>)
         \o Decoded(SubSeq(b, Size(b[1]) + 1, Len(b)))

-----------------------------------------------------------------------------
(* The FILE                                                                *)

Opened(bytes) ==
  [data |-> bytes, pos |-> 0, unread |-> <<>>, behind |-> 0, rd |-> FALSE,
   wr |-> <<>>, wpend |-> Nothing, err |-> FALSE, eof |-> FALSE]

Rest(g) == SubSeq(g.data, g.pos + 1, Len(g.data))

\* f->write: all that is buffered goes out.
Flushed(g) ==
  [g EXCEPT !.wr = <<>>, !.pos = @ + Len(g.wr),
            !.data = SubSeq(@, 1, g.pos) \o g.wr \o
                     SubSeq(@, g.pos + Len(g.wr) + 1, Len(@))]

\* __toread: an empty buffer whose cursor stands at its end.
Toread(g) == [Flushed(g) EXCEPT !.rd = TRUE, !.unread = <<>>, !.behind = UNGET + BUF]

\* getc_unlocked.
Getc(g) ==
  LET h == Toread(g)
      chunk == SubSeq(Rest(h), 1, IF BUF < Len(Rest(h)) THEN BUF ELSE Len(Rest(h)))
  IN IF g.unread # <<>>
     THEN [f |-> [g EXCEPT !.unread = Tail(@), !.behind = @ + 1], c |-> g.unread[1]]
     ELSE IF h.eof \/ chunk = <<>> THEN [f |-> [h EXCEPT !.eof = TRUE], c |-> WEOF]
     ELSE [f |-> [h EXCEPT !.pos = @ + Len(chunk), !.unread = Tail(chunk),
                           !.behind = UNGET + 1], c |-> chunk[1]]

\* So many bytes are put back before what is unread.
PutBack(g, b) ==
  [g EXCEPT !.unread = b \o @, !.behind = @ - Len(b), !.eof = FALSE]

Ready(g) == IF g.rd THEN g ELSE Toread(g)

-----------------------------------------------------------------------------
(* Reading                                                                 *)

\* __fgetwc_emit: the second half waits in wpend.
Emit(g, lead) ==
  IF lead = "4" /\ utf16 THEN [f |-> [g EXCEPT !.wpend = "lo"], c |-> "hi"]
  ELSE [f |-> g, c |-> lead]

\* The loop that assembles a character over the end of the buffer; got is what
\* it has, g.c the byte just taken.  A byte that does not fit is put back.
Assemble_KeepsByte(g, got) == g.f
PutBackLast(g, got) == PutBack(g.f, <<g.c>>)

\* The bytes in got begin a character.
RECURSIVE Assemble(_, _)
Assemble(g, got) ==
  LET all == Append(got, g.c)
  IN CASE g.c = WEOF ->
            [f |-> IF got = <<>> THEN g.f ELSE [g.f EXCEPT !.err = TRUE], c |-> WEOF]
       [] got = <<>> /\ g.c \in {"T", "x"} -> [f |-> g.f, c |-> WEOF]
       [] got # <<>> /\ g.c \notin {"T", WEOF} ->
            [f |-> [PutBackLast(g, got) EXCEPT !.err = TRUE], c |-> WEOF]
       [] OTHER -> IF Len(all) = Size(all[1]) THEN Emit(g.f, all[1])
                   ELSE Assemble(Getc(g.f), all)

\* __fgetwc_unlocked_internal: the waiting half, or a character that is whole
\* in the buffer, or one that has to be assembled.
Fgetwc(g) ==
  IF utf16 /\ g.wpend # Nothing THEN [f |-> [g EXCEPT !.wpend = Nothing], c |-> g.wpend]
  ELSE IF g.unread # <<>> /\ Whole(g.unread)
  THEN LET n == Size(g.unread[1])
       IN Emit([g EXCEPT !.unread = SubSeq(@, n + 1, Len(@)), !.behind = @ + n],
               g.unread[1])
  ELSE Assemble(Getc(g), <<>>)

\* __ungetwc_unlocked: a half goes to wpend, if that is free; anything else
\* before what is unread, if there is room for it.
Ungetwc(g, u) ==
  LET h == Ready(g)
  IN IF u \in {"hi", "lo"}
     THEN IF g.wpend # Nothing THEN [f |-> g, c |-> WEOF]
          ELSE [f |-> [h EXCEPT !.wpend = u, !.eof = FALSE], c |-> u]
     ELSE IF u = WEOF \/ h.behind < Len(Coded(u)) THEN [f |-> h, c |-> WEOF]
     ELSE [f |-> PutBack(h, Coded(u)), c |-> u]

\* __ungetwc_pair: both halves go back as bytes, if four were consumed since the
\* buffer was filled.
UngetPair_Never(g) == FALSE
UngetPair(g) == g.behind - UNGET >= 4

\* A getwc and an unget_wide: how wide scanf looks at the next character.
Look(g) ==
  LET r == Fgetwc(g)
  IN IF r.c = "hi" /\ r.f.wpend # Nothing /\ UngetPair(r.f)
     THEN [f |-> [PutBack(r.f, Coded("4")) EXCEPT !.wpend = Nothing], c |-> "hi"]
     ELSE [f |-> Ungetwc(r.f, r.c).f, c |-> r.c]

\* fgetws, with room for n units; got are those it has.
RECURSIVE Fgetws(_, _, _)
Fgetws(g, n, got) ==
  LET r == Fgetwc(g)
  IN IF n = 0 \/ (got # <<>> /\ Last(got) = "n") THEN [f |-> g, c |-> got]
     ELSE IF r.c = WEOF THEN [f |-> r.f, c |-> got]
     ELSE Fgetws(r.f, n - 1, Append(got, r.c))

-----------------------------------------------------------------------------
(* Writing                                                                 *)

\* __towrite, and __fwritex or putc_unlocked.
Fwritex(g, b) ==
  LET h == [g EXCEPT !.rd = FALSE, !.unread = <<>>, !.behind = 0, !.wr = @ \o b]
  IN IF Len(h.wr) > BUF THEN Flushed(h) ELSE h

Unpaired_Kept(g) == [g EXCEPT !.err = TRUE]
Unpaired(g) == [g EXCEPT !.wpend = Nothing, !.err = TRUE]

\* __fputwc_unlocked: the first half of a pair waits for the second.
Fputwc(g, u) ==
  CASE g.wpend # Nothing /\ u = "lo" ->
         [f |-> Fwritex([g EXCEPT !.wpend = Nothing], Coded("4")), c |-> u]
    [] g.wpend # Nothing /\ u # "lo" -> [f |-> Unpaired(g), c |-> WEOF]
    [] g.wpend = Nothing /\ u = "hi" -> [f |-> [g EXCEPT !.wpend = u], c |-> u]
    [] g.wpend = Nothing /\ u = "lo" -> [f |-> [g EXCEPT !.err = TRUE], c |-> WEOF]
    [] OTHER -> [f |-> Fwritex(g, Coded(u)), c |-> u]

\* fputws: nothing of a string with half a character is written.  The string is
\* converted BUFSIZ bytes at a time, and no string here is as long as that.
Fputws(g, ws) ==
  LET ok == \A j \in 1 .. Len(ws) :
              /\ ws[j] = "lo" => j > 1 /\ ws[j - 1] = "hi"
              /\ ws[j] = "hi" => j < Len(ws) /\ ws[j + 1] = "lo"
      bytes == FlattenSeq([j \in 1 .. Len(ws) |->
                 CASE ws[j] = "hi" -> Coded("4") [] ws[j] = "lo" -> <<>>
                   [] OTHER -> Coded(ws[j])])
  IN IF ok THEN [f |-> Fwritex(g, bytes), c |-> <<>>] ELSE [f |-> g, c |-> <<WEOF>>]

\* fseek to byte i: wpend is not looked at.
Fseek(g, i) ==
  [Flushed(g) EXCEPT !.pos = i, !.rd = FALSE, !.unread = <<>>, !.behind = 0, !.eof = FALSE]

-----------------------------------------------------------------------------
(* The program                                                             *)

WideInit ==
  /\ utf16 \in BOOLEAN
  /\ \E bytes \in Files : f = Opened(bytes)
  /\ result = <<>> /\ calls = 0 /\ reading = "no"
  /\ ahead = Decoded(f.data) /\ put = <<>> /\ from = 0

Call == calls < MaxCalls /\ calls' = calls + 1 /\ UNCHANGED utf16

\* C asks for a seek between reading and writing, either way.
Reads ==
  /\ Call /\ reading \in {"no", "read"} /\ reading' = "read"
  /\ UNCHANGED <<put, from>>
Writes ==
  /\ Call /\ reading \in {"no", "write"} /\ reading' = "write"
  /\ UNCHANGED <<ahead, from>>

CallFgetwc ==
  /\ Reads
  /\ LET r == Fgetwc(f) IN f' = r.f /\ result' = <<r.c>>
  /\ ahead' = SubSeq(ahead, 2, Len(ahead))

CallFgetws == \E n \in {2, 3} :
  /\ Reads
  /\ LET r == Fgetws(f, n, <<>>)
         early == Len(r.c) < n /\ ~(r.c # <<>> /\ Last(r.c) = "n")
     IN /\ f' = r.f
        /\ result' = IF r.c = <<>> \/ r.f.err THEN <<WEOF>> ELSE r.c
        /\ ahead' = SubSeq(ahead, Len(r.c) + (IF early THEN 2 ELSE 1), Len(ahead))

\* Any character may be put back, but where half a pair waits only a half.
CallUngetwc == \E u \in {"a", "2"} \cup (IF utf16 THEN {"hi", "lo"} ELSE {"4"}) :
  /\ Reads
  /\ f.wpend = Nothing \/ u \in {"hi", "lo"}
  /\ LET r == Ungetwc(f, u)
     IN /\ f' = r.f /\ result' = <<r.c>>
        /\ ahead' = IF r.c = WEOF THEN ahead ELSE <<u>> \o ahead

\* Not at a pair that was read over the end of the buffer: a half is lost there.
CallLook ==
  /\ Reads
  /\ LET r == Fgetwc(f)
     IN /\ r.f.wpend # Nothing => r.f.behind - UNGET >= 4
        /\ f' = Look(f).f /\ result' = <<Look(f).c>>
  /\ ahead' = IF ahead # <<>> /\ ahead[1] = Bad THEN Tail(ahead) ELSE ahead

CallFputwc == \E u \in {"a", "2"} \cup (IF utf16 THEN {"hi", "lo"} ELSE {"4"}) :
  /\ Writes
  /\ LET r == Fputwc(f, u)
     IN /\ f' = r.f /\ result' = <<r.c>>
        /\ put' = IF r.c # WEOF THEN Append(put, u)
                  ELSE IF f.wpend = Nothing THEN put ELSE Front(put)

CallFputws == \E ws \in {<<"a", "2">>, <<"a", "lo">>, IF utf16 THEN <<"hi", "lo", "a">> ELSE <<"4", "a">>} :
  /\ Writes /\ f.wpend = Nothing /\ (utf16 \/ ws # <<"a", "lo">>)
  /\ LET r == Fputws(f, ws)
     IN f' = r.f /\ result' = r.c /\ put' = IF r.c = <<>> THEN put \o ws ELSE put

\* rewind, or a seek to the end; not while half a pair waits, which would be
\* read, or combined, at the new place.
CallFseek ==
  /\ Call /\ f.wpend = Nothing /\ reading # "no"
  /\ \E i \in {0, Len(Flushed(f).data)} : f' = Fseek(f, i) /\ from' = i
  /\ result' = <<>> /\ reading' = "no" /\ put' = <<>>
  /\ ahead' = Decoded(SubSeq(f'.data, from' + 1, Len(f'.data)))

WideNext ==
  \/ CallFgetwc \/ CallFgetws \/ CallUngetwc \/ CallLook
  \/ CallFputwc \/ CallFputws \/ CallFseek

WideSpec == WideInit /\ [][WideNext]_wideVars

-----------------------------------------------------------------------------
(* Properties                                                              *)

\* What is left to read is what the program has not read, and has put back: a
\* character cut by the end of the buffer, or in two, is neither lost nor read
\* twice, one that is illegal ends where the next can begin, and looking ahead
\* changes nothing (stdio.c:4241-4292, 4967-4987).
AheadExact ==
  reading = "read" =>
    (IF f.wpend = Nothing THEN <<>> ELSE <<f.wpend>>) \o Decoded(f.unread \o Rest(f)) = ahead

\* What the calls return comes in that order, and the end or an illegal
\* character is where they say so.
NextUnit == IF ahead = <<>> \/ ahead[1] = Bad THEN <<WEOF>> ELSE <<ahead[1]>>
InOrder ==
  /\ CallFgetwc \/ CallLook => result' = NextUnit
  /\ CallFgetws =>
       IF result' = <<WEOF>> THEN f'.err \/ NextUnit = <<WEOF>>
       ELSE /\ result' = SubSeq(ahead, 1, Len(result'))
            /\ Bad \notin {result'[j] : j \in 1 .. Len(result')}
ReadsInOrder == [][InOrder]_wideVars

\* The file receives the characters that were put, and no half of one: a half
\* whose other half does not follow is reported, not written.  Of a string in
\* which one is illegal fputws writes nothing, where the string fits into its
\* buffer of BUFSIZ bytes: of a longer one it has written the chunks before the
\* illegal character (stdio.c:4157-4190, 4336).
WritesWhole ==
  reading = "write" =>
    /\ Decoded(SubSeq(f.data, from + 1, f.pos) \o f.wr)
         = IF f.wpend = Nothing THEN put ELSE Front(put)
    /\ f.wpend # Nothing => put # <<>> /\ Last(put) = "hi"
=============================================================================
