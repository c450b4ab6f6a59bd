------------------------------ MODULE ByteStream ------------------------------
(***************************************************************************)
(* What a FILE promises: a sequence of bytes and a position in it, at most *)
(* a few pushed-back bytes before it, an end-of-file flag that stays until *)
(* the stream is repositioned, and an error flag.  There is no buffer: a   *)
(* byte written is in the content at once.  Once an error is reported the  *)
(* content and the position are indeterminate.                             *)
(***************************************************************************)
EXTENDS Integers, Sequences

CONSTANTS Byte, NL, Zero, MaxContent

VARIABLES
  stream,  \* [content, pos, pushed, eof, err, app, late]
  ret      \* the last call, its arguments, and what it returned

Least(a, b) == IF a < b THEN a ELSE b
Most(a, b) == IF a > b THEN a ELSE b

\* c made n long with z, if it is shorter.
Padded(c, n, z) == c \o [i \in 1..Most(0, n - Len(c)) |-> z]

\* c with s written over it from position at on.
Overlay(c, at, s) ==
  SubSeq(c, 1, at) \o s \o SubSeq(c, at + Len(s) + 1, Len(c))

\* The bytes a reader has before it.
Ahead(st) == st.pushed \o SubSeq(st.content, st.pos + 1, Len(st.content))
Told(st) == st.pos - Len(st.pushed)

\* The stream after n of the bytes ahead were taken.
Consumed(st, n) ==
  LET back == Len(st.pushed)
  IN [st EXCEPT !.pushed = SubSeq(st.pushed, n + 1, back),
                !.pos = @ + Most(0, n - back)]

Returns(o, a, v) == ret' = [op |-> o, arg |-> a, val |-> v]

Put(s) ==
  LET at == IF stream.app THEN Len(stream.content) ELSE stream.pos
  IN /\ Returns("put", s, Len(s))
     /\ stream.pushed = <<>>
     /\ stream' = [stream EXCEPT !.content = Overlay(Padded(@, at, Zero), at, s), !.pos = at + Len(s)]

\* Reading n bytes: all there are when fewer, and then the end is noticed.
Get(n) ==
  LET k == IF stream.eof THEN 0 ELSE Least(n, Len(Ahead(stream)))
  IN /\ Returns("get", <<n>>, SubSeq(Ahead(stream), 1, k))
     /\ stream' = [Consumed(stream, k) EXCEPT !.eof = @ \/ k < n]

\* Reading up to and including the next newline, n bytes at most (0: as
\* many as there are).
LineLength(st) ==
  LET ends == {i \in 1..Len(Ahead(st)) : Ahead(st)[i] = NL}
  IN IF ends = {} THEN Len(Ahead(st)) + 1 ELSE CHOOSE i \in ends : \A j \in ends : i <= j
Line(n) ==
  LET most == LineLength(stream)
      want == IF n = 0 THEN most ELSE Least(n, most)
      k == IF stream.eof THEN 0 ELSE Least(want, Len(Ahead(stream)))
  IN /\ Returns("line", <<n>>, SubSeq(Ahead(stream), 1, k))
     /\ stream' = [Consumed(stream, k) EXCEPT !.eof = @ \/ k < want]

\* A byte pushed back is read next; one always fits, more may not.
Unget(c) ==
  /\ Returns("unget", <<c>>, 1)
  /\ stream' = [stream EXCEPT !.pushed = <<c>> \o @, !.eof = FALSE]
UngetRefused(c) ==
  /\ Returns("unget", <<c>>, 0)
  /\ stream.pushed # <<>>
  /\ UNCHANGED stream

\* A seek forgets what was pushed back; one that is refused changes nothing.
Base(whence) ==
  CASE whence = "SET" -> 0
    [] whence = "CUR" -> Told(stream)
    [] whence = "END" -> Len(stream.content)
Seek(whence, o) ==
  /\ Returns("seek", <<whence, o>>, 0)
  /\ Base(whence) + o >= 0
  /\ stream' = [stream EXCEPT !.pos = Base(whence) + o, !.pushed = <<>>, !.eof = FALSE]
SeekRefused(whence, o) ==
  /\ Returns("seek", <<whence, o>>, -1)
  /\ UNCHANGED stream

\* rewind always clears the error flag.  When it fails inside it leaves the
\* client without a sign of that: val -1 is not returned to anybody.
Rewind ==
  /\ Returns("rewind", <<>>, 0)
  /\ stream' = [stream EXCEPT !.pos = 0, !.pushed = <<>>, !.eof = FALSE, !.err = FALSE]
RewindFails ==
  /\ Returns("rewind", <<>>, -1)
  /\ stream'.app = stream.app /\ stream'.late = stream.late

\* In memory opened for appending, bytes written after a seek are told where
\* the seek went until they are in the content.
Tell ==
  /\ \E t \in {Told(stream)} \cup IF stream.late THEN 0..Told(stream) ELSE {} :
       Returns("tell", <<>>, t)
  /\ UNCHANGED stream
TellRefused ==
  /\ Returns("tell", <<>>, -1)
  /\ UNCHANGED stream

\* Pushed-back bytes are forgotten and the position stays before them; it
\* is indeterminate when they were pushed back at the start.
Flush ==
  /\ Returns("flush", <<>>, 0)
  /\ \E t \in IF Told(stream) < 0 THEN 0..Len(stream.content) ELSE {Told(stream)} :
       stream' = [stream EXCEPT !.pos = t, !.pushed = <<>>]

ClearErr ==
  /\ Returns("clearerr", <<>>, 0)
  /\ stream' = [stream EXCEPT !.eof = FALSE, !.err = FALSE]

Fault == stream'.err /\ stream'.app = stream.app /\ stream'.late = stream.late

Init ==
  /\ stream \in [content : UNION {[1..n -> Byte] : n \in 0..MaxContent}, pos : 0..MaxContent,
                 pushed : {<<>>}, eof : {FALSE}, err : {FALSE}, app : BOOLEAN, late : BOOLEAN]
  /\ ret = [op |-> "open", arg |-> <<>>, val |-> 0]

Next ==
  \/ \E n \in 1..MaxContent : \E s \in [1..n -> Byte] : Put(s)
  \/ \E n \in 0..MaxContent : Get(n) \/ Line(n)
  \/ \E c \in Byte : Unget(c) \/ UngetRefused(c)
  \/ \E whence \in {"SET", "CUR", "END"}, o \in (-MaxContent)..MaxContent :
       Seek(whence, o) \/ SeekRefused(whence, o)
  \/ Rewind \/ RewindFails \/ Tell \/ TellRefused \/ Flush \/ ClearErr \/ Fault

Spec == Init /\ [][Next]_<<stream, ret>>
=============================================================================
