------------------------------ MODULE FileBuffer ------------------------------
(***************************************************************************)
(* One FILE of csrc/stdio.c: the single buffer that serves reading and     *)
(* writing in turn, the room before it for pushed-back bytes, the calls    *)
(* that go through it, and the device under it, reached by its read, write *)
(* and seek operations: a descriptor, memory of a fixed size (fmemopen),   *)
(* memory that grows (open_memstream) or the functions of its creator      *)
(* (fopencookie).  A device may transfer less than asked and, where it is  *)
(* faulty, fail after part of a write.                                     *)
(*                                                                         *)
(* The eight pointers of a FILE come down to: which way the buffer is used *)
(* (rpos, wend non-null: never both), the unread bytes [rpos, rend) with   *)
(* rpos as an offset from buf, and the unwritten bytes [wbase, wpos) (they *)
(* start at buf).  A call runs under the FILE's lock (StdioLocks), so it   *)
(* is one step, or one step per turn of its loop.                          *)
(***************************************************************************)
EXTENDS Integers, Sequences

CONSTANTS
  Byte, NL,     \* bytes, and the one that ends a line
  Zero,         \* the byte that ends a string
  MaxContent,   \* bound: the bytes in a file, and the longest read or write
  UNGET,        \* room before the buffer
  Opens         \* the ways a stream is opened: mode, buffer, device and its
                \* size, and whether reads, writes and realloc may fail

\* Only a descriptor and fmemopen's array can be opened for appending, only
\* the array has a size.
ASSUME FileBufferAssumption ==
  /\ NL \in Byte /\ MaxContent \in Nat \ {0} /\ UNGET \in Nat \ {0}
  /\ \A o \in Opens :
       /\ o \in [rd : BOOLEAN, wr : BOOLEAN, app : BOOLEAN, seekable : BOOLEAN, tty : BOOLEAN,
                  probe : BOOLEAN, lbf : BOOLEAN, size : Nat, faulty : BOOLEAN,
                  dev : {"fd", "mem", "grow", "cookie"}, trunc : BOOLEAN, cap : Nat, dumb : BOOLEAN]
       /\ o.rd \/ o.wr
       /\ o.dev = "grow" => ~o.rd /\ o.trunc
       /\ o.app => o.dev \in {"fd", "mem"}
       /\ o.dev # "mem" => o.cap = 0

VARIABLES
  fp,    \* the FILE and the file behind it
  call,  \* the call whose loop runs: [op, want, got, cap, from]
  ret    \* the last call, its arguments, and what it returned

vars == <<fp, call, ret>>

-----------------------------------------------------------------------------
(* The devices.  file is the content and off the position in it.  Of       *)
(* memory, tail is what follows the content in the array.  An operator     *)
(* that may go several ways is the set of [p, n] or [p, s] it may leave    *)
(* behind: n of the bytes it was given are out, or s was read.             *)

Least(a, b) == IF a < b THEN a ELSE b
Most(a, b) == IF a > b THEN a ELSE b

\* c made n long with z, if it is shorter.
Padded(c, n, z) == c \o [i \in 1..Most(0, n - Len(c)) |-> z]

\* c with s written over it from position at on.
Overlay(c, at, s) ==
  SubSeq(c, 1, at) \o s \o SubSeq(c, at + Len(s) + 1, Len(c))

-----------------------------------------------------------------------------
(* A descriptor.                                                           *)

\* write(2): at the descriptor's offset, or at the end.
KernelWrite(p, s) ==
  LET at == IF p.app THEN Len(p.file) ELSE p.off
  IN [p EXCEPT !.file = Overlay(@, at, s), !.off = at + Len(s)]

\* The stream no longer writes: wpos, wbase and wend are null.
NotWriting(p) == [p EXCEPT !.held = <<>>, !.act = IF @ = "write" THEN "none" ELSE @]

\* __stdout_write looks once at what it writes to.
Probed(p) == [p EXCEPT !.probe = FALSE, !.lbf = @ /\ (~p.probe \/ p.svb \/ p.tty)]

\* __stdio_write, __std_go_write: the unwritten bytes, then s.  A failure
\* after k bytes throws away what is left of the buffer; n is how many
\* bytes of s are out.
StdioWrite(p, s) ==
  LET all == p.held \o s
      Out(k) == KernelWrite(Probed(p), SubSeq(all, 1, k))
  IN {[p |-> [Out(Len(all)) EXCEPT !.held = <<>>, !.act = "write"], n |-> Len(s)]}
     \cup {[p |-> [NotWriting(Out(k)) EXCEPT !.err = TRUE],
            n |-> Most(0, k - Len(p.held))]
           : k \in IF p.faulty THEN 0..(Len(all) - 1) ELSE {}}

\* read(2): some of what there is, at most n bytes.
KernelRead(p, n) ==
  {SubSeq(p.file, p.off + 1, p.off + k) : k \in 1..Least(n, Len(p.file) - p.off)}

\* __stdio_read: more than one byte goes straight to the caller, one byte
\* fills the buffer.
StdioRead(p, n) ==
  LET direct == n > 1 \/ p.size = 0
      Got(d) == [p EXCEPT !.off = @ + Len(d)]
  IN {IF direct THEN [p |-> Got(d), s |-> d]
      ELSE [p |-> [Got(d) EXCEPT !.rpos = 1, !.unread = Tail(d)], s |-> <<Head(d)>>]
      : d \in KernelRead(p, IF direct THEN n ELSE p.size)}
     \cup (IF p.off >= Len(p.file) THEN {[p |-> [p EXCEPT !.eof = TRUE], s |-> <<>>]} ELSE {})
     \cup (IF p.faulty THEN {[p |-> [p EXCEPT !.err = TRUE], s |-> <<>>]} ELSE {})

-----------------------------------------------------------------------------
(* fmemopen: an array of a fixed size.  The position may stand anywhere in *)
(* it, the content only grows.                                             *)

Array(p) == p.file \o p.tail
Filled(p, arr, len) == [p EXCEPT !.file = SubSeq(arr, 1, len),
                                 !.tail = SubSeq(arr, len + 1, Len(arr))]

\* Bytes that are gone without an error flag.
Lost(p, gone) == [p EXCEPT !.lost = @ \/ gone]

\* mem_write of s alone: what fits.  Content that grew is followed by a zero
\* byte, which in a full array that cannot be read takes the last byte's place.
MemPut(p, s) ==
  LET at == IF p.app THEN Len(p.file) ELSE p.off
      cap == Len(Array(p))
      n == Least(Len(s), cap - at)
      end == at + n
      over == end > Len(p.file) /\ end = cap /\ ~p.rd
      nul == IF over THEN cap ELSE IF end > Len(p.file) THEN end + 1 ELSE 0
      arr == Overlay(Array(p), at, SubSeq(s, 1, n))
  IN [p |-> [Filled(Lost(p, over), [i \in 1..cap |-> IF i = nul THEN Zero ELSE arr[i]],
                    Most(end, Len(p.file))) EXCEPT !.off = end],
      n |-> n]

\* mem_write: the unwritten bytes, then s.
MemWrite(p, s) ==
  LET h == MemPut([p EXCEPT !.held = <<>>, !.act = "write"], p.held)
      r == MemPut(h.p, s)
  IN IF h.n < Len(p.held) THEN {[p |-> Lost(h.p, TRUE), n |-> 0]}
     ELSE {[p |-> Lost(r.p, r.n < Len(s)), n |-> r.n]}

\* mem_read: what the caller asked for, and as much as the buffer takes.
MemRead(p, n) ==
  LET rem == Most(0, Len(p.file) - p.off)
      k == Least(n, rem)
      ahead == Least(rem - k, p.size)
  IN {[p |-> [p EXCEPT !.eof = @ \/ n > rem, !.rpos = 0, !.off = @ + k + ahead,
                       !.unread = SubSeq(p.file, p.off + k + 1, p.off + k + ahead)],
       s |-> SubSeq(p.file, p.off + 1, p.off + k)]}

-----------------------------------------------------------------------------
(* open_memstream: an array that realloc enlarges, with room for a zero    *)
(* byte after the content.  told is what the creator's size variable says. *)

\* The number that is a | b: bit by bit the greater of the two.
Bit(n, i) == (n \div 2 ^ i) % 2
BitOr(a, b) ==
  {c \in Most(a, b)..(a + b) : \A i \in 0..c : Bit(c, i) = Most(Bit(a, i), Bit(b, i))}

\* ms_write of s alone.  Of the old array nothing is changed when there is
\* no memory.
GrowPut(p, s) ==
  LET space == Len(Array(p))
      end == p.off + Len(s)
      Stored(arr) == [Filled(p, Overlay(arr, p.off, s), Most(end, Len(p.file)))
                      EXCEPT !.off = end, !.told = end]
  IN IF end < space THEN {[p |-> Stored(Array(p)), n |-> Len(s)]}
     ELSE {[p |-> Stored(Padded(Array(p), more, Zero)), n |-> Len(s)]
           : more \in BitOr(2 * space + 1, end + 1)}
          \cup (IF p.faulty THEN {[p |-> Lost(p, TRUE), n |-> 0]} ELSE {})

\* ms_write: the unwritten bytes, then s.
GrowWrite(p, s) ==
  LET q == [p EXCEPT !.held = <<>>, !.act = "write"]
  IN UNION {IF h.n < Len(p.held) THEN {h} ELSE GrowPut(h.p, s)
            : h \in IF p.held = <<>> THEN {[p |-> q, n |-> 0]} ELSE GrowPut(q, p.held)}

-----------------------------------------------------------------------------
(* fopencookie: functions of the creator.  A faulty one transfers some     *)
(* bytes, none, or reports an error.                                       *)

\* The creator's write function; n is -1 for an error.
CookiePut(p, s) ==
  {[p |-> KernelWrite(p, SubSeq(s, 1, k)), n |-> k]
   : k \in IF p.faulty THEN 0..Len(s) ELSE {Len(s)}}
  \cup (IF p.faulty THEN {[p |-> [NotWriting(p) EXCEPT !.err = TRUE], n |-> -1]} ELSE {})

Short(r, s) == Lost(r.p, r.n \in 0..(Len(s) - 1))

\* cookiewrite: the unwritten bytes, then s; without a function everything
\* is as good as written.
CookieWrite(p, s) ==
  LET q == [p EXCEPT !.held = <<>>, !.act = "write"]
  IN IF p.dumb THEN {[p |-> Lost(p, TRUE), n |-> Len(s)]}
     ELSE UNION {IF h.n < Len(p.held) THEN {[p |-> Short(h, p.held), n |-> 0]}
                 ELSE {[p |-> Short(r, s), n |-> Most(0, r.n)] : r \in CookiePut(h.p, s)}
                 : h \in IF p.held = <<>> THEN {[p |-> q, n |-> 0]} ELSE CookiePut(q, p.held)}

\* cookieread: all but one byte for the caller, then a buffer whose first
\* byte is the last one asked for.  Nothing read is the end or an error.
CookieRead(p, n) ==
  LET lead == IF p.size = 0 THEN n ELSE n - 1
      Got(q, d) == [q EXCEPT !.off = @ + Len(d)]
      Bail(q, s) ==
        LET e == [q EXCEPT !.unread = <<>>, !.rpos = 0]
        IN (IF q.off >= Len(q.file) THEN {[p |-> [e EXCEPT !.eof = TRUE], s |-> s]} ELSE {})
           \cup (IF q.faulty THEN {[p |-> [e EXCEPT !.err = TRUE], s |-> s]} ELSE {})
      Refill(q, s) ==
        {[p |-> [Got(q, d) EXCEPT !.rpos = 1, !.unread = Tail(d)], s |-> Append(s, Head(d))]
         : d \in KernelRead(q, q.size)} \cup Bail(q, s)
  IN IF lead = 0 THEN Refill(p, <<>>)
     ELSE Bail(p, <<>>)
          \cup UNION {IF p.size = 0 \/ Len(d) < lead THEN {[p |-> Got(p, d), s |-> d]}
                      ELSE Refill(Got(p, d), d) : d \in KernelRead(p, lead)}

-----------------------------------------------------------------------------
(* The operations of a FILE, by what is behind it.                         *)

WriteOp(p, s) ==
  CASE p.dev = "fd" -> StdioWrite(p, s)
    [] p.dev = "mem" -> MemWrite(p, s)
    [] p.dev = "grow" -> GrowWrite(p, s)
    [] p.dev = "cookie" -> CookieWrite(p, s)

\* open_memstream has no read operation: such a stream is not readable.
ReadOp(p, n) ==
  CASE p.dev = "fd" -> StdioRead(p, n)
    [] p.dev = "mem" -> MemRead(p, n)
    [] p.dev = "cookie" -> CookieRead(p, n)

\* lseek(2), mem_seek, ms_seek, cookieseek
SeekOp(p, t) ==
  IF p.seekable /\ t >= 0 /\ (p.dev = "mem" => t <= Len(Array(p)))
  THEN {[p |-> [p EXCEPT !.off = t], n |-> t]} ELSE {[p |-> p, n |-> -1]}

-----------------------------------------------------------------------------
(* The stream as its client sees it.                                       *)

Strings(m) == UNION {[1..n -> Byte] : n \in 0..m}

\* What a client may know of the stream, in ByteStream's terms: the content
\* with the unwritten bytes in place, the position before the unread ones.
Stream(p) ==
  LET at == IF p.app THEN Len(p.file) ELSE p.off
  IN [content |-> IF p.held = <<>> THEN p.file ELSE Overlay(Padded(p.file, at, Zero), at, p.held),
      pos |-> IF p.held # <<>> THEN at + Len(p.held)
              ELSE p.off - (Len(p.unread) - p.pushed),
      pushed |-> SubSeq(p.unread, 1, p.pushed),
      eof |-> p.eof, err |-> p.err \/ p.lost, app |-> p.app, late |-> p.app /\ p.dev = "mem"]

\* During a call's loop the client still sees the stream the call found.
Seen == IF call.op = "none" THEN Stream(fp) ELSE call.from
BS == INSTANCE ByteStream WITH stream <- Seen, ret <- ret

\* Bytes leave the buffer at rpos; the pushed-back ones are first.
Take(p, n) ==
  [p EXCEPT !.unread = SubSeq(@, n + 1, Len(@)), !.rpos = @ + n,
            !.pushed = Most(0, @ - n)]

-----------------------------------------------------------------------------
(* Writing.  An operator that may go several ways is the set of [p, n]     *)
(* it may leave behind.                                                    *)

\* __towrite
CanWrite(p) == p.act = "write" \/ p.wr
Writing(p) ==
  IF p.act = "write" THEN p
  ELSE [p EXCEPT !.act = "write", !.unread = <<>>, !.pushed = 0, !.rpos = 0]

Refused(p) == {[p |-> [p EXCEPT !.err = TRUE], n |-> 0]}
Room(p) == p.size - Len(p.held)
Held(p, s) == [p EXCEPT !.held = @ \o s]

\* putc_unlocked and __overflow
Putc(p, c) ==
  LET q == Writing(p)
  IN IF ~CanWrite(p) THEN Refused(p)
     ELSE IF Room(q) > 0 /\ ~(q.lbf /\ c = NL) THEN {[p |-> Held(q, <<c>>), n |-> 1]}
     ELSE WriteOp(q, <<c>>)

\* Where the last newline is.
LastNL(s) ==
  IF \E i \in 1..Len(s) : s[i] = NL
  THEN CHOOSE i \in 1..Len(s) : s[i] = NL /\ \A j \in (i + 1)..Len(s) : s[j] # NL ELSE 0

\* __fwritex: a line-buffered stream writes up to the last newline.
Fwritex(p, s) ==
  LET q == Writing(p)
      i == IF q.lbf THEN LastNL(s) ELSE 0
  IN IF ~CanWrite(p) THEN Refused(p)
     ELSE IF Len(s) > Room(q) THEN WriteOp(q, s)
     ELSE UNION {IF i > 0 /\ o.n < i THEN {o}
                 ELSE {[p |-> Held(o.p, SubSeq(s, i + 1, Len(s))), n |-> Len(s)]}
                 : o \in IF i > 0 THEN WriteOp(q, SubSeq(s, 1, i)) ELSE {[p |-> q, n |-> 0]}}

\* Unwritten bytes go out: fflush, fseek and __toread begin with this.
Flushed(p) == IF p.held = <<>> THEN {p} ELSE {o.p : o \in WriteOp(p, <<>>)}

-----------------------------------------------------------------------------
(* Reading.                                                                *)

\* __toread: leaves writing (a failure to write shows only in the error
\* flag) and starts with an empty buffer, rpos at its end.
ToRead(p) ==
  {LET q == NotWriting(o)
   IN IF q.rd THEN [q EXCEPT !.act = "read", !.rpos = q.size, !.unread = <<>>, !.pushed = 0]
      ELSE [q EXCEPT !.err = TRUE] : o \in Flushed(p)}

\* __toread, then a read of n bytes unless it refuses.
Fill(p, n) ==
  UNION {IF q.rd /\ ~q.eof THEN ReadOp(q, n) ELSE {[p |-> q, s |-> <<>>]} : q \in ToRead(p)}

\* getc_unlocked
Getc(p) ==
  IF p.unread # <<>> THEN {[p |-> Take(p, 1), s |-> <<Head(p.unread)>>]} ELSE Fill(p, 1)

Idle == call.op = "none"
NoCall == [op |-> "none"]
Returns(o, a, v) == ret' = [op |-> o, arg |-> a, val |-> v]

\* A call with a loop starts, ends, or takes another turn with what it has.
Begin(o, n, c) ==
  /\ Idle
  /\ call' = [op |-> o, want |-> n, got |-> <<>>, cap |-> c, from |-> Stream(fp)]
  /\ UNCHANGED <<fp, ret>>
End(p, o, s) == fp' = p /\ call' = NoCall /\ Returns(o, <<call.want>>, s)
Turn(p, s, c) == fp' = p /\ call' = [call EXCEPT !.got = s, !.cap = c] /\ UNCHANGED ret

\* fread: the buffer first, then reads for the rest.
FreadTurn ==
  LET left == call.want - Len(call.got)
      k == Least(Len(fp.unread), left)
  IN /\ call.op = "fread"
     /\ IF left = 0 THEN End(fp, "get", call.got)
        ELSE IF k > 0 THEN Turn(Take(fp, k), call.got \o SubSeq(fp.unread, 1, k), 0)
        ELSE \E o \in Fill(fp, left) :
               IF o.s = <<>> THEN End(o.p, "get", call.got) ELSE Turn(o.p, call.got \o o.s, 0)

\* How far the buffer goes to the next newline, and whether there is one.
HasNL(s) == \E i \in 1..Len(s) : s[i] = NL
ToNL(s) ==
  IF HasNL(s) THEN CHOOSE i \in 1..Len(s) : s[i] = NL /\ \A j \in 1..(i - 1) : s[j] # NL
  ELSE Len(s)

\* fgets: what the buffer has of the line, then one byte by getc.
FgetsTurn ==
  LET left == call.want - Len(call.got)
      k == Least(ToNL(fp.unread), left)
      p == Take(fp, k)
      s == call.got \o SubSeq(fp.unread, 1, k)
  IN /\ call.op = "fgets"
     /\ IF k > 0 /\ (HasNL(fp.unread) \/ k = left) THEN End(p, "line", s)
        ELSE \E o \in Getc(p) :
               LET t == s \o o.s
               IN IF o.s = <<>> THEN End(o.p, "line", IF o.p.eof THEN t ELSE <<>>)
                  ELSE IF o.s = <<NL>> \/ Len(t) = call.want THEN End(o.p, "line", t)
                  ELSE Turn(o.p, t, 0)

\* The sizes the storage may have once it holds i + k bytes: the one it had,
\* half as much again as needed while the line goes on, or, when that cannot
\* be had, just what is needed.
Sizes(i, k, c, z) ==
  IF i + k < c THEN {c}
  ELSE {i + k + 2, IF z THEN i + k + 2 ELSE (i + k + 2) + ((i + k + 2) \div 2)}

\* getdelim: like fgets into storage that grows; a byte that has no place
\* is pushed back for the next turn, once the storage has grown.
GetdelimTurn ==
  LET i == Len(call.got)
      k == ToNL(fp.unread)
      z == HasNL(fp.unread)
      p == Take(fp, k)
      s == call.got \o SubSeq(fp.unread, 1, k)
      short == call.cap - i
  IN /\ call.op = "getdelim"
     /\ \/ \* both reallocs fail: as much as fits is copied
           /\ fp.faulty /\ i + k >= call.cap
           /\ End([Take(fp, short) EXCEPT !.err = TRUE], "line", <<>>)
        \/ \E c \in Sizes(i, k, call.cap, z) :
             IF z THEN End(p, "line", s)
             ELSE \E o \in Getc(p) :
                    IF o.s = <<>> THEN End(o.p, "line", IF o.p.eof THEN s ELSE <<>>)
                    ELSE IF Len(s) + 1 >= c
                    THEN Turn([o.p EXCEPT !.unread = o.s \o @, !.rpos = @ - 1], s, c)
                    ELSE IF o.s = <<NL>> THEN End(o.p, "line", s \o o.s)
                    ELSE Turn(o.p, s \o o.s, c)

-----------------------------------------------------------------------------
(* The calls.  C leaves a write right after a read, with bytes still       *)
(* unread, undefined: the client flushes or seeks in between.              *)

Fits(n) == Most(Len(Stream(fp).content), fp.off) + n <= MaxContent
MayPut(n) == Idle /\ fp.unread = <<>> /\ Fits(n)

fputc ==
  \E c \in Byte : \E o \in Putc(fp, c) :
    /\ MayPut(1)
    /\ fp' = o.p /\ Returns("put", <<c>>, o.n) /\ UNCHANGED call

fwrite ==
  \E s \in Strings(MaxContent) \ {<<>>} : \E o \in Fwritex(fp, s) :
    /\ MayPut(Len(s))
    /\ fp' = o.p /\ Returns("put", s, o.n) /\ UNCHANGED call

fgetc ==
  /\ Idle
  /\ \E o \in Getc(fp) : fp' = o.p /\ Returns("get", <<1>>, o.s) /\ UNCHANGED call

fread == \E n \in {1, MaxContent} : Begin("fread", n, 0)
fgets == \E n \in {1, MaxContent} : Begin("fgets", n, 0)
getdelim == \E c \in {0, 2} : Begin("getdelim", 0, c)

Ungetc_TooFar(p, c) ==
  {IF q.act # "read" \/ q.rpos < -UNGET THEN [p |-> q, n |-> 0]
   ELSE [p |-> [q EXCEPT !.unread = <<c>> \o @, !.rpos = @ - 1, !.pushed = @ + 1,
                         !.eof = FALSE], n |-> 1]
   : q \in IF p.act = "read" THEN {p} ELSE ToRead(p)}

\* A byte is put before rpos, down to UNGET bytes before the buffer.
Ungetc(p, c) ==
  {IF q.act # "read" \/ q.rpos <= -UNGET THEN [p |-> q, n |-> 0]
   ELSE [p |-> [q EXCEPT !.unread = <<c>> \o @, !.rpos = @ - 1, !.pushed = @ + 1,
                         !.eof = FALSE], n |-> 1]
   : q \in IF p.act = "read" THEN {p} ELSE ToRead(p)}

ungetc ==
  /\ Idle
  /\ \E c \in Byte : \E o \in Ungetc(fp, c) :
       fp' = o.p /\ Returns("unget", <<c>>, o.n) /\ UNCHANGED call

Idled(p) == [NotWriting(p) EXCEPT !.unread = <<>>, !.pushed = 0, !.act = "none", !.rpos = 0]

\* Where lseek is asked to go.
Target(p, whence, o) ==
  CASE whence = "SET" -> o
    [] whence = "CUR" -> p.off + o
    [] whence = "END" -> Len(p.file) + o

\* The readahead is not counted.
FseekFrom_Raw(p, whence, o) ==
  UNION {IF q.act = "none" /\ p.held # <<>> THEN {[p |-> q, n |-> -1]}
         ELSE {IF k.n < 0 THEN [p |-> k.p, n |-> -1]
               ELSE [p |-> [Idled(k.p) EXCEPT !.eof = FALSE], n |-> 0]
               : k \in SeekOp(NotWriting(q), Target(q, whence, o))} : q \in Flushed(p)}

\* __fseeko_unlocked: a relative offset counts from the byte the client is
\* at, then the buffer is written; a refused seek keeps what is unread.
FseekFrom(p, whence, o) ==
  LET adj == IF whence = "CUR" THEN o - Len(p.unread) ELSE o
  IN UNION {IF q.act = "none" /\ p.held # <<>> THEN {[p |-> q, n |-> -1]}
            ELSE {IF k.n < 0 THEN [p |-> k.p, n |-> -1]
                  ELSE [p |-> [Idled(k.p) EXCEPT !.eof = FALSE], n |-> 0]
                  : k \in SeekOp(NotWriting(q), Target(q, whence, adj))} : q \in Flushed(p)}

\* The client seeks past the end in memory that grows only.
Seeks == {<<"SET", 1>>, <<"CUR", 0>>, <<"CUR", -1>>, <<"END", 0>>, <<"END", -1>>, <<"END", 1>>}
Reachable(p) == p.off <= IF p.dev = "grow" THEN MaxContent ELSE Len(p.file)
fseek ==
  /\ Idle
  /\ \E w \in Seeks : \E r \in FseekFrom(fp, w[1], w[2]) :
       /\ Reachable(r.p)
       /\ fp' = r.p /\ Returns("seek", w, r.n) /\ UNCHANGED call

\* rewind: as fseek to 0, and the error flag is cleared whatever happened.
rewind ==
  /\ Idle
  /\ \E r \in FseekFrom(fp, "SET", 0) :
       fp' = [r.p EXCEPT !.err = FALSE] /\ Returns("rewind", <<>>, r.n) /\ UNCHANGED call

\* __ftello_unlocked
ftell ==
  /\ Idle
  /\ \E k \in SeekOp(fp, IF fp.dev = "fd" /\ fp.app /\ fp.held # <<>> THEN Len(fp.file) ELSE fp.off) :
       /\ fp' = k.p
       /\ Returns("tell", <<>>, IF k.n < 0 THEN -1
                          ELSE IF fp.act = "read" THEN k.n - Len(fp.unread)
                          ELSE k.n + Len(fp.held))
  /\ UNCHANGED call

FflushUnlocked_Zero(p) ==
  UNION {{[p |-> Idled(k.p), n |-> 0]
          : k \in IF q.unread = <<>> THEN {[p |-> q]}
                  ELSE SeekOp(q, q.off - Len(q.unread))} : q \in Flushed(p)}

\* __fflush_unlocked: of a reader, the descriptor is moved to where the
\* client is, and a failure of that is ignored.  On a stream that cannot
\* seek this would lose what is unread: the client does not.
FflushUnlocked(p) ==
  UNION {IF q.act = "none" /\ p.held # <<>> THEN {[p |-> q, n |-> -1]}
         ELSE {[p |-> Idled(k.p), n |-> 0]
               : k \in IF q.unread = <<>> THEN {[p |-> q]}
                       ELSE SeekOp(q, q.off - Len(q.unread))} : q \in Flushed(p)}

fflush ==
  /\ Idle /\ (fp.unread # <<>> => fp.seekable)
  /\ \E o \in FflushUnlocked(fp) : fp' = o.p /\ Returns("flush", <<>>, o.n) /\ UNCHANGED call

\* setvbuf, before anything else is done with the stream.
setvbuf ==
  /\ Idle /\ ret.op = "open" /\ ~fp.svb
  /\ \E mode \in {"NBF", "LBF", "FBF"} :
       fp' = [fp EXCEPT !.svb = TRUE, !.size = IF mode = "NBF" THEN 0 ELSE @,
                        !.lbf = mode = "LBF" /\ fp.size > 0]
  /\ UNCHANGED <<call, ret>>

clearerr ==
  /\ Idle
  /\ fp' = [fp EXCEPT !.eof = FALSE, !.err = FALSE]
  /\ Returns("clearerr", <<>>, 0) /\ UNCHANGED call

-----------------------------------------------------------------------------

\* What a stream starts from.  fmemopen's array is all content to a reader,
\* a string to who appends, nothing to who starts anew.
Contents(o) ==
  {s \in Strings(MaxContent - 1) :
     /\ o.trunc => s = <<>>
     /\ o.dev = "mem" => Len(s) \in IF o.app \/ o.trunc THEN 0..o.cap ELSE {o.cap}}
Behind(o, s) ==
  [i \in 1..Most(0, o.cap - Len(s)) |-> IF i = 1 /\ (o.rd \/ o.app) THEN Zero ELSE NL]

\* __file_init_fd, one of the standard streams, __file_init_mem,
\* open_memstream or fopencookie.
Opened(o, s) ==
  [rd |-> o.rd, wr |-> o.wr, app |-> o.app, seekable |-> o.seekable, tty |-> o.tty,
   probe |-> o.probe, lbf |-> o.lbf, size |-> o.size, faulty |-> o.faulty, dev |-> o.dev,
   trunc |-> o.trunc, cap |-> o.cap, dumb |-> o.dumb,
   file |-> s, tail |-> Behind(o, s), off |-> IF o.dev = "mem" /\ o.app THEN Len(s) ELSE 0,
   told |-> 0, act |-> "none", rpos |-> 0, unread |-> <<>>, held |-> <<>>,
   pushed |-> 0, svb |-> FALSE, eof |-> FALSE, err |-> FALSE, lost |-> FALSE]

Init ==
  /\ fp \in UNION {{Opened(o, s) : s \in Contents(o)} : o \in Opens}
  /\ call = NoCall
  /\ ret = [op |-> "open", arg |-> <<>>, val |-> 0]

Next ==
  \/ fputc \/ fwrite \/ fgetc \/ fread \/ fgets \/ getdelim
  \/ FreadTurn \/ FgetsTurn \/ GetdelimTurn
  \/ ungetc \/ fseek \/ rewind \/ ftell \/ fflush \/ setvbuf \/ clearerr

Spec == Init /\ [][Next]_vars

-----------------------------------------------------------------------------
(* Properties.                                                             *)

TypeOK ==
  /\ Len(fp.file) <= MaxContent /\ fp.off \in 0..MaxContent /\ fp.told \in 0..Len(fp.file)
  /\ fp.act \in {"none", "read", "write"}
  /\ \A s \in {fp.file, fp.tail, fp.held, fp.unread} : \A i \in 1..Len(s) : s[i] \in Byte \cup {Zero}
  /\ fp.pushed \in 0..Len(fp.unread)
  /\ \A b \in {fp.svb, fp.eof, fp.err, fp.lost, fp.lbf, fp.probe} : b \in BOOLEAN
  /\ call.op \in {"none", "fread", "fgets", "getdelim"}

\* The two uses of the buffer never overlap, and neither leaves it: reading
\* stays within [buf - UNGET, buf + buf_size), writing within [buf, ...).
WithinBuffer ==
  /\ fp.act # "read" => fp.unread = <<>>
  /\ fp.act # "write" => fp.held = <<>>
  /\ Len(fp.held) <= fp.size
  /\ fp.act = "read" => fp.rpos >= -UNGET /\ fp.rpos + Len(fp.unread) <= fp.size

\* On a line-buffered stream a complete line never waits in the buffer.
LinesGoOut == fp.lbf => ~HasNL(fp.held)

\* Memory: fmemopen's array keeps its size and the position stays in it; what
\* open_memstream's creator is told is followed by a byte of the array; and
\* content that does not fill its array is a string, once it was written.
MemorySound ==
  /\ fp.dev = "mem" => Len(Array(fp)) = fp.cap /\ fp.off <= fp.cap
  /\ fp.dev = "grow" /\ fp.told > 0 => fp.told < Len(Array(fp))
  /\ fp.dev \in {"mem", "grow"} /\ fp.file # <<>> /\ fp.tail # <<>> => Head(fp.tail) = Zero

BufferSound == TypeOK /\ WithinBuffer /\ LinesGoOut /\ MemorySound

\* What a full array takes of c, of which the last byte may be the zero that
\* ends it; memory that cannot grow takes nothing of what was unwritten.
CutShort(p, c, f) ==
  CASE p.dev = "mem" -> Len(f) = p.cap /\ \A i \in 1..(p.cap - 1) : f[i] = c[i]
    [] p.dev = "grow" -> f = p.file
    [] OTHER -> TRUE

\* When fflush says 0, the file holds all that the client has written.  Memory
\* streams say 0 also when it did not fit: what is there then is still right.
FlushedIsOut ==
  [][Idle /\ ret'.op = "flush" /\ ret'.val = 0 /\ ret' # ret /\ ~fp.lost
       => IF fp'.lost THEN CutShort(fp, Seen.content, fp'.file) ELSE fp'.file = Seen.content]_vars

\* The FILE keeps ByteStream's promises: every call returns what an
\* unbuffered stream would, or the error flag is set, or memory was short.
KeepsPromise == BS!Spec

-----------------------------------------------------------------------------
(* The instance that TLC checks: Streams is the value of Opens.            *)

File(r, w, a, b, n) ==
  [rd |-> r, wr |-> w, app |-> a, seekable |-> TRUE, tty |-> FALSE, probe |-> FALSE,
   lbf |-> b, size |-> n, faulty |-> TRUE,
   dev |-> "fd", trunc |-> FALSE, cap |-> 0, dumb |-> FALSE]
Pipe(n) == [File(TRUE, FALSE, FALSE, FALSE, n) EXCEPT !.seekable = FALSE]
Stdout(t) == [File(FALSE, TRUE, FALSE, TRUE, 2) EXCEPT !.probe = TRUE, !.tty = t]

Sound(o) == [o EXCEPT !.faulty = FALSE]

\* fmemopen of a short array, open_memstream, fopencookie.
Memory(r, w, a, t, c) ==
  [File(r, w, a, FALSE, 1) EXCEPT !.dev = "mem", !.trunc = t, !.cap = c, !.faulty = FALSE]
Growing == [File(FALSE, TRUE, FALSE, FALSE, 1) EXCEPT !.dev = "grow", !.trunc = TRUE]
Cookie(r, w) == [File(r, w, FALSE, FALSE, 1) EXCEPT !.dev = "cookie"]
DumbCookie == [Cookie(FALSE, TRUE) EXCEPT !.dumb = TRUE, !.faulty = FALSE]

\* "r+" on a terminal and "a+", a pipe to read from, and stdout on a terminal
\* and elsewhere; "w+", "w" and "a" on memory, and the other two kinds.
\* The buffer is shorter than a file may get.
Streams ==
  {Sound(File(TRUE, TRUE, FALSE, TRUE, 2)), File(TRUE, TRUE, TRUE, FALSE, 1), Sound(Pipe(1)),
   Sound(Stdout(TRUE)), Sound(Stdout(FALSE)),
   Memory(TRUE, TRUE, FALSE, TRUE, 2), Memory(FALSE, TRUE, FALSE, TRUE, 2),
   Memory(FALSE, TRUE, TRUE, FALSE, 2),
   Growing, Cookie(FALSE, TRUE), Sound(Cookie(TRUE, FALSE)), DumbCookie}

\* Where memory was short and bytes are gone a behaviour is followed no further.
NothingLost == ~fp.lost

\* What TLC tells states apart by.  No step depends on what the last call
\* returned, save that setvbuf comes first, and no property but FlushedIsOut,
\* which compares an fflush with one before it.
View == <<fp, call, ret.op = "open", ret.op = "flush" /\ ret.val = 0>>
=============================================================================
