------------------------------ MODULE DirStream ------------------------------
(***************************************************************************)
(* Directory streams on unix: internal/posixdir behind the root DIR        *)
(* (csrc/dirent.c, dirent.go), an id in unmanaged memory, and behind       *)
(* mlib's (csrc/mlib/dirent.c, mlib/dirent.go), a managed pointer the      *)
(* collector follows.  A stream owns one kernel descriptor, reads its      *)
(* directory in batches, and rewinds by opening its path again.            *)
(*                                                                         *)
(* A DIR is used by one thread at a time, so each call on one is a step,   *)
(* except that opendir and fdopendir make the stream and the carrier in    *)
(* two.  While streams are open, other code opens and closes descriptors,  *)
(* and the file system changes: entries come and go and the path may come  *)
(* to name another directory, or none.                                     *)
(***************************************************************************)
EXTENDS SequencesExt, Integers

CONSTANTS
  Carriers,      \* DIR objects
  Managed,       \* those of mlib
  Readers,       \* bound: those readdir is called on
  Dirs, Names,   \* directories; names of their entries other than . and ..
  Gone,          \* what the path names when it names nothing
  Plain,         \* the node of a descriptor that is no directory
  MaxFd, Closed,
  Batch,         \* entries one ReadDir hands out, 64 in the code
  Contents,      \* what the directories may hold at first
  MaxChanges,    \* bound: changes of the file system in a behaviour
  AllocFails,    \* the calls, opendir or fdopendir, whose carrier may not fit
  Lost           \* is the kernel's descriptor 0 closed at some time

DirStreamConstants ==
  /\ Managed \subseteq Carriers /\ Readers \subseteq Carriers
  /\ Contents \subseteq [Dirs -> SUBSET Names]
  /\ Gone \notin Dirs /\ Plain \notin Dirs
  /\ IsFiniteSet(Names) /\ {".", ".."} \cap Names = {}
  /\ Closed \notin 0 .. MaxFd
  /\ Closed \notin [node : Dirs \cup {Plain}, left : SUBSET Names, passed : SUBSET Names]
  /\ MaxFd \in Nat /\ MaxFd > 2 /\ Batch \in Nat \ {0} /\ MaxChanges \in Nat
  /\ AllocFails \subseteq {"opendir", "fdopendir"}
  /\ Lost \in BOOLEAN

VARIABLES
  content,  \* directory -> names of its entries
  path,     \* the directory the path names, or Gone
  changes,  \* changes of the file system so far
  fdt,      \* kernel: number -> [node, left, passed], or Closed
  own,      \* numbers C holds from open
  stdin,    \* is the kernel's descriptor 0 still os.Stdin
  dir,      \* carrier -> its DIR and stream
  got,      \* ghost: carrier -> names readdir returned since the stream began
  must      \* ghost: carrier -> names there all along, not returned yet

vars == <<content, path, changes, fdt, own, stdin, dir, got, must>>
fs == <<content, path, changes>>

Fds == 0 .. MaxFd
Dot == "."
DotDot == ".."

\* An open file: its node; what reading it has handed out and is yet to.
File(node) ==
  [node |-> node, left |-> IF node \in Dirs THEN content[node] ELSE {}, passed |-> {}]

FreeFrom(low) == {n \in Fds : n >= low /\ fdt[n] = Closed}
LowestFrom(low) == CHOOSE n \in FreeFrom(low) : \A m \in FreeFrom(low) : n <= m

NoDir == [st |-> "none", by |-> "none", fd |-> Closed, named |-> FALSE, dot |-> 0,
          pending |-> <<>>, end |-> FALSE]

\* A stream over number n; "named" if its path is known.
NewFile(n, by, named) ==
  [NoDir EXCEPT !.st = "bare", !.by = by, !.fd = n, !.named = named]

Live(c) == dir[c].st \in {"bare", "open", "dropped"}

TypeOK ==
  /\ content \in [Dirs -> SUBSET Names] /\ path \in Dirs \cup {Gone}
  /\ changes \in 0 .. MaxChanges
  /\ \A n \in Fds : fdt[n] # Closed => fdt[n].node \in Dirs \cup {Plain}
  /\ own \subseteq Fds /\ stdin \in BOOLEAN
  /\ \A c \in Carriers :
       /\ dir[c].st \in {"none", "bare", "open", "retired", "dropped"}
       /\ Live(c) <=> dir[c].fd # Closed
       /\ dir[c].dot \in 0 .. 2 /\ Len(dir[c].pending) < Batch
       /\ must[c] \subseteq Names

Init ==
  /\ content \in Contents
  /\ path \in Dirs
  /\ changes = 0
  /\ fdt = [n \in Fds |-> IF n < 3 THEN [node |-> Plain, left |-> {}, passed |-> {}]
                          ELSE Closed]
  /\ own = {} /\ stdin = TRUE
  /\ dir = [c \in Carriers |-> NoDir]
  /\ got = [c \in Carriers |-> <<>>]
  /\ must = [c \in Carriers |-> {}]

-----------------------------------------------------------------------------
(* opendir, fdopendir                                                      *)

\* A reading of the directory begins.
Begins(c, names) ==
  /\ got' = [got EXCEPT ![c] = <<>>]
  /\ must' = [must EXCEPT ![c] = names]

\* posixdir.Open
OpenDir(c) ==
  /\ dir[c].st = "none" /\ path # Gone /\ FreeFrom(0) # {}
  /\ LET n == LowestFrom(0) IN
       /\ fdt' = [fdt EXCEPT ![n] = File(path)]
       /\ dir' = [dir EXCEPT ![c] = NewFile(n, "opendir", TRUE)]
  /\ Begins(c, content[path])
  /\ UNCHANGED <<fs, own, stdin>>

\* posixdir.OpenFD: the kernel tells the path of n, or cannot.
FdOpenDir(c, n) ==
  /\ dir[c].st = "none" /\ n \in own /\ fdt[n].node \in Dirs
  /\ \E named \in {path = fdt[n].node, FALSE} :
       dir' = [dir EXCEPT ![c] = NewFile(n, "fdopendir", named)]
  /\ own' = own \ {n}
  /\ Begins(c, fdt[n].left)
  /\ UNCHANGED <<fs, fdt, stdin>>

NewCarrier(c) ==
  /\ dir[c].st = "bare"
  /\ dir' = [dir EXCEPT ![c].st = "open"]
  /\ UNCHANGED <<fs, fdt, own, stdin, got, must>>

\* malloc or gc_malloc of the carrier fails: the stream is closed.
NoCarrier(c) ==
  /\ dir[c].st = "bare" /\ dir[c].by \in AllocFails
  /\ fdt' = [fdt EXCEPT ![dir[c].fd] = Closed]
  /\ dir' = [dir EXCEPT ![c] = NoDir]
  /\ UNCHANGED <<fs, own, stdin, got, must>>

-----------------------------------------------------------------------------
(* readdir, readdir_r                                                      *)

Returns(c, name) ==
  /\ got' = [got EXCEPT ![c] = Append(@, name)]
  /\ must' = [must EXCEPT ![c] = @ \ {name}]

ReadDot(c) ==
  /\ dir[c].st = "open" /\ dir[c].dot < 2
  /\ dir' = [dir EXCEPT ![c].dot = @ + 1]
  /\ Returns(c, IF dir[c].dot = 0 THEN Dot ELSE DotDot)
  /\ UNCHANGED <<fs, fdt, own, stdin>>

ReadPending(c) ==
  /\ dir[c].st = "open" /\ dir[c].dot = 2 /\ dir[c].pending # <<>>
  /\ dir' = [dir EXCEPT ![c].pending = Tail(@)]
  /\ Returns(c, Head(dir[c].pending))
  /\ UNCHANGED <<fs, fdt, own, stdin>>

\* The kernel may leave out entries that came after the directory was opened.
ReadBatch(c) ==
  /\ dir[c].st = "open" /\ dir[c].dot = 2 /\ dir[c].pending = <<>>
  /\ LET file == fdt[dir[c].fd] IN
       \E names \in SUBSET (content[file.node] \ file.passed) :
         /\ names # {} /\ Cardinality(names) <= Batch
         /\ fdt' = [fdt EXCEPT ![dir[c].fd].left = @ \ names,
                               ![dir[c].fd].passed = @ \cup names]
         /\ dir' = [dir EXCEPT ![c].pending = Tail(SetToSeq(names))]
         /\ Returns(c, Head(SetToSeq(names)))
  /\ UNCHANGED <<fs, own, stdin>>

ReadEnd(c) ==
  /\ dir[c].st = "open" /\ dir[c].dot = 2 /\ dir[c].pending = <<>>
  /\ fdt[dir[c].fd].left = {}
  /\ dir' = [dir EXCEPT ![c].end = TRUE]
  /\ UNCHANGED <<fs, fdt, own, stdin, got, must>>

-----------------------------------------------------------------------------
(* rewinddir, dirfd, closedir                                              *)

\* Rewind that keeps the entries already fetched.
Rewind_KeepPending(c) ==
  /\ dir[c].st = "open" /\ dir[c].named /\ path # Gone /\ FreeFrom(0) # {}
  /\ LET n == LowestFrom(0) IN
       /\ fdt' = [fdt EXCEPT ![n] = File(path), ![dir[c].fd] = Closed]
       /\ dir' = [dir EXCEPT ![c].fd = n, ![c].dot = 0, ![c].end = FALSE]
  /\ Begins(c, content[path])
  /\ UNCHANGED <<fs, own, stdin>>

\* Rewind: when the path cannot be opened the stream stays as it was.
Rewind(c) ==
  /\ dir[c].st = "open" /\ dir[c].named /\ path # Gone /\ FreeFrom(0) # {}
  /\ LET n == LowestFrom(0) IN
       /\ fdt' = [fdt EXCEPT ![n] = File(path), ![dir[c].fd] = Closed]
       /\ dir' = [dir EXCEPT ![c].fd = n, ![c].dot = 0, ![c].pending = <<>>,
                             ![c].end = FALSE]
  /\ Begins(c, content[path])
  /\ UNCHANGED <<fs, own, stdin>>

\* FD, which dirfd returns: the kernel's number, as it is.
DirFd(c) == dir[c].fd

\* The root carrier is freed; mlib's loses its state and stays for the
\* collector, and closing it again is EBADF.
CloseDir(c) ==
  /\ dir[c].st = "open"
  /\ fdt' = [fdt EXCEPT ![dir[c].fd] = Closed]
  /\ dir' = [dir EXCEPT ![c] = IF c \in Managed THEN [NoDir EXCEPT !.st = "retired"]
                               ELSE NoDir]
  /\ UNCHANGED <<fs, own, stdin, got, must>>

\* The program forgets an mlib DIR; os.File's finalizer closes an open one.
Forget(c) ==
  /\ c \in Managed /\ dir[c].st \in {"open", "retired"}
  /\ dir' = [dir EXCEPT ![c] = IF @.st = "open" THEN [@ EXCEPT !.st = "dropped"]
                               ELSE NoDir]
  /\ UNCHANGED <<fs, fdt, own, stdin, got, must>>

Finalize(c) ==
  /\ dir[c].st = "dropped"
  /\ fdt' = [fdt EXCEPT ![dir[c].fd] = Closed]
  /\ dir' = [dir EXCEPT ![c] = NoDir]
  /\ UNCHANGED <<fs, own, stdin, got, must>>

-----------------------------------------------------------------------------
(* The rest of the program and the file system                             *)

\* open gives C no number below 3.
Open(node) ==
  /\ FreeFrom(3) # {}
  /\ fdt' = [fdt EXCEPT ![LowestFrom(3)] = File(node)]
  /\ own' = own \cup {LowestFrom(3)}
  /\ UNCHANGED <<fs, stdin, dir, got, must>>

CloseFd(n) ==
  /\ n \in own
  /\ fdt' = [fdt EXCEPT ![n] = Closed]
  /\ own' = own \ {n}
  /\ UNCHANGED <<fs, stdin, dir, got, must>>

LoseStdin ==
  /\ Lost /\ stdin
  /\ fdt' = [fdt EXCEPT ![0] = Closed]
  /\ stdin' = FALSE
  /\ UNCHANGED <<fs, own, dir, got, must>>

Change == changes < MaxChanges /\ changes' = changes + 1 /\ UNCHANGED <<own, stdin, dir>>

AddName(d, e) ==
  /\ Change
  /\ e \notin content[d]
  /\ content' = [content EXCEPT ![d] = @ \cup {e}]
  /\ UNCHANGED <<path, fdt, got, must>>

\* Within one reading the kernel does not hand out a name twice, not even of an
\* entry that was removed and made again.
Reads(c, d) == Live(c) /\ fdt[dir[c].fd].node = d
RemoveName(d, e) ==
  /\ Change
  /\ e \in content[d]
  /\ content' = [content EXCEPT ![d] = @ \ {e}]
  /\ fdt' = [n \in Fds |-> IF fdt[n] = Closed \/ fdt[n].node # d THEN fdt[n]
                           ELSE [fdt[n] EXCEPT !.left = @ \ {e}]]
  /\ must' = [c \in Carriers |-> IF Reads(c, d) THEN must[c] \ {e} ELSE must[c]]
  /\ UNCHANGED <<path, got>>

RenameDir(d) ==
  /\ Change
  /\ path' = d
  /\ UNCHANGED <<content, fdt, got, must>>

Stream(c) ==
  \/ OpenDir(c) \/ \E n \in own : FdOpenDir(c, n)
  \/ NewCarrier(c) \/ NoCarrier(c)
  \/ c \in Readers /\ (ReadDot(c) \/ ReadPending(c) \/ ReadBatch(c) \/ ReadEnd(c))
  \/ Rewind(c) \/ CloseDir(c) \/ Forget(c) \/ Finalize(c)

World ==
  \/ \E node \in Dirs \cup {Plain} : Open(node)
  \/ \E n \in own : CloseFd(n)
  \/ LoseStdin
  \/ \E d \in Dirs, e \in Names : AddName(d, e) \/ RemoveName(d, e)
  \/ \E d \in Dirs \cup {Gone} : RenameDir(d)

Next == World \/ \E c \in Carriers : Stream(c)

Spec == Init /\ [][Next]_vars

-----------------------------------------------------------------------------
(* Properties                                                              *)

\* Every open descriptor belongs to C, to os.Std* or to exactly one stream, and
\* each of them still has its own open: no path of opendir, fdopendir,
\* rewinddir, closedir or the finalizer leaks one, closes one twice or closes
\* somebody else's (dir.go, openfd_unix.go).
Streams(n) == {c \in Carriers : Live(c) /\ dir[c].fd = n}
Std == (IF stdin THEN {0} ELSE {}) \cup {1, 2}
DirFdsExact ==
  /\ own \cap Std = {}
  /\ \A n \in Fds :
       /\ fdt[n] # Closed <=> n \in own \cup Std \/ Streams(n) # {}
       /\ Cardinality(Streams(n)) < 2
       /\ Streams(n) # {} => n \notin own \cup Std /\ fdt[n].node \in Dirs

\* From opendir or a successful rewinddir on, readdir returns "." and "..",
\* then no entry twice, and when it says there are no more it has returned
\* every entry that was there all along, whatever else came or went (dir.go).
EntriesOnce ==
  \A c \in Carriers : dir[c].st = "open" =>
    /\ IsPrefix(got[c], <<Dot, DotDot>>) \/ IsStrictPrefix(<<Dot, DotDot>>, got[c])
    /\ IsInjective(got[c])
    /\ dir[c].end => must[c] = {}

\* No number C is given to work with is one of the three that stand for the
\* standard streams (fd_alloc_unix.go:7-11); false where one of them was lost.
ReservedStayReserved == \A c \in Carriers : dir[c].st = "open" => DirFd(c) > 2

\* The caller of fdopendir that failed still has its descriptor (dir.go).
FailedConversionKeepsFd ==
  [][\A c \in Carriers :
       dir[c].st = "bare" /\ dir[c].by = "fdopendir" /\ dir'[c].st = "none"
         => fdt'[dir[c].fd] = fdt[dir[c].fd]]_vars
==============================================================================
