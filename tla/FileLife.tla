------------------------------ MODULE FileLife ------------------------------
(***************************************************************************)
(* The life of a FILE (csrc/stdio.c): fopen, tmpfile, fdopen, freopen and  *)
(* fclose.  A FILE is a malloc block that owns a descriptor, except stdin, *)
(* stdout and stderr, which are static, own none and are never freed.      *)
(* freopen opens a second, temporary FILE and copies its descriptor onto   *)
(* the number of the one it was given with dup3; each call can fail, and   *)
(* other threads open, close and redirect descriptors in between.          *)
(*                                                                         *)
(* Descriptor calls are the atomic steps of DescriptorMap, which the       *)
(* property OneCallAtATime states and FdTable shows the code to implement. *)
(* A FILE is freopened or closed by one thread, with no other call on it   *)
(* at work, as C requires.  Buffers and locks are FileBuffer's and         *)
(* StdioLocks's.                                                           *)
(***************************************************************************)
EXTENDS Integers, FiniteSets

CONSTANTS
  Procs,
  Blocks,    \* what malloc may return for a FILE
  NoFile,
  Nodes,     \* what a descriptor can refer to
  Terminal,  \* the node of the standard streams at startup
  HostNode,  \* the node of a stream the host puts in os.Std*
  MaxFd, Closed,
  Used       \* bound: the standard streams the program and its host work on

FileLifeConstants ==
  /\ Blocks \cap (Nat \cup {NoFile}) = {} /\ NoFile \notin 0 .. 2
  /\ {Terminal, HostNode} \subseteq Nodes
  /\ Closed \notin Nodes /\ Closed \notin -1 .. MaxFd
  /\ Closed \notin [node : Nodes, cloexec : BOOLEAN]
  /\ MaxFd \in Nat /\ MaxFd > 2
  /\ Used \subseteq 0 .. 2

VARIABLES
  map,     \* number -> [node, cloexec], or Closed
  saved,   \* standard stream the host has swapped -> what is behind its number
  fd,      \* FILE -> its descriptor, or Closed if there is no such FILE
  node,    \* ghost: FILE -> what it was opened on or redirected to
  own,     \* ghost: numbers C opened and gave to no FILE
  pc, f, f2, tfd   \* thread -> its call: the step, the two FILEs, fopen's fd

vars == <<map, saved, fd, node, own, pc, f, f2, tfd>>
locals == <<pc, f, f2, tfd>>

Fds == 0 .. MaxFd
Std == 0 .. 2               \* stdin, stdout, stderr: FILE i is on number i
Files == Std \cup Blocks
File(n) == [node |-> n, cloexec |-> FALSE]
hosted == {i \in Std : saved[i] # Closed}

M == INSTANCE DescriptorMap

TypeOK ==
  /\ map \in [Fds -> M!Entry \cup {Closed}] /\ saved \in [Std -> M!Entry \cup {Closed}]
  /\ fd \in [Files -> Fds \cup {-1, Closed}]
  /\ node \in [Files -> Nodes \cup {Closed}]
  /\ own \subseteq Fds
  /\ pc \in [Procs -> {"idle", "fdopen", "dup3", "fclose", "fclose both", "fclose f"}]
  /\ f \in [Procs -> Files \cup {NoFile}] /\ f2 \in [Procs -> Blocks \cup {NoFile}]
  /\ tfd \in [Procs -> Fds \cup {Closed}]

Init ==
  /\ map = [n \in Fds |-> IF n \in Std THEN File(Terminal) ELSE Closed]
  /\ saved = [i \in Std |-> Closed]
  /\ fd = [x \in Files |-> IF x \in Std THEN x ELSE Closed]
  /\ node = [x \in Files |-> IF x \in Std THEN Terminal ELSE Closed]
  /\ own = {}
  /\ pc = [p \in Procs |-> "idle"]
  /\ f = [p \in Procs |-> NoFile] /\ f2 = [p \in Procs |-> NoFile]
  /\ tfd = [p \in Procs |-> Closed]

-----------------------------------------------------------------------------
(* The descriptor calls, and the end of a call on FILEs                    *)

FreeFds == {n \in Fds : n > 2 /\ map[n] = Closed}
NewFd == CHOOSE n \in FreeFds : \A k \in FreeFds : n <= k

\* close refuses 0 to 2; -1 is no descriptor.
CloseOf(n) == IF n \in Fds \ Std THEN [map EXCEPT ![n] = Closed] ELSE map

\* What was behind number n is now m's file, for every FILE on n.
Repoint(n, e) ==
  /\ map' = [map EXCEPT ![n] = e]
  /\ node' = [x \in Files |-> IF fd[x] = n THEN e.node ELSE node[x]]

\* fclose(x): a standard stream is only flushed.
FcloseOf(x) ==
  IF x \in Std THEN UNCHANGED <<map, fd, node>>
  ELSE /\ map' = CloseOf(fd[x])
       /\ fd' = [fd EXCEPT ![x] = Closed]
       /\ node' = [node EXCEPT ![x] = Closed]

\* A FILE no call is at work on, and none whose number C closed by itself.
Resting(x) == fd[x] # Closed /\ \A p \in Procs : x \notin {f[p], f2[p]}
ClosedUnder(x) == fd[x] # Closed /\ node[x] = Closed
NoneUnder == \A x \in Files : ~ClosedUnder(x)

At(p, step) == pc' = [pc EXCEPT ![p] = step]
Done(p) ==
  /\ At(p, "idle")
  /\ f' = [f EXCEPT ![p] = NoFile] /\ f2' = [f2 EXCEPT ![p] = NoFile]
  /\ tfd' = [tfd EXCEPT ![p] = Closed]

-----------------------------------------------------------------------------
(* fopen and tmpfile (x is NoFile), and the fopen inside freopen of x      *)

\* open() succeeds.
FopenOpen(p, x, n) ==
  /\ pc[p] = "idle" /\ FreeFds # {}
  /\ IF x = NoFile THEN NoneUnder ELSE Resting(x) /\ (NoneUnder \/ ClosedUnder(x))
  /\ map' = [map EXCEPT ![NewFd] = File(n)]
  /\ tfd' = [tfd EXCEPT ![p] = NewFd]
  /\ f' = [f EXCEPT ![p] = x]
  /\ At(p, "fdopen")
  /\ UNCHANGED <<saved, fd, node, own, f2>>

\* open() fails inside freopen, which closes f; with no file name, so does a
\* failed F_SETFL.
FreopenNoFile(p, x) ==
  /\ pc[p] = "idle" /\ Resting(x)
  /\ FcloseOf(x)
  /\ UNCHANGED <<saved, own, locals>>

\* malloc in __fdopen succeeds.
FopenAlloc(p, b) ==
  /\ pc[p] = "fdopen" /\ fd[b] = Closed
  /\ fd' = [fd EXCEPT ![b] = tfd[p]]
  /\ node' = [node EXCEPT ![b] = map[tfd[p]].node]
  /\ IF f[p] = NoFile THEN Done(p)
     ELSE /\ At(p, "dup3")
          /\ f2' = [f2 EXCEPT ![p] = b]
          /\ tfd' = [tfd EXCEPT ![p] = Closed]
          /\ UNCHANGED f
  /\ UNCHANGED <<map, saved, own>>

\* fopen that forgets its descriptor when the FILE does not fit.
FopenNoMem_Leak(p) ==
  /\ pc[p] = "fdopen"
  /\ IF f[p] = NoFile THEN Done(p)
     ELSE At(p, "fclose f") /\ tfd' = [tfd EXCEPT ![p] = Closed] /\ UNCHANGED <<f, f2>>
  /\ UNCHANGED <<map, saved, fd, node, own>>

\* It fails: close(fd), and freopen closes f.
FopenNoMem(p) ==
  /\ pc[p] = "fdopen"
  /\ map' = CloseOf(tfd[p])
  /\ IF f[p] = NoFile THEN Done(p)
     ELSE At(p, "fclose f") /\ tfd' = [tfd EXCEPT ![p] = Closed] /\ UNCHANGED <<f, f2>>
  /\ UNCHANGED <<saved, fd, node, own>>

-----------------------------------------------------------------------------
(* The rest of freopen                                                     *)

\* A stream the host has swapped: a standard FILE survives, but dup3 fails for
\* a FILE that fdopen put on such a number, and it is closed.
FreopenRefused(p) ==
  /\ pc[p] = "dup3" /\ fd[f[p]] \in hosted
  /\ At(p, IF f[p] \in Std THEN "fclose" ELSE "fclose both")
  /\ UNCHANGED <<map, saved, fd, node, own, f, f2, tfd>>

\* dup3; where fopen reused f's number there is nothing to copy, and f2 gives
\* the number up.
FreopenDup(p) ==
  /\ pc[p] = "dup3" /\ fd[f[p]] \notin hosted
  /\ IF fd[f2[p]] = fd[f[p]]
     THEN /\ fd' = [fd EXCEPT ![f2[p]] = -1]
          /\ node' = [node EXCEPT ![f[p]] = node[f2[p]]]
          /\ UNCHANGED map
     ELSE Repoint(fd[f[p]], map[fd[f2[p]]]) /\ UNCHANGED fd
  /\ At(p, "fclose")
  /\ UNCHANGED <<saved, own, f, f2, tfd>>

\* fclose(f2), with f unlocked.
FreopenClose(p) ==
  /\ pc[p] \in {"fclose", "fclose both"}
  /\ FcloseOf(f2[p])
  /\ IF pc[p] = "fclose" THEN Done(p)
     ELSE At(p, "fclose f") /\ f2' = [f2 EXCEPT ![p] = NoFile] /\ UNCHANGED <<f, tfd>>
  /\ UNCHANGED <<saved, own>>

\* fclose(f), freopen having failed.
FreopenFail(p) ==
  /\ pc[p] = "fclose f"
  /\ FcloseOf(f[p])
  /\ Done(p)
  /\ UNCHANGED <<saved, own>>

-----------------------------------------------------------------------------
(* fdopen, fclose                                                          *)

Fdopen(n, b) ==
  /\ n \in own \cup Used /\ fd[b] = Closed
  /\ fd' = [fd EXCEPT ![b] = n]
  /\ node' = [node EXCEPT ![b] = map[n].node]
  /\ own' = own \ {n}
  /\ UNCHANGED <<map, saved, locals>>

Fclose(x) ==
  /\ Resting(x)
  /\ FcloseOf(x)
  /\ UNCHANGED <<saved, own, locals>>

-----------------------------------------------------------------------------
(* The rest of the program and the host                                    *)

Open(n) ==
  /\ NoneUnder /\ FreeFds # {}
  /\ map' = [map EXCEPT ![NewFd] = File(n)]
  /\ own' = own \cup {NewFd}
  /\ UNCHANGED <<saved, fd, node, locals>>

CloseFd(n) ==
  /\ n \in own
  /\ map' = CloseOf(n)
  /\ own' = own \ {n}
  /\ UNCHANGED <<saved, fd, node, locals>>

\* close(fileno(x)), after which x is only fit for freopen or fclose, and the
\* program opens nothing else before that.
CloseUnder(x) ==
  /\ x \in Blocks /\ Resting(x) /\ fd[x] \notin Std /\ NoneUnder
  /\ \A p \in Procs : pc[p] = "idle"
  /\ map' = CloseOf(fd[x])
  /\ node' = [node EXCEPT ![x] = Closed]
  /\ UNCHANGED <<saved, fd, own, locals>>

\* dup2(m, n) onto a number of C's own, of a FILE at rest or of a standard one.
Dup2(m, n) ==
  /\ m \in own /\ n \notin hosted /\ m # n
  /\ n \in own \cup Used \/ \E x \in Blocks : fd[x] = n /\ Resting(x) /\ ~ClosedUnder(x)
  /\ Repoint(n, map[m])
  /\ UNCHANGED <<saved, fd, own, locals>>

Swap(i) ==
  /\ i \in Used
  /\ IF saved[i] = Closed
     THEN saved' = [saved EXCEPT ![i] = map[i]] /\ Repoint(i, File(HostNode))
     ELSE saved' = [saved EXCEPT ![i] = Closed] /\ Repoint(i, saved[i])
  /\ UNCHANGED <<fd, own, locals>>

OnFiles(p) ==
  \/ \E x \in Used \cup Blocks \cup {NoFile}, n \in Nodes \ {Terminal, HostNode} : FopenOpen(p, x, n)
  \/ \E x \in Used \cup Blocks : FreopenNoFile(p, x)
  \/ \E b \in Blocks : FopenAlloc(p, b)
  \/ FopenNoMem(p)
  \/ FreopenRefused(p) \/ FreopenDup(p) \/ FreopenClose(p) \/ FreopenFail(p)

Next ==
  \/ \E p \in Procs : OnFiles(p)
  \/ \E n \in Fds, b \in Blocks : Fdopen(n, b)
  \/ \E x \in Used \cup Blocks : Fclose(x) \/ CloseUnder(x)
  \/ \E n \in Nodes \ {Terminal, HostNode} : Open(n)
  \/ \E m, n \in Fds : Dup2(m, n)
  \/ \E n \in Fds : CloseFd(n)
  \/ \E i \in Std : Swap(i)

Spec == Init /\ [][Next]_vars

-----------------------------------------------------------------------------
(* Properties                                                              *)

\* Every descriptor above 2 is C's own, fopen's in passing, or exactly one
\* FILE's, and every FILE reads and writes what it was last opened on, on a
\* number freopen never changes: no way for fopen or freopen to fail leaks a
\* descriptor or closes another FILE's, and the standard streams survive.
FileHolders(n) ==
  {<<"file", x>> : x \in {y \in Blocks : fd[y] = n /\ ~ClosedUnder(y)}}
    \cup {<<"fopen", p>> : p \in {q \in Procs : tfd[q] = n}}
    \cup {<<"C", m>> : m \in own \cap {n}}
FilesExact ==
  /\ \A n \in Fds \ Std : Cardinality(FileHolders(n)) = IF map[n] = Closed THEN 0 ELSE 1
  /\ \A x \in Files : fd[x] \in Fds /\ ~ClosedUnder(x) => map[fd[x]].node = node[x]
  /\ \A i \in Std : fd[i] = i

\* What happens to descriptors is one call of the descriptor layer at a time,
\* and no call on a FILE touches a stream of the host's.
OneCall == M!Next
OneCallAtATime == [][OneCall]_<<map, saved>>
=============================================================================
