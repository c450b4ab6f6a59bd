------------------------------- MODULE FdTable -------------------------------
(***************************************************************************)
(* Descriptors of C on unix: io.go, fsops.go, fd_alloc_unix.go,            *)
(* pipe2_linux.go, io_linux.go and the gates of stdio_std_unix.go.  The    *)
(* numbers 0 to 2 denote the live os.Stdin, os.Stdout and os.Stderr.  The  *)
(* kernel hands out the lowest free number, which is one of them once the  *)
(* process has lost its kernel descriptor, so each call that creates a     *)
(* descriptor passes it through c2goFD, several system calls that move it  *)
(* to 3 or above.                                                          *)
(*                                                                         *)
(* The program and its host are disciplined in two ways the code relies    *)
(* on: C uses a standard stream that was lost only to redirect it, and     *)
(* then while no other call is at work; the host swaps os.Std* only while  *)
(* none is lost.                                                           *)
(***************************************************************************)
EXTENDS Integers, Sequences, FiniteSets

CONSTANTS
  Procs,      \* threads of C
  Nodes,      \* what a descriptor can refer to
  Terminal,   \* the node of the standard streams at startup
  HostNode,   \* the node of a stream the host puts in os.Std*
  MaxFd,      \* RLIMIT_NOFILE: numbers are 0 .. MaxFd
  Closed,     \* no descriptor
  Lost,       \* standard streams whose kernel descriptor may be closed
  Swapped,    \* standard streams the host may reassign
  Redirected  \* standard streams C may redirect

ASSUME FdTableConstants ==
  /\ MaxFd \in Nat /\ MaxFd > 2
  /\ {Terminal, HostNode} \subseteq Nodes
  /\ Lost \cup Swapped \cup Redirected \subseteq 0 .. 2
  /\ Closed \notin 0 .. MaxFd /\ Closed \notin [node : Nodes, cloexec : BOOLEAN]

VARIABLES
  fdt,     \* the kernel's table: number -> [node, cloexec], or Closed
  std,     \* os.Std*: [num, startup], its kernel number and whether it is stdInit
  lost,    \* standard streams whose kernel descriptor was closed
  own,     \* ghost: number -> what C was told it opened there, or Closed
  pc,      \* thread -> the system call c2goFD makes next
  todo,    \* thread -> numbers still to pass through c2goFD
  done,    \* thread -> numbers that have passed
  nfd,     \* thread -> the copy being made
  want     \* ghost: thread -> what its call is to return, one entry per number

vars == <<fdt, std, lost, own, pc, todo, done, nfd, want>>

Fds == 0 .. MaxFd
StdFds == 0 .. 2
Entry == [node : Nodes, cloexec : BOOLEAN]
Seqs(S) == {<<>>} \cup {<<a>> : a \in S} \cup {<<a, b>> : a, b \in S}

TypeOK ==
  /\ fdt \in [Fds -> Entry \cup {Closed}]
  /\ std \in [StdFds -> [num : Fds, startup : BOOLEAN]]
  /\ lost \subseteq StdFds
  /\ own \in [Fds -> Entry \cup {Closed}]
  /\ pc \in [Procs -> {"idle", "next", "dup", "setfd", "close"}]
  /\ todo \in [Procs -> Seqs(Fds)] /\ done \in [Procs -> Seqs(Fds)]
  /\ nfd \in [Procs -> Fds \cup {Closed}]
  /\ want \in [Procs -> Seqs(Entry)]

-----------------------------------------------------------------------------
(* The kernel.  A new descriptor gets the lowest free number; F_DUPFD asks *)
(* for one that is at least some number.                                   *)

FreeFrom(low) == {n \in Fds : n >= low /\ fdt[n] = Closed}
LowestFrom(low) == CHOOSE n \in FreeFrom(low) : \A m \in FreeFrom(low) : n <= m

Init ==
  /\ fdt = [n \in Fds |-> IF n \in StdFds THEN [node |-> Terminal, cloexec |-> FALSE]
                          ELSE Closed]
  /\ std = [i \in StdFds |-> [num |-> i, startup |-> TRUE]]
  /\ lost = {}
  /\ own = [n \in Fds |-> Closed]
  /\ pc = [p \in Procs |-> "idle"]
  /\ todo = [p \in Procs |-> <<>>]
  /\ done = [p \in Procs |-> <<>>]
  /\ nfd = [p \in Procs |-> Closed]
  /\ want = [p \in Procs |-> <<>>]

locals == <<pc, todo, done, nfd, want>>

\* A thread inside c2goFD may have a kernel number below 3 for a while.
Quiet == \A p \in Procs : pc[p] = "idle"
Usable(n) == own[n] # Closed \/ n \in StdFds \ lost

\* The kernel number a call on n acts on: os.Std*'s own for 0 to 2.
isStdFd(n) == n \in StdFds
Kernel(n) == IF isStdFd(n) THEN std[n].num ELSE n

-----------------------------------------------------------------------------
(* c2goFD, c2goFDPair.  A call whose numbers are all 3 or above returns    *)
(* them without another system call.                                       *)

Told(numbers, entries) ==
  [n \in Fds |-> IF \E i \in DOMAIN numbers : numbers[i] = n
                THEN entries[CHOOSE i \in DOMAIN numbers : numbers[i] = n] ELSE own[n]]

Begin(p, numbers, entries) ==
  /\ IF \E i \in DOMAIN numbers : numbers[i] < 3
     THEN /\ pc' = [pc EXCEPT ![p] = "next"]
          /\ todo' = [todo EXCEPT ![p] = numbers]
          /\ want' = [want EXCEPT ![p] = entries]
          /\ UNCHANGED <<own, done, nfd>>
     ELSE own' = Told(numbers, entries) /\ UNCHANGED locals
  /\ UNCHANGED <<std, lost>>

Idle(p) ==
  /\ pc' = [pc EXCEPT ![p] = "idle"]
  /\ todo' = [todo EXCEPT ![p] = <<>>]
  /\ done' = [done EXCEPT ![p] = <<>>]
  /\ nfd' = [nfd EXCEPT ![p] = Closed]
  /\ want' = [want EXCEPT ![p] = <<>>]

Moving(p) == {todo[p][i] : i \in DOMAIN todo[p]} \cup {done[p][i] : i \in DOMAIN done[p]}

\* fd >= 3: nothing to move.
Keep(p) ==
  /\ pc[p] = "next" /\ todo[p] # <<>> /\ Head(todo[p]) > 2
  /\ todo' = [todo EXCEPT ![p] = Tail(@)]
  /\ done' = [done EXCEPT ![p] = Append(@, Head(todo[p]))]
  /\ UNCHANGED <<fdt, std, lost, own, pc, nfd, want>>

\* F_GETFD; F_DUPFD, which clears FD_CLOEXEC on the copy.
DupFd(p) ==
  /\ pc[p] = "next" /\ todo[p] # <<>> /\ Head(todo[p]) < 3
  /\ FreeFrom(3) # {}
  /\ LET fd == Head(todo[p])  k == LowestFrom(3) IN
       /\ fdt' = [fdt EXCEPT ![k] = [fdt[fd] EXCEPT !.cloexec = FALSE]]
       /\ nfd' = [nfd EXCEPT ![p] = k]
       /\ pc' = [pc EXCEPT ![p] = IF fdt[fd].cloexec THEN "setfd" ELSE "close"]
  /\ UNCHANGED <<std, lost, own, todo, done, want>>

\* No number left: c2goFD closes fd, c2goFDPair the other one.
FailDup_Leak(p) ==
  /\ pc[p] = "next" /\ todo[p] # <<>> /\ Head(todo[p]) < 3
  /\ FreeFrom(3) = {}
  /\ fdt' = [fdt EXCEPT ![Head(todo[p])] = Closed]
  /\ Idle(p)
  /\ UNCHANGED <<std, lost, own>>

FailDup(p) ==
  /\ pc[p] = "next" /\ todo[p] # <<>> /\ Head(todo[p]) < 3
  /\ FreeFrom(3) = {}
  /\ fdt' = [n \in Fds |-> IF n \in Moving(p) THEN Closed ELSE fdt[n]]
  /\ Idle(p)
  /\ UNCHANGED <<std, lost, own>>

SetFd(p) ==
  /\ pc[p] = "setfd"
  /\ fdt' = [fdt EXCEPT ![nfd[p]].cloexec = TRUE]
  /\ pc' = [pc EXCEPT ![p] = "close"]
  /\ UNCHANGED <<std, lost, own, todo, done, nfd, want>>

CloseOld(p) ==
  /\ pc[p] = "close"
  /\ fdt' = [fdt EXCEPT ![Head(todo[p])] = Closed]
  /\ todo' = [todo EXCEPT ![p] = Tail(@)]
  /\ done' = [done EXCEPT ![p] = Append(@, nfd[p])]
  /\ nfd' = [nfd EXCEPT ![p] = Closed]
  /\ pc' = [pc EXCEPT ![p] = "next"]
  /\ UNCHANGED <<std, lost, own, want>>

\* The call returns its numbers to C.
Return(p) ==
  /\ pc[p] = "next" /\ todo[p] = <<>>
  /\ own' = Told(done[p], want[p])
  /\ Idle(p)
  /\ UNCHANGED <<fdt, std, lost>>

-----------------------------------------------------------------------------
(* Calls that create descriptors                                           *)

\* open, openat; O_CLOEXEC is one of the flags.
Open(p, node, c) ==
  /\ pc[p] = "idle" /\ FreeFrom(0) # {}
  /\ LET e == [node |-> node, cloexec |-> c]  n == LowestFrom(0) IN
       /\ fdt' = [fdt EXCEPT ![n] = e]
       /\ Begin(p, <<n>>, <<e>>)

\* dup (low = 0, c = FALSE); fcntl with F_DUPFD or F_DUPFD_CLOEXEC.
Dup(p, old, low, c) ==
  /\ pc[p] = "idle" /\ Usable(old) /\ FreeFrom(low) # {}
  /\ LET e == [node |-> fdt[Kernel(old)].node, cloexec |-> c]  n == LowestFrom(low) IN
       /\ fdt' = [fdt EXCEPT ![n] = e]
       /\ Begin(p, <<n>>, <<e>>)

\* pipe, pipe2
Pipe(p, reader, writer, c) ==
  /\ pc[p] = "idle" /\ Cardinality(FreeFrom(0)) > 1
  /\ LET r == [node |-> reader, cloexec |-> c]  w == [node |-> writer, cloexec |-> c]
         m == LowestFrom(0)
         n == CHOOSE k \in FreeFrom(m + 1) : \A j \in FreeFrom(m + 1) : k <= j IN
       /\ fdt' = [fdt EXCEPT ![m] = r, ![n] = w]
       /\ Begin(p, <<m, n>>, <<r, w>>)

-----------------------------------------------------------------------------
(* close, dup2, dup3                                                       *)

\* close refuses 0 to 2.
Close(p, n) ==
  /\ pc[p] = "idle" /\ Usable(n) /\ ~isStdFd(n)
  /\ fdt' = [fdt EXCEPT ![n] = Closed]
  /\ own' = [own EXCEPT ![n] = Closed]
  /\ UNCHANGED <<std, lost, locals>>

\* __c2go_std_isdefault
IsDefault(i) == std[i].startup

\* A redirection C may ask for: onto a number of its own, a free one, or a
\* standard stream.
DupTarget(n) ==
  \/ own[n] # Closed
  \/ n > 2 /\ fdt[n] = Closed
  \/ n \in Redirected /\ (n \in lost => Quiet)

stdDupGate_Open(p, old, new) == TRUE

\* stdDupGate: a stream the host swapped is not redirected (EINVAL).
stdDupGate(p, old, new) == isStdFd(new) => IsDefault(new)

Dup3(p, old, new, c) ==
  /\ pc[p] = "idle" /\ Usable(old) /\ DupTarget(new) /\ old # new
  /\ stdDupGate(p, old, new)
  /\ LET e == [node |-> fdt[Kernel(old)].node, cloexec |-> c] IN
       /\ fdt' = [fdt EXCEPT ![new] = e]
       /\ own' = IF isStdFd(new) THEN own ELSE [own EXCEPT ![new] = e]
  /\ lost' = lost \ {new}
  /\ UNCHANGED <<std, locals>>

-----------------------------------------------------------------------------
(* The host                                                                *)

\* The kernel descriptor of a standard stream is closed behind os's back.
Lose(i) ==
  /\ i \in Lost \ lost /\ IsDefault(i)
  /\ fdt' = [fdt EXCEPT ![i] = Closed]
  /\ lost' = lost \cup {i}
  /\ UNCHANGED <<std, own, locals>>

\* os.Stdout = f, a file of the host's own; and back again.
Swap(i) ==
  /\ i \in Swapped /\ IsDefault(i) /\ lost = {} /\ FreeFrom(3) # {}
  /\ LET n == LowestFrom(3) IN
       /\ fdt' = [fdt EXCEPT ![n] = [node |-> HostNode, cloexec |-> TRUE]]
       /\ std' = [std EXCEPT ![i] = [num |-> n, startup |-> FALSE]]
  /\ UNCHANGED <<lost, own, locals>>

Restore(i) ==
  /\ ~IsDefault(i)
  /\ fdt' = [fdt EXCEPT ![std[i].num] = Closed]
  /\ std' = [std EXCEPT ![i] = [num |-> i, startup |-> TRUE]]
  /\ UNCHANGED <<lost, own, locals>>

Creates(p) ==
  \/ \E node \in Nodes \ {HostNode, Terminal}, c \in BOOLEAN :
       Open(p, node, c) \/ Pipe(p, node, node, c)
  \/ \E old \in Fds, low \in {0, 4}, c \in BOOLEAN : Dup(p, old, low, c)

Calls(p) ==
  \/ Creates(p)
  \/ Keep(p) \/ DupFd(p) \/ FailDup(p) \/ SetFd(p) \/ CloseOld(p) \/ Return(p)
  \/ \E n \in Fds : Close(p, n)
  \/ \E old, new \in Fds, c \in BOOLEAN : Dup3(p, old, new, c)

Host == \E i \in StdFds : Lose(i) \/ Swap(i) \/ Restore(i)

Next == Host \/ \E p \in Procs : Calls(p)

Spec == Init /\ [][Next]_vars

-----------------------------------------------------------------------------
(* Properties                                                              *)

\* Each call creates, closes and redirects in one step as far as C can see.
AsMap ==
  [n \in Fds |->
     IF isStdFd(n) THEN IF n \in lost THEN Closed ELSE fdt[std[n].num]
     ELSE IF own[n] = Closed THEN Closed ELSE fdt[n]]

\* What is behind a standard stream's number while the host has another there.
PutAside == [i \in StdFds |-> IF IsDefault(i) THEN Closed ELSE fdt[i]]

M == INSTANCE DescriptorMap WITH map <- AsMap, saved <- PutAside

\* C's descriptors behave as the table of DescriptorMap, whatever the other
\* threads and the host do between the system calls of c2goFD.
ImplementsDescriptors == M!Spec

\* Who answers for the kernel's number n.
Holders(n) ==
  {<<"call", p>> : p \in {q \in Procs : n \in Moving(q) \cup {nfd[q]}}}
    \cup {<<"C", n>> : m \in {n} \cap {k \in Fds : own[k] # Closed}}
    \cup {<<"os", n>> : m \in {n} \cap (StdFds \ lost)}
    \cup {<<"host", i>> : i \in {j \in StdFds : ~IsDefault(j) /\ std[j].num = n}}

\* Every open kernel descriptor has exactly one holder and every holder an open
\* one: nothing leaks when c2goFD runs out of numbers half way through a pipe,
\* nothing is closed twice or under somebody else; and what C holds is the file
\* it asked for with the close-on-exec flag it asked for (fd_alloc_unix.go).
DescriptorsExact ==
  \A n \in Fds :
    /\ Cardinality(Holders(n)) = IF fdt[n] = Closed THEN 0 ELSE 1
    /\ own[n] # Closed => n > 2 /\ fdt[n] = own[n]

DescriptorsSafe == TypeOK /\ DescriptorsExact
============================================================================
