----------------------------- MODULE FileProofs -----------------------------
(***************************************************************************)
(* Proofs about what C opens, as MCFiles instantiates it: descriptors      *)
(* (FdTable), for any number of threads and any limit on descriptors;      *)
(* directory streams (DirStream), for any directories, names and batches;  *)
(* and the life of a FILE (FileLife), for any threads, FILEs and files.    *)
(***************************************************************************)
EXTENDS MCFiles, SequenceTheorems, WellFoundedInduction, FiniteSetTheorems, TLAPS

-----------------------------------------------------------------------------
(* Sets of numbers and short sequences.                                    *)

LEMMA Least ==
  ASSUME NEW T, T \subseteq Nat, T # {}
  PROVE  \E x \in T : \A y \in T : x <= y
<1>1. PICK x \in T : \A y \in T : ~(<<y, x>> \in OpToRel(<, Nat))
  BY NatLessThanWellFounded, WFMin
<1>2. \A y \in T : ~(y < x)
  BY <1>1 DEF OpToRel
<1> QED BY <1>2

LEMMA LeastFree ==
  ASSUME NEW low \in Nat, FreeFrom(low) # {}
  PROVE  LowestFrom(low) \in Fds /\ LowestFrom(low) >= low /\ fdt[LowestFrom(low)] = Closed
<1>1. FreeFrom(low) \subseteq Nat
  BY FdTableConstants DEF FreeFrom, Fds
<1>2. \E x \in FreeFrom(low) : \A y \in FreeFrom(low) : x <= y
  BY <1>1, Least
<1>3. LowestFrom(low) \in FreeFrom(low)
  BY <1>2 DEF LowestFrom
<1> QED BY <1>3 DEF FreeFrom

LEMMA TwoFree ==
  ASSUME Cardinality(FreeFrom(0)) > 1
  PROVE  /\ LowestFrom(0) \in Fds /\ fdt[LowestFrom(0)] = Closed
         /\ LET low == LowestFrom(0) + 1
                k == CHOOSE n \in FreeFrom(low) : \A j \in FreeFrom(low) : n <= j
            IN k \in Fds /\ k >= low /\ fdt[k] = Closed
<1> DEFINE m == LowestFrom(0)
<1>1. FreeFrom(0) # {}
  BY FS_EmptySet
<1>2. m \in Fds /\ fdt[m] = Closed /\ m \in Nat
  BY <1>1, LeastFree, FdTableConstants DEF Fds
<1>3. \A y \in FreeFrom(0) : m <= y
  <2>1. FreeFrom(0) \subseteq Nat
    BY FdTableConstants DEF FreeFrom, Fds
  <2>2. \E x \in FreeFrom(0) : \A y \in FreeFrom(0) : x <= y
    BY <1>1, <2>1, Least
  <2> QED BY <2>2 DEF LowestFrom
<1>4. FreeFrom(m + 1) # {}
  <2> SUFFICES ASSUME FreeFrom(m + 1) = {} PROVE FALSE
    OBVIOUS
  <2>1. FreeFrom(0) \subseteq {m}
    BY <1>2, <1>3, FdTableConstants DEF FreeFrom, Fds
  <2>2. IsFiniteSet({m}) /\ Cardinality({m}) = 1
    BY FS_Singleton
  <2>3. Cardinality(FreeFrom(0)) <= 1 /\ Cardinality(FreeFrom(0)) \in Nat
    BY <2>1, <2>2, FS_Subset, FS_CardinalityType
  <2> QED BY <2>3
<1>5. LowestFrom(m + 1) \in Fds /\ LowestFrom(m + 1) >= m + 1 /\ fdt[LowestFrom(m + 1)] = Closed
  BY <1>2, <1>4, LeastFree
<1> QED BY <1>2, <1>5 DEF LowestFrom

LEMMA Short ==
  ASSUME NEW T, NEW s \in Seq(T), Len(s) <= 2
  PROVE  s \in Seqs(T)
<1>1. Len(s) \in Nat /\ \A i \in 1 .. Len(s) : s[i] \in T
  BY LenProperties, ElementOfSeq
<1>2. CASE Len(s) = 0
  <2>1. s = <<>>
    BY <1>2, EmptySeq
  <2> QED BY <2>1 DEF Seqs
<1>3. CASE Len(s) = 1
  <2>1. s[1] \in T
    BY <1>1, <1>3
  <2>2. <<s[1]>> \in Seq(T) /\ Len(<<s[1]>>) = 1 /\ <<s[1]>>[1] = s[1]
    BY <2>1
  <2>3. s = <<s[1]>>
    BY <1>3, <2>2, SeqEqual
  <2> QED BY <2>1, <2>3 DEF Seqs
<1>4. CASE Len(s) = 2
  <2>1. s[1] \in T /\ s[2] \in T
    BY <1>1, <1>4
  <2>2. /\ <<s[1], s[2]>> \in Seq(T) /\ Len(<<s[1], s[2]>>) = 2
        /\ <<s[1], s[2]>>[1] = s[1] /\ <<s[1], s[2]>>[2] = s[2]
    BY <2>1
  <2>3. \A i \in 1 .. 2 : s[i] = <<s[1], s[2]>>[i]
    BY <2>2
  <2>4. s = <<s[1], s[2]>>
    BY <1>4, <2>2, <2>3, SeqEqual
  <2> QED BY <2>1, <2>4 DEF Seqs
<1>5. Len(s) = 0 \/ Len(s) = 1 \/ Len(s) = 2
  <2>1. \A n \in Nat : n <= 2 => n = 0 \/ n = 1 \/ n = 2
    OBVIOUS
  <2> QED BY <1>1, <2>1
<1> QED BY <1>2, <1>3, <1>4, <1>5

LEMMA OneTwo ==
  ASSUME NEW T, NEW a \in T, NEW b \in T
  PROVE  /\ <<a>> \in Seq(T) /\ Len(<<a>>) = 1 /\ <<a>>[1] = a
         /\ <<a, b>> \in Seq(T) /\ Len(<<a, b>>) = 2 /\ <<a, b>>[1] = a /\ <<a, b>>[2] = b
OBVIOUS

-----------------------------------------------------------------------------
(* Descriptors: the inductive invariant.                                   *)

Tables ==
  /\ fdt \in [Fds -> Entry \cup {Closed}] /\ own \in [Fds -> Entry \cup {Closed}]
  /\ std \in [StdFds -> [num : Fds, startup : BOOLEAN]] /\ lost \subseteq StdFds

CallTypes ==
  /\ pc \in [Procs -> {"idle", "next", "dup", "setfd", "close"}]
  /\ todo \in [Procs -> Seq(Fds)] /\ done \in [Procs -> Seq(Fds)]
  /\ want \in [Procs -> Seq(Entry)] /\ nfd \in [Procs -> Fds \cup {Closed}]

\* What a call of thread p has for C, partly moved, and where it is with it.
Progress(p) ==
  /\ Len(done[p]) + Len(todo[p]) = Len(want[p]) /\ Len(want[p]) <= 2
  /\ pc[p] = "idle" => Len(want[p]) = 0
  /\ pc[p] \in {"setfd", "close"} <=> nfd[p] # Closed
  /\ nfd[p] # Closed => Len(todo[p]) > 0

\* Each number the call moves denotes the file that C asked for.
Contents(p) ==
  /\ \A i \in 1 .. Len(done[p]) : done[p][i] > 2 /\ fdt[done[p][i]] = want[p][i]
  /\ \A i \in 1 .. Len(todo[p]) : fdt[todo[p][i]] = want[p][Len(done[p]) + i]
  /\ nfd[p] # Closed =>
       LET e == fdt[todo[p][1]] IN
         /\ nfd[p] > 2
         /\ fdt[nfd[p]] = IF pc[p] = "setfd" THEN [e EXCEPT !.cloexec = FALSE] ELSE e
         /\ pc[p] = "setfd" => e.cloexec

Different(p) ==
  /\ \A i, k \in 1 .. Len(todo[p]) : todo[p][i] = todo[p][k] => i = k
  /\ \A i, k \in 1 .. Len(done[p]) : done[p][i] = done[p][k] => i = k
  /\ \A i \in 1 .. Len(done[p]), k \in 1 .. Len(todo[p]) : done[p][i] # todo[p][k]
  /\ \A i \in 1 .. Len(done[p]) : done[p][i] # nfd[p]
  /\ \A i \in 1 .. Len(todo[p]) : todo[p][i] # nfd[p]

CallRight(p) == Progress(p) /\ Contents(p) /\ Different(p)

\* Who may close n: a call, C, os.Std* or the host.
InHand(p, n) ==
  \/ \E i \in 1 .. Len(todo[p]) : todo[p][i] = n
  \/ \E i \in 1 .. Len(done[p]) : done[p][i] = n
  \/ nfd[p] = n
OfC(n) == own[n] # Closed
OfOs(n) == n \in StdFds /\ n \notin lost
OfHost(i, n) == ~IsDefault(i) /\ std[i].num = n

OneHolder(n) ==
  /\ \A p, q \in Procs : InHand(p, n) /\ InHand(q, n) => p = q
  /\ \A p \in Procs : InHand(p, n) => ~OfC(n) /\ ~OfOs(n) /\ \A i \in StdFds : ~OfHost(i, n)
  /\ OfC(n) => n > 2 /\ fdt[n] = own[n] /\ \A i \in StdFds : ~OfHost(i, n)
  /\ \A i, k \in StdFds : OfHost(i, n) => n > 2 /\ (OfHost(k, n) => i = k)
  /\ fdt[n] # Closed <=> \/ OfC(n) \/ OfOs(n)
                         \/ \E p \in Procs : InHand(p, n)
                         \/ \E i \in StdFds : OfHost(i, n)

StdStreams == \A i \in StdFds : IF IsDefault(i) THEN std[i].num = i ELSE i \notin lost

FdInv ==
  /\ Tables /\ CallTypes /\ StdStreams
  /\ \A p \in Procs : CallRight(p)
  /\ \A n \in Fds : OneHolder(n)

LEMMA NumberFacts ==
  /\ MaxFd \in Nat /\ MaxFd > 2 /\ StdFds \subseteq Fds /\ Fds \subseteq Nat
  /\ Closed \notin Fds /\ Closed \notin Entry
BY FdTableConstants DEF Fds, StdFds, Entry

LEMMA CallLengths ==
  ASSUME CallTypes, NEW p \in Procs
  PROVE  /\ todo[p] \in Seq(Fds) /\ done[p] \in Seq(Fds) /\ want[p] \in Seq(Entry)
         /\ Len(todo[p]) \in Nat /\ Len(done[p]) \in Nat /\ Len(want[p]) \in Nat
         /\ DOMAIN todo[p] = 1 .. Len(todo[p]) /\ DOMAIN done[p] = 1 .. Len(done[p])
         /\ \A i \in 1 .. Len(todo[p]) : todo[p][i] \in Fds
         /\ \A i \in 1 .. Len(done[p]) : done[p][i] \in Fds
         /\ \A i \in 1 .. Len(want[p]) : want[p][i] \in Entry
<1>1. todo[p] \in Seq(Fds) /\ done[p] \in Seq(Fds) /\ want[p] \in Seq(Entry)
  BY DEF CallTypes
<1> QED BY <1>1, LenProperties, ElementOfSeq

LEMMA MovingIs ==
  ASSUME CallTypes, NEW p \in Procs, NEW n \in Fds
  PROVE  n \in Moving(p) \cup {nfd[p]} <=> InHand(p, n)
BY CallLengths DEF Moving, InHand

\* A thread whose numbers are left alone.
LEMMA Bystander ==
  ASSUME NEW q \in Procs, CallRight(q),
         todo'[q] = todo[q], done'[q] = done[q], nfd'[q] = nfd[q], want'[q] = want[q],
         pc'[q] = pc[q], CallTypes,
         \A n \in Fds : InHand(q, n) => fdt'[n] = fdt[n]
  PROVE  CallRight(q)' /\ \A n \in Fds : InHand(q, n)' <=> InHand(q, n)
<1>1. \A n \in Fds : InHand(q, n)' <=> InHand(q, n)
  BY DEF InHand
<1>2. /\ \A i \in 1 .. Len(done[q]) : fdt'[done[q][i]] = fdt[done[q][i]]
      /\ \A i \in 1 .. Len(todo[q]) : fdt'[todo[q][i]] = fdt[todo[q][i]]
  BY CallLengths DEF InHand
<1>3. nfd[q] # Closed => /\ fdt'[nfd[q]] = fdt[nfd[q]]
                         /\ fdt'[todo[q][1]] = fdt[todo[q][1]]
  <2> SUFFICES ASSUME nfd[q] # Closed
               PROVE  /\ fdt'[nfd[q]] = fdt[nfd[q]]
                      /\ fdt'[todo[q][1]] = fdt[todo[q][1]]
    OBVIOUS
  <2>1. nfd[q] \in Fds /\ 1 \in 1 .. Len(todo[q])
    BY CallLengths DEF CallTypes, CallRight, Progress
  <2> QED BY <1>2, <2>1 DEF InHand
<1>4. Progress(q)'
  BY DEF CallRight, Progress
<1>5. Different(q)'
  BY DEF CallRight, Different
<1>6. Contents(q)'
  <2>1. \A i \in 1 .. Len(done[q]) : done'[q][i] > 2 /\ fdt'[done'[q][i]] = want'[q][i]
    BY <1>2 DEF CallRight, Contents
  <2>2. \A i \in 1 .. Len(todo[q]) : fdt'[todo'[q][i]] = want'[q][Len(done[q]) + i]
    BY <1>2 DEF CallRight, Contents
  <2>3. nfd'[q] # Closed =>
          LET e == fdt'[todo'[q][1]] IN
            /\ nfd'[q] > 2
            /\ fdt'[nfd'[q]] = IF pc'[q] = "setfd" THEN [e EXCEPT !.cloexec = FALSE] ELSE e
            /\ pc'[q] = "setfd" => e.cloexec
    BY <1>3, ZenonT(60) DEF CallRight, Contents
  <2> QED BY <2>1, <2>2, <2>3 DEF Contents
<1> QED BY <1>1, <1>4, <1>5, <1>6 DEF CallRight

LEMMA SameHolder ==
  ASSUME NEW n \in Fds, OneHolder(n), fdt'[n] = fdt[n], own'[n] = own[n], OfOs(n)' <=> OfOs(n),
         \A p \in Procs : InHand(p, n)' <=> InHand(p, n),
         \A i \in StdFds : OfHost(i, n)' <=> OfHost(i, n)
  PROVE  OneHolder(n)'
<1>1. OfC(n)' <=> OfC(n)
  BY DEF OfC
<1> QED BY <1>1 DEF OneHolder

-----------------------------------------------------------------------------
(* Descriptors: the steps.                                                 *)

LEMMA Advance ==
  ASSUME NEW T, NEW s \in Seq(T), Len(s) > 0, NEW d \in Seq(T), NEW x \in T
  PROVE  /\ Len(s) \in Nat /\ Len(d) \in Nat /\ s # <<>>
         /\ Tail(s) \in Seq(T) /\ Len(Tail(s)) = Len(s) - 1 /\ Head(s) = s[1] /\ Head(s) \in T
         /\ \A i \in 1 .. Len(s) - 1 : Tail(s)[i] = s[i + 1]
         /\ Append(d, x) \in Seq(T) /\ Len(Append(d, x)) = Len(d) + 1
         /\ \A i \in 1 .. Len(d) : Append(d, x)[i] = d[i]
         /\ Append(d, x)[Len(d) + 1] = x
<1>1. Len(s) \in Nat /\ Len(d) \in Nat /\ s # <<>>
  BY LenProperties, EmptySeq
<1>2. /\ Tail(s) \in Seq(T) /\ Len(Tail(s)) = Len(s) - 1
      /\ \A i \in 1 .. Len(s) - 1 : Tail(s)[i] = s[i + 1]
  BY <1>1, HeadTailProperties
<1>3. Head(s) = s[1] /\ Head(s) \in T
  BY <1>1, HeadTailProperties
<1>4. /\ Append(d, x) \in Seq(T) /\ Len(Append(d, x)) = Len(d) + 1
      /\ \A i \in 1 .. Len(d) : Append(d, x)[i] = d[i]
      /\ Append(d, x)[Len(d) + 1] = x
  BY <1>1, AppendProperties
<1> QED BY <1>1, <1>2, <1>3, <1>4

LEMMA AtRest ==
  ASSUME FdInv, NEW p \in Procs, pc[p] = "idle"
  PROVE  /\ Len(todo[p]) = 0 /\ Len(done[p]) = 0 /\ Len(want[p]) = 0 /\ nfd[p] = Closed
         /\ \A n \in Fds : ~InHand(p, n)
<1>1. /\ Len(todo[p]) \in Nat /\ Len(done[p]) \in Nat /\ Len(want[p]) = 0
      /\ Len(done[p]) + Len(todo[p]) = Len(want[p])
      /\ nfd[p] = Closed
  BY CallLengths DEF FdInv, CallRight, Progress
<1>2. Len(todo[p]) = 0 /\ Len(done[p]) = 0
  <2>1. \A a, b \in Nat : a + b = 0 => a = 0 /\ b = 0
    OBVIOUS
  <2> QED BY <1>1, <2>1
<1> QED BY <1>1, <1>2, NumberFacts DEF InHand

\* A call that is over.
LEMMA Rests ==
  ASSUME CallTypes, NEW p \in Procs, Idle(p)
  PROVE  /\ CallTypes' /\ CallRight(p)' /\ \A n \in Fds : ~InHand(p, n)'
         /\ \A q \in Procs \ {p} : /\ pc'[q] = pc[q] /\ todo'[q] = todo[q] /\ done'[q] = done[q]
                                   /\ nfd'[q] = nfd[q] /\ want'[q] = want[q]
<1>1. \A T : <<>> \in Seq(T) /\ Len(<<>>) = 0
  BY EmptySeq
<1>2. CallTypes'
  BY <1>1 DEF CallTypes, Idle
<1>3. /\ Len(todo'[p]) = 0 /\ Len(done'[p]) = 0 /\ Len(want'[p]) = 0
      /\ nfd'[p] = Closed /\ pc'[p] = "idle"
  BY <1>1 DEF CallTypes, Idle
<1>4. Progress(p)'
  BY <1>3 DEF Progress
<1>5. Contents(p)' /\ Different(p)'
  BY <1>3 DEF Contents, Different
<1>6. \A n \in Fds : ~InHand(p, n)'
  BY <1>3, NumberFacts DEF InHand
<1> QED BY <1>2, <1>4, <1>5, <1>6 DEF CallRight, CallTypes, Idle

\* A number that was free, or is given up.
LEMMA FreeNumber ==
  ASSUME FdInv, NEW n \in Fds, fdt[n] = Closed
  PROVE  /\ \A q \in Procs : ~InHand(q, n)
         /\ ~OfC(n) /\ ~OfOs(n) /\ \A i \in StdFds : ~OfHost(i, n)
BY DEF FdInv, OneHolder

LEMMA GivenUp ==
  ASSUME NEW n \in Fds, fdt'[n] = Closed, \A q \in Procs : ~InHand(q, n)',
         ~OfC(n)', ~OfOs(n)', \A i \in StdFds : ~OfHost(i, n)'
  PROVE  OneHolder(n)'
BY DEF OneHolder

LEMMA TakenByCall ==
  ASSUME NEW n \in Fds, fdt'[n] # Closed, NEW p \in Procs, InHand(p, n)',
         \A q \in Procs \ {p} : ~InHand(q, n)',
         ~OfC(n)', ~OfOs(n)', \A i \in StdFds : ~OfHost(i, n)'
  PROVE  OneHolder(n)'
BY DEF OneHolder

LEMMA TakenByC ==
  ASSUME NEW n \in Fds, fdt'[n] # Closed, own'[n] = fdt'[n], n > 2,
         \A q \in Procs : ~InHand(q, n)', ~OfOs(n)', \A i \in StdFds : ~OfHost(i, n)'
  PROVE  OneHolder(n)'
<1>1. OfC(n)'
  BY DEF OfC
<1> QED BY <1>1 DEF OneHolder

LEMMA ToldIs ==
  ASSUME Tables, NEW numbers \in Seq(Fds), NEW entries \in Seq(Entry),
         Len(numbers) = Len(entries),
         \A i, k \in 1 .. Len(numbers) : numbers[i] = numbers[k] => i = k
  PROVE  /\ Told(numbers, entries) \in [Fds -> Entry \cup {Closed}]
         /\ \A i \in 1 .. Len(numbers) : Told(numbers, entries)[numbers[i]] = entries[i]
         /\ \A n \in Fds : (\A i \in 1 .. Len(numbers) : numbers[i] # n) =>
                             Told(numbers, entries)[n] = own[n]
<1>1. /\ DOMAIN numbers = 1 .. Len(numbers) /\ Len(numbers) \in Nat
      /\ \A i \in 1 .. Len(numbers) : numbers[i] \in Fds /\ entries[i] \in Entry
  BY LenProperties, ElementOfSeq
<1> DEFINE t == Told(numbers, entries)
           at(n) == CHOOSE i \in 1 .. Len(numbers) : numbers[i] = n
<1>2. \A n \in Fds : t[n] = IF \E i \in 1 .. Len(numbers) : numbers[i] = n
                            THEN entries[at(n)] ELSE own[n]
  BY <1>1 DEF Told
<1>3. t = [n \in Fds |-> t[n]]
  BY DEF Told
<1>4. \A n \in Fds : (\E i \in 1 .. Len(numbers) : numbers[i] = n) =>
                       at(n) \in 1 .. Len(numbers) /\ numbers[at(n)] = n
  OBVIOUS
<1> HIDE DEF t, at
<1>5. \A i \in 1 .. Len(numbers) : t[numbers[i]] = entries[i]
  BY <1>1, <1>2, <1>4
<1>6. \A n \in Fds : t[n] \in Entry \cup {Closed}
  BY <1>1, <1>2, <1>4 DEF Tables
<1>7. t \in [Fds -> Entry \cup {Closed}]
  BY <1>3, <1>6
<1> QED BY <1>2, <1>5, <1>7 DEF t

\* open, dup, pipe and fcntl, up to c2goFD: numbers that were free.
LEMMA Created ==
  ASSUME FdInv, NEW p \in Procs, pc[p] = "idle",
         NEW numbers \in Seq(Fds), NEW entries \in Seq(Entry),
         Len(numbers) = Len(entries), Len(numbers) <= 2,
         \A i, k \in 1 .. Len(numbers) : numbers[i] = numbers[k] => i = k,
         \A i \in 1 .. Len(numbers) : fdt[numbers[i]] = Closed /\ fdt'[numbers[i]] = entries[i],
         \A n \in Fds : (\A i \in 1 .. Len(numbers) : numbers[i] # n) => fdt'[n] = fdt[n],
         fdt' \in [Fds -> Entry \cup {Closed}],
         Begin(p, numbers, entries)
  PROVE  FdInv'
<1> DEFINE New(n) == \E i \in 1 .. Len(numbers) : numbers[i] = n
<1>1. /\ Len(numbers) \in Nat /\ DOMAIN numbers = 1 .. Len(numbers)
      /\ \A i \in 1 .. Len(numbers) : numbers[i] \in Fds /\ entries[i] \in Entry
  BY LenProperties, ElementOfSeq
<1>2. /\ Tables /\ CallTypes /\ StdStreams
      /\ \A q \in Procs : CallRight(q) /\ \A n \in Fds : OneHolder(n)
  BY DEF FdInv
<1>3. \A n \in Fds : New(n) => /\ \A q \in Procs : ~InHand(q, n)
                               /\ ~OfC(n) /\ ~OfOs(n) /\ \A i \in StdFds : ~OfHost(i, n)
  BY FreeNumber
<1>4. /\ StdStreams' /\ \A n \in Fds : OfOs(n)' <=> OfOs(n)
      /\ \A n \in Fds, i \in StdFds : OfHost(i, n)' <=> OfHost(i, n)
  BY <1>2 DEF Begin, StdStreams, OfOs, OfHost, IsDefault
<1>5. /\ Len(todo[p]) = 0 /\ Len(done[p]) = 0 /\ Len(want[p]) = 0 /\ nfd[p] = Closed
      /\ \A n \in Fds : ~InHand(p, n)
  BY AtRest
<1>6. /\ CallTypes'
      /\ \A q \in Procs \ {p} : /\ pc'[q] = pc[q] /\ todo'[q] = todo[q] /\ done'[q] = done[q]
                                /\ nfd'[q] = nfd[q] /\ want'[q] = want[q]
  BY <1>2, ZenonT(60) DEF Begin, locals, CallTypes
<1>7. \A n \in Fds : ~New(n) => fdt'[n] = fdt[n]
  OBVIOUS
<1>8. \A n \in Fds : New(n) => fdt'[n] \in Entry /\ fdt'[n] # Closed
  BY <1>1, NumberFacts
<1>9. ASSUME NEW q \in Procs \ {p}
      PROVE  CallRight(q)' /\ \A n \in Fds : InHand(q, n)' <=> InHand(q, n)
  <2>1. \A n \in Fds : InHand(q, n) => fdt'[n] = fdt[n]
    BY <1>3, <1>7
  <2> HIDE DEF New
  <2> QED BY <1>2, <1>6, <2>1, Bystander
<1>10. CASE \E i \in DOMAIN numbers : numbers[i] < 3
  <2>1. /\ pc'[p] = "next" /\ todo'[p] = numbers /\ want'[p] = entries
        /\ done'[p] = done[p] /\ nfd'[p] = nfd[p] /\ own' = own /\ std' = std /\ lost' = lost
    BY <1>2, <1>10 DEF Begin, CallTypes
  <2>2. Len(todo'[p]) = Len(numbers) /\ Len(want'[p]) = Len(numbers) /\ Len(done'[p]) = 0
    BY <1>5, <2>1
  <2>3. Progress(p)'
    <3>1. 0 + Len(numbers) = Len(numbers)
      BY <1>1
    <3>2. pc'[p] = "next" /\ nfd'[p] = Closed
      BY <1>5, <2>1
    <3> QED BY <2>2, <3>1, <3>2 DEF Progress
  <2>4. Different(p)'
    BY <1>1, <1>5, <2>1, <2>2, NumberFacts DEF Different
  <2>5. Contents(p)'
    <3>1. \A i \in 1 .. Len(numbers) : 0 + i = i /\ fdt'[numbers[i]] = entries[i]
      OBVIOUS
    <3>2. nfd'[p] = Closed
      BY <1>5, <2>1
    <3>3. \A i \in 1 .. Len(todo'[p]) : fdt'[todo'[p][i]] = want'[p][Len(done'[p]) + i]
      BY <2>1, <2>2, <3>1
    <3> QED BY <2>2, <3>2, <3>3 DEF Contents
  <2>6. \A n \in Fds : InHand(p, n)' <=> New(n)
    BY <1>1, <1>5, <2>1, <2>2, NumberFacts DEF InHand
  <2>7. Tables'
    BY <1>2, <2>1 DEF Tables
  <2> HIDE DEF New
  <2>8. ASSUME NEW n \in Fds PROVE OneHolder(n)'
    <3>1. CASE New(n)
      BY <1>3, <1>4, <1>8, <1>9, <2>1, <2>6, <3>1, TakenByCall DEF OfC
    <3>2. CASE ~New(n)
      BY <1>2, <1>4, <1>5, <1>7, <1>9, <2>1, <2>6, <3>2, SameHolder
    <3> QED BY <3>1, <3>2
  <2> QED BY <1>4, <1>6, <1>9, <2>3, <2>4, <2>5, <2>7, <2>8 DEF FdInv, CallRight
<1>11. CASE ~\E i \in DOMAIN numbers : numbers[i] < 3
  <2>1. /\ own' = Told(numbers, entries) /\ std' = std /\ lost' = lost
        /\ pc' = pc /\ todo' = todo /\ done' = done /\ nfd' = nfd /\ want' = want
    BY <1>11 DEF Begin, locals
  <2>2. /\ own' \in [Fds -> Entry \cup {Closed}]
        /\ \A i \in 1 .. Len(numbers) : own'[numbers[i]] = entries[i]
        /\ \A n \in Fds : ~New(n) => own'[n] = own[n]
    BY <1>2, <2>1, ToldIs
  <2>3. \A n \in Fds : New(n) => own'[n] = fdt'[n] /\ n > 2
    BY <1>1, <1>11, <2>2, NumberFacts
  <2> HIDE DEF New
  <2>4. CallRight(p)' /\ \A n \in Fds : InHand(p, n)' <=> InHand(p, n)
    BY <1>2, <1>5, <2>1, Bystander
  <2>5. \A q \in Procs : \A n \in Fds : InHand(q, n)' <=> InHand(q, n)
    BY <1>9, <2>4
  <2>6. Tables'
    BY <1>2, <2>1, <2>2 DEF Tables
  <2>7. ASSUME NEW n \in Fds PROVE OneHolder(n)'
    <3>1. CASE New(n)
      BY <1>3, <1>4, <1>8, <2>3, <2>5, <3>1, TakenByC
    <3>2. CASE ~New(n)
      BY <1>2, <1>4, <1>7, <2>2, <2>5, <3>2, SameHolder
    <3> QED BY <3>1, <3>2
  <2> QED BY <1>4, <1>6, <1>9, <2>4, <2>6, <2>7 DEF FdInv
<1> QED BY <1>10, <1>11

\* What a usable number denotes.
LEMMA UsableDenotes ==
  ASSUME FdInv, NEW old \in Fds, Usable(old)
  PROVE  /\ Kernel(old) \in Fds /\ fdt[Kernel(old)] \in Entry
         /\ fdt[Kernel(old)].node \in Nodes
<1>1. /\ Tables /\ StdStreams /\ \A n \in Fds : OneHolder(n)
  BY DEF FdInv
<1>2. CASE old \in StdFds
  <2>1. old \notin lost
    BY <1>1, <1>2, NumberFacts DEF Usable, OneHolder, OfC, StdFds, Fds
  <2>2. std[old].num \in Fds /\ Kernel(old) = std[old].num
    BY <1>1, <1>2 DEF Tables, Kernel, isStdFd
  <2>3. OfOs(old) /\ (~IsDefault(old) => OfHost(old, std[old].num))
        /\ (IsDefault(old) => std[old].num = old)
    BY <1>1, <1>2, <2>1 DEF OfOs, OfHost, StdStreams
  <2>4. fdt[std[old].num] # Closed
    BY <1>1, <1>2, <2>2, <2>3 DEF OneHolder
  <2> QED BY <1>1, <2>2, <2>4 DEF Tables, Entry
<1>3. CASE old \notin StdFds
  <2>1. Kernel(old) = old /\ OfC(old)
    BY <1>3 DEF Kernel, isStdFd, Usable, OfC
  <2>2. fdt[old] # Closed
    BY <1>1, <2>1 DEF OneHolder
  <2> QED BY <1>1, <2>1, <2>2 DEF Tables, Entry
<1> QED BY <1>2, <1>3

LEMMA OpenKeeps ==
  ASSUME FdInv, NEW p \in Procs, NEW what \in Nodes, NEW c \in BOOLEAN, Open(p, what, c)
  PROVE  FdInv'
<1> DEFINE e == [node |-> what, cloexec |-> c]  n == LowestFrom(0)
<1>1. n \in Fds /\ fdt[n] = Closed /\ e \in Entry
  BY LeastFree DEF Open, Entry
<1>2. pc[p] = "idle" /\ fdt' = [fdt EXCEPT ![n] = e] /\ Begin(p, <<n>>, <<e>>)
  BY DEF Open
<1> HIDE DEF e, n
<1>3. /\ <<n>> \in Seq(Fds) /\ Len(<<n>>) = 1 /\ <<n>>[1] = n
      /\ <<e>> \in Seq(Entry) /\ Len(<<e>>) = 1 /\ <<e>>[1] = e
  BY <1>1, OneTwo
<1>4. fdt' \in [Fds -> Entry \cup {Closed}] /\ fdt'[n] = e /\ \A m \in Fds : m # n => fdt'[m] = fdt[m]
  BY <1>1, <1>2 DEF FdInv, Tables
<1> DEFINE ns == <<n>>  es == <<e>>
<1>5. /\ ns \in Seq(Fds) /\ es \in Seq(Entry) /\ Len(ns) = 1 /\ Len(es) = 1
      /\ ns[1] = n /\ es[1] = e /\ Begin(p, ns, es)
  BY <1>2, <1>3
<1> HIDE DEF ns, es
<1>6. /\ \A i, k \in 1 .. Len(ns) : ns[i] = ns[k] => i = k
      /\ \A i \in 1 .. Len(ns) : fdt[ns[i]] = Closed /\ fdt'[ns[i]] = es[i]
  BY <1>1, <1>4, <1>5
<1>7. \A k \in Fds : (\A i \in 1 .. Len(ns) : ns[i] # k) => fdt'[k] = fdt[k]
  BY <1>4, <1>5
<1>8. Len(ns) = Len(es) /\ Len(ns) <= 2
  BY <1>5
<1> QED BY <1>2, <1>4, <1>5, <1>6, <1>7, <1>8, Created

LEMMA DupKeeps ==
  ASSUME FdInv, NEW p \in Procs, NEW old \in Fds, NEW low \in Nat, NEW c \in BOOLEAN,
         Dup(p, old, low, c)
  PROVE  FdInv'
<1> DEFINE e == [node |-> fdt[Kernel(old)].node, cloexec |-> c]  n == LowestFrom(low)
<1>1. n \in Fds /\ fdt[n] = Closed /\ e \in Entry
  BY LeastFree, UsableDenotes DEF Dup, Entry
<1>2. pc[p] = "idle" /\ fdt' = [fdt EXCEPT ![n] = e] /\ Begin(p, <<n>>, <<e>>)
  BY DEF Dup
<1> HIDE DEF e, n
<1>3. /\ <<n>> \in Seq(Fds) /\ Len(<<n>>) = 1 /\ <<n>>[1] = n
      /\ <<e>> \in Seq(Entry) /\ Len(<<e>>) = 1 /\ <<e>>[1] = e
  BY <1>1, OneTwo
<1>4. /\ fdt' \in [Fds -> Entry \cup {Closed}] /\ fdt'[n] = e
      /\ \A m \in Fds : m # n => fdt'[m] = fdt[m]
  BY <1>1, <1>2 DEF FdInv, Tables
<1> DEFINE ns == <<n>>  es == <<e>>
<1>5. /\ ns \in Seq(Fds) /\ es \in Seq(Entry) /\ Len(ns) = 1 /\ Len(es) = 1
      /\ ns[1] = n /\ es[1] = e /\ Begin(p, ns, es)
  BY <1>2, <1>3
<1> HIDE DEF ns, es
<1>6. /\ \A i, k \in 1 .. Len(ns) : ns[i] = ns[k] => i = k
      /\ \A i \in 1 .. Len(ns) : fdt[ns[i]] = Closed /\ fdt'[ns[i]] = es[i]
  BY <1>1, <1>4, <1>5
<1>7. \A k \in Fds : (\A i \in 1 .. Len(ns) : ns[i] # k) => fdt'[k] = fdt[k]
  BY <1>4, <1>5
<1>8. Len(ns) = Len(es) /\ Len(ns) <= 2
  BY <1>5
<1> QED BY <1>2, <1>4, <1>5, <1>6, <1>7, <1>8, Created, ZenonT(60)

LEMMA PipeKeeps ==
  ASSUME FdInv, NEW p \in Procs, NEW what \in Nodes, NEW c \in BOOLEAN, Pipe(p, what, what, c)
  PROVE  FdInv'
<1> DEFINE e == [node |-> what, cloexec |-> c]
           m == LowestFrom(0)
           n == CHOOSE k \in FreeFrom(m + 1) : \A j \in FreeFrom(m + 1) : k <= j
<1>1. /\ m \in Fds /\ fdt[m] = Closed /\ n \in Fds /\ n >= m + 1 /\ fdt[n] = Closed
      /\ e \in Entry
  BY TwoFree DEF Pipe, Entry
<1>2. pc[p] = "idle" /\ fdt' = [fdt EXCEPT ![m] = e, ![n] = e] /\ Begin(p, <<m, n>>, <<e, e>>)
  BY DEF Pipe
<1> HIDE DEF e, m, n
<1>3. /\ <<m, n>> \in Seq(Fds) /\ Len(<<m, n>>) = 2 /\ <<m, n>>[1] = m /\ <<m, n>>[2] = n
      /\ <<e, e>> \in Seq(Entry) /\ Len(<<e, e>>) = 2 /\ <<e, e>>[1] = e /\ <<e, e>>[2] = e
  BY <1>1, OneTwo
<1>4. m # n
  BY <1>1, NumberFacts
<1>5. /\ fdt' \in [Fds -> Entry \cup {Closed}] /\ fdt'[m] = e /\ fdt'[n] = e
      /\ \A k \in Fds : k # m /\ k # n => fdt'[k] = fdt[k]
  BY <1>1, <1>2 DEF FdInv, Tables
<1> DEFINE ns == <<m, n>>  es == <<e, e>>
<1>6. /\ ns \in Seq(Fds) /\ es \in Seq(Entry) /\ Len(ns) = 2 /\ Len(es) = 2
      /\ ns[1] = m /\ ns[2] = n /\ es[1] = e /\ es[2] = e /\ Begin(p, ns, es)
  BY <1>2, <1>3
<1> HIDE DEF ns, es
<1>7. \A i \in 1 .. Len(ns) : i = 1 \/ i = 2
  BY <1>6
<1>8. /\ \A i, k \in 1 .. Len(ns) : ns[i] = ns[k] => i = k
      /\ \A i \in 1 .. Len(ns) : fdt[ns[i]] = Closed /\ fdt'[ns[i]] = es[i]
  BY <1>1, <1>4, <1>5, <1>6, <1>7
<1>9. \A k \in Fds : (\A i \in 1 .. Len(ns) : ns[i] # k) => fdt'[k] = fdt[k]
  BY <1>5, <1>6
<1>10. Len(ns) = Len(es) /\ Len(ns) <= 2
  BY <1>6
<1> QED BY <1>2, <1>5, <1>6, <1>8, <1>9, <1>10, Created, ZenonT(60)

\* A system call of c2goFD: it touches free numbers and the thread's own.
LEMMA OwnStep ==
  ASSUME FdInv, NEW p \in Procs, UNCHANGED <<std, lost, own>>,
         fdt' \in [Fds -> Entry \cup {Closed}], CallTypes', CallRight(p)',
         \A q \in Procs \ {p} : /\ pc'[q] = pc[q] /\ todo'[q] = todo[q] /\ done'[q] = done[q]
                                /\ nfd'[q] = nfd[q] /\ want'[q] = want[q],
         \A n \in Fds : fdt'[n] = fdt[n] \/ fdt[n] = Closed \/ InHand(p, n),
         \A n \in Fds : IF InHand(p, n)'
                        THEN fdt'[n] # Closed /\ (InHand(p, n) \/ fdt[n] = Closed)
                        ELSE /\ InHand(p, n) => fdt'[n] = Closed
                             /\ fdt[n] = Closed => fdt'[n] = Closed
  PROVE  FdInv'
<1>1. /\ Tables /\ CallTypes /\ StdStreams
      /\ \A q \in Procs : CallRight(q) /\ \A n \in Fds : OneHolder(n)
  BY DEF FdInv
<1>2. /\ Tables' /\ StdStreams'
      /\ \A n \in Fds : (OfOs(n)' <=> OfOs(n)) /\ (OfC(n)' <=> OfC(n))
      /\ \A n \in Fds, i \in StdFds : OfHost(i, n)' <=> OfHost(i, n)
  BY <1>1 DEF Tables, StdStreams, OfOs, OfC, OfHost, IsDefault
<1>3. ASSUME NEW q \in Procs \ {p}
      PROVE  CallRight(q)' /\ \A n \in Fds : InHand(q, n)' <=> InHand(q, n)
  <2>1. \A n \in Fds : InHand(q, n) => fdt'[n] = fdt[n]
    BY <1>1 DEF OneHolder
  <2> QED BY <1>1, <2>1, Bystander
<1>4. ASSUME NEW n \in Fds PROVE OneHolder(n)'
  <2>1. CASE InHand(p, n)'
    <3>1. /\ \A q \in Procs \ {p} : ~InHand(q, n)
          /\ ~OfC(n) /\ ~OfOs(n) /\ \A i \in StdFds : ~OfHost(i, n)
      BY <1>1, <2>1 DEF OneHolder
    <3> QED BY <1>2, <1>3, <2>1, <3>1, TakenByCall
  <2>2. CASE ~InHand(p, n)' /\ InHand(p, n)
    <3>1. /\ \A q \in Procs \ {p} : ~InHand(q, n)
          /\ ~OfC(n) /\ ~OfOs(n) /\ \A i \in StdFds : ~OfHost(i, n)
      BY <1>1, <2>2 DEF OneHolder
    <3> QED BY <1>2, <1>3, <2>2, <3>1, GivenUp
  <2>3. CASE ~InHand(p, n)' /\ ~InHand(p, n)
    <3>1. fdt'[n] = fdt[n]
      BY <2>3
    <3>2. \A q \in Procs : InHand(q, n)' <=> InHand(q, n)
      BY <1>3, <2>3
    <3> QED BY <1>1, <1>2, <3>1, <3>2, SameHolder
  <2> QED BY <2>1, <2>2, <2>3
<1> QED BY <1>2, <1>3, <1>4 DEF FdInv

\* A number has passed c2goFD as x, which is itself or its copy.
LEMMA Passed ==
  ASSUME CallTypes, NEW p \in Procs, CallRight(p), Len(todo[p]) > 0, NEW x \in Fds, x > 2,
         x \in {todo[p][1], nfd[p]},
         todo' = [todo EXCEPT ![p] = Tail(@)], done' = [done EXCEPT ![p] = Append(@, x)],
         nfd' \in [Procs -> Fds \cup {Closed}], nfd'[p] = Closed,
         pc' \in [Procs -> {"idle", "next", "dup", "setfd", "close"}], pc'[p] = "next",
         want' = want,
         fdt[x] = fdt[todo[p][1]],
         \A n \in Fds : (InHand(p, n) /\ n # todo[p][1]) \/ n = x => fdt'[n] = fdt[n]
  PROVE  /\ CallTypes' /\ CallRight(p)'
         /\ \A n \in Fds : InHand(p, n)' <=>
              \/ n = x
              \/ InHand(p, n) /\ n # todo[p][1] /\ n # nfd[p]
<1> DEFINE s == todo[p]  d == done[p]  w == want[p]  t == todo'[p]  u == done'[p]
<1>1. /\ s \in Seq(Fds) /\ d \in Seq(Fds) /\ w \in Seq(Entry) /\ Len(w) \in Nat
      /\ Len(s) \in Nat /\ Len(d) \in Nat
      /\ \A i \in 1 .. Len(s) : s[i] \in Fds
      /\ \A i \in 1 .. Len(d) : d[i] \in Fds
  BY CallLengths
<1>2. /\ Tail(s) \in Seq(Fds) /\ Len(Tail(s)) = Len(s) - 1
      /\ \A i \in 1 .. Len(s) - 1 : Tail(s)[i] = s[i + 1]
      /\ Append(d, x) \in Seq(Fds) /\ Len(Append(d, x)) = Len(d) + 1
      /\ \A i \in 1 .. Len(d) : Append(d, x)[i] = d[i]
      /\ Append(d, x)[Len(d) + 1] = x
  BY <1>1, Advance
<1>3. t = Tail(s) /\ u = Append(d, x)
  BY DEF CallTypes
<1>4. CallTypes'
  BY <1>2 DEF CallTypes
<1>5. /\ Progress(p) /\ Contents(p) /\ Different(p)
  BY DEF CallRight
<1> PICK m \in Nat, k \in Nat : m = Len(s) /\ k = Len(d)
  BY <1>1
<1>6. /\ m \in Nat \ {0} /\ Len(t) = m - 1 /\ \A i \in 1 .. m - 1 : t[i] = s[i + 1]
      /\ \A i \in 1 .. m - 1 : i + 1 \in 1 .. m /\ i + 1 # 1 /\ s[i + 1] \in Fds
      /\ 1 \in 1 .. m
  <2>1. m > 0
    OBVIOUS
  <2>2. Len(t) = m - 1 /\ \A i \in 1 .. m - 1 : t[i] = s[i + 1]
    BY <1>2, <1>3
  <2>3. \A i \in 1 .. m : s[i] \in Fds
    BY <1>1
  <2> HIDE DEF s, t
  <2>4. /\ m \in Nat \ {0} /\ 1 \in 1 .. m
        /\ \A i \in 1 .. m - 1 : i + 1 \in 1 .. m /\ i + 1 # 1
    BY <2>1
  <2> QED BY <2>2, <2>3, <2>4
<1>7. /\ Len(u) = k + 1 /\ u[k + 1] = x
      /\ \A i \in 1 .. k : u[i] = d[i] /\ d[i] \in Fds
      /\ \A i \in 1 .. k + 1 : i \in 1 .. k \/ i = k + 1
  BY <1>1, <1>2, <1>3
<1>8. /\ \A i, j \in 1 .. m : s[i] = s[j] => i = j
      /\ \A i, j \in 1 .. k : d[i] = d[j] => i = j
      /\ \A i \in 1 .. k, j \in 1 .. m : d[i] # s[j]
      /\ \A i \in 1 .. k : d[i] # nfd[p]
      /\ \A i \in 1 .. m : s[i] # nfd[p]
  BY <1>5 DEF Different
<1>9. /\ \A i \in 1 .. k : d[i] > 2 /\ fdt[d[i]] = w[i]
      /\ \A i \in 1 .. m : fdt[s[i]] = w[k + i]
  BY <1>5 DEF Contents
<1>10. k + m = Len(w) /\ Len(w) <= 2
  BY <1>5 DEF Progress
<1>11. \A n \in Fds : InHand(p, n) <=> \/ \E i \in 1 .. m : s[i] = n
                                       \/ \E i \in 1 .. k : d[i] = n
                                       \/ nfd[p] = n
  <2> SUFFICES ASSUME NEW n \in Fds
               PROVE  InHand(p, n) <=> \/ \E i \in 1 .. m : s[i] = n
                                       \/ \E i \in 1 .. k : d[i] = n
                                       \/ nfd[p] = n
    OBVIOUS
  <2>1. 1 .. Len(s) = 1 .. m /\ 1 .. Len(d) = 1 .. k
    BY Zenon
  <2> QED BY <2>1 DEF InHand
<1>12. x \in {s[1], nfd[p]} /\ want'[p] = w
  OBVIOUS
<1> HIDE DEF t, u, s, d, w
<1>13. Progress(p)'
  <2>1. (k + 1) + (m - 1) = Len(w)
    BY <1>6, <1>10
  <2> QED BY <1>6, <1>7, <1>10, <1>12, <2>1 DEF Progress, t, u
<1>14. /\ \A i \in 1 .. m - 1 : t[i] # x /\ t[i] # Closed /\ t[i] # s[1]
       /\ \A i \in 1 .. k : d[i] # x
  BY <1>6, <1>7, <1>8, <1>12, NumberFacts
<1>15. Different(p)'
  <2>1. \A i, j \in 1 .. m - 1 : t[i] = t[j] => i = j
    <3> SUFFICES ASSUME NEW i \in 1 .. m - 1, NEW j \in 1 .. m - 1, t[i] = t[j] PROVE i = j
      OBVIOUS
    <3>1. i + 1 = j + 1
      BY <1>6, <1>8
    <3> QED BY <3>1
  <2>2. \A i \in 1 .. k, j \in 1 .. m - 1 : d[i] # t[j]
    BY <1>6, <1>8
  <2>3. \A i, j \in 1 .. k + 1 : u[i] = u[j] => i = j
    BY <1>7, <1>8, <1>14
  <2>4. \A i \in 1 .. k + 1, j \in 1 .. m - 1 : u[i] # t[j]
    <3>1. ASSUME NEW i \in 1 .. k, NEW j \in 1 .. m - 1 PROVE u[i] # t[j]
      <4>1. d[i] # t[j]
        BY <2>2
      <4> QED BY <1>7, <4>1
    <3>2. \A j \in 1 .. m - 1 : u[k + 1] # t[j]
      BY <1>7, <1>14
    <3> QED BY <1>7, <3>1, <3>2
  <2>5. \A i \in 1 .. k + 1 : u[i] # Closed
    BY <1>7, NumberFacts
  <2>6. \A i \in 1 .. m - 1 : t[i] # Closed
    BY <1>14
  <2>7. /\ \A i, j \in 1 .. Len(t) : t[i] = t[j] => i = j
        /\ \A i, j \in 1 .. Len(u) : u[i] = u[j] => i = j
        /\ \A i \in 1 .. Len(u), j \in 1 .. Len(t) : u[i] # t[j]
        /\ \A i \in 1 .. Len(u) : u[i] # nfd'[p]
        /\ \A i \in 1 .. Len(t) : t[i] # nfd'[p]
    BY <1>6, <1>7, <2>1, <2>3, <2>4, <2>5, <2>6
  <2> QED BY <2>7 DEF Different, t, u
<1>16. /\ \A i \in 1 .. k : fdt'[d[i]] = fdt[d[i]]
       /\ \A i \in 1 .. m - 1 : fdt'[s[i + 1]] = fdt[s[i + 1]]
       /\ fdt'[x] = fdt[s[1]]
  <2>1. ASSUME NEW i \in 1 .. k PROVE fdt'[d[i]] = fdt[d[i]]
    <3>1. d[i] \in Fds /\ InHand(p, d[i]) /\ d[i] # s[1]
      BY <1>6, <1>7, <1>8, <1>11
    <3> QED BY <3>1 DEF s
  <2>2. ASSUME NEW i \in 1 .. m - 1 PROVE fdt'[s[i + 1]] = fdt[s[i + 1]]
    <3>1. s[i + 1] \in Fds /\ InHand(p, s[i + 1]) /\ s[i + 1] # s[1]
      BY <1>6, <1>8, <1>11
    <3> QED BY <3>1 DEF s
  <2> QED BY <2>1, <2>2 DEF s
<1>17. Contents(p)'
  <2>1. \A i \in 1 .. k + 1 : u[i] > 2 /\ fdt'[u[i]] = w[i]
    <3>1. \A i \in 1 .. k : u[i] > 2 /\ fdt'[u[i]] = w[i]
      BY <1>7, <1>9, <1>16
    <3>2. fdt'[u[k + 1]] = w[k + 1]
      BY <1>6, <1>7, <1>9, <1>16
    <3> QED BY <1>7, <3>1, <3>2
  <2>2. \A i \in 1 .. m - 1 : fdt'[t[i]] = w[(k + 1) + i]
    <3> SUFFICES ASSUME NEW i \in 1 .. m - 1 PROVE fdt'[t[i]] = w[(k + 1) + i]
      OBVIOUS
    <3>1. fdt'[t[i]] = fdt[s[i + 1]] /\ i + 1 \in 1 .. m
      BY <1>6, <1>16
    <3>2. fdt[s[i + 1]] = w[k + (i + 1)]
      BY <1>9, <3>1
    <3>3. k + (i + 1) = (k + 1) + i
      OBVIOUS
    <3> QED BY <3>1, <3>2, <3>3
  <2> QED BY <1>6, <1>7, <1>12, <2>1, <2>2, SMTT(30) DEF Contents, t, u
<1>18. ASSUME NEW n \in Fds
       PROVE  InHand(p, n)' <=> n = x \/ (InHand(p, n) /\ n # s[1] /\ n # nfd[p])
  <2>1. InHand(p, n)' <=> \/ \E i \in 1 .. m - 1 : t[i] = n
                          \/ \E i \in 1 .. k + 1 : u[i] = n
    BY <1>6, <1>7, NumberFacts DEF InHand, t, u
  <2>2. (\E i \in 1 .. k + 1 : u[i] = n) <=> n = x \/ \E i \in 1 .. k : d[i] = n
    BY <1>7
  <2>3. (\E i \in 1 .. m - 1 : t[i] = n) <=> (\E i \in 1 .. m : s[i] = n) /\ n # s[1]
    <3>1. \A i \in 1 .. m - 1 : t[i] = s[i + 1] /\ i + 1 \in 1 .. m /\ t[i] # s[1]
      BY <1>6, <1>14
    <3>2. \A i \in 1 .. m : i = 1 \/ (i - 1 \in 1 .. m - 1 /\ (i - 1) + 1 = i)
      OBVIOUS
    <3>3. \A i \in 1 .. m : s[i] = s[1] \/ (i - 1 \in 1 .. m - 1 /\ t[i - 1] = s[i])
      BY <3>1, <3>2
    <3>4. (\E i \in 1 .. m - 1 : t[i] = n) => (\E i \in 1 .. m : s[i] = n) /\ n # s[1]
      BY <3>1
    <3>5. (\E i \in 1 .. m : s[i] = n) /\ n # s[1] => \E i \in 1 .. m - 1 : t[i] = n
      BY <3>3
    <3> QED BY <3>4, <3>5
  <2> QED BY <1>6, <1>7, <1>8, <1>11, <2>1, <2>2, <2>3
<1> QED BY <1>4, <1>13, <1>15, <1>17, <1>18 DEF CallRight, s

\* What is known of a thread that is in c2goFD with a number left.
LEMMA AtNumber ==
  ASSUME FdInv, NEW p \in Procs, Len(todo[p]) > 0
  PROVE  /\ Tables /\ CallTypes /\ CallRight(p)
         /\ todo[p] \in Seq(Fds) /\ todo[p] # <<>> /\ Head(todo[p]) = todo[p][1]
         /\ todo[p][1] \in Fds /\ InHand(p, todo[p][1]) /\ fdt[todo[p][1]] \in Entry
<1>1. Tables /\ CallTypes /\ CallRight(p) /\ \A n \in Fds : OneHolder(n)
  BY DEF FdInv
<1>2. todo[p] \in Seq(Fds) /\ Len(todo[p]) \in Nat
  BY <1>1, CallLengths
<1>3. 1 \in 1 .. Len(todo[p])
  BY <1>2
<1>4. todo[p][1] \in Fds /\ InHand(p, todo[p][1])
  BY <1>1, <1>3, CallLengths DEF InHand
<1>5. fdt[todo[p][1]] \in Entry
  <2>1. fdt[todo[p][1]] # Closed
    BY <1>1, <1>4 DEF OneHolder
  <2> QED BY <1>1, <1>4, <2>1 DEF Tables
<1>6. todo[p] # <<>> /\ Head(todo[p]) = todo[p][1]
  BY <1>2, EmptySeq, HeadTailProperties
<1> QED BY <1>1, <1>2, <1>4, <1>5, <1>6

LEMMA NotEmpty ==
  ASSUME FdInv, NEW p \in Procs, todo[p] # <<>>
  PROVE  Len(todo[p]) > 0
<1>1. todo[p] \in Seq(Fds)
  BY CallLengths DEF FdInv
<1> QED BY <1>1, EmptySeq

LEMMA KeepKeeps ==
  ASSUME FdInv, NEW p \in Procs, Keep(p)
  PROVE  FdInv'
<1> DEFINE x == todo[p][1]
<1>1. Len(todo[p]) > 0
  BY NotEmpty DEF Keep
<1>2. /\ Tables /\ CallTypes /\ CallRight(p) /\ Head(todo[p]) = x /\ x \in Fds
      /\ InHand(p, x) /\ fdt[x] \in Entry
  BY <1>1, AtNumber
<1>3. /\ pc[p] = "next" /\ x > 2 /\ todo' = [todo EXCEPT ![p] = Tail(@)]
      /\ done' = [done EXCEPT ![p] = Append(@, x)]
      /\ UNCHANGED <<fdt, std, lost, own, pc, nfd, want>>
  BY <1>2 DEF Keep
<1>4. nfd[p] = Closed
  BY <1>2, <1>3 DEF CallRight, Progress
<1>5. /\ CallTypes' /\ CallRight(p)'
      /\ \A n \in Fds : InHand(p, n)' <=> n = x \/ (InHand(p, n) /\ n # x /\ n # nfd[p])
  <2>1. /\ nfd' \in [Procs -> Fds \cup {Closed}] /\ nfd'[p] = Closed
        /\ pc' \in [Procs -> {"idle", "next", "dup", "setfd", "close"}] /\ pc'[p] = "next"
    BY <1>2, <1>3, <1>4 DEF CallTypes
  <2> HIDE DEF x
  <2>2. x \in {todo[p][1], nfd[p]} /\ fdt[x] = fdt[todo[p][1]]
    BY DEF x
  <2>3. x = todo[p][1]
    BY DEF x
  <2> QED BY <1>1, <1>2, <1>3, <2>1, <2>2, <2>3, Passed
<1>6. \A q \in Procs \ {p} : /\ pc'[q] = pc[q] /\ todo'[q] = todo[q] /\ done'[q] = done[q]
                             /\ nfd'[q] = nfd[q] /\ want'[q] = want[q]
  BY <1>2, <1>3 DEF CallTypes
<1>7. \A n \in Fds : (InHand(p, n)' <=> InHand(p, n)) /\ (InHand(p, n) => fdt[n] # Closed)
  BY <1>2, <1>4, <1>5, NumberFacts DEF FdInv, OneHolder
<1> QED BY <1>2, <1>3, <1>5, <1>6, <1>7, OwnStep DEF Tables

LEMMA DupFdKeeps ==
  ASSUME FdInv, NEW p \in Procs, DupFd(p)
  PROVE  FdInv'
<1> DEFINE x == todo[p][1]  k == LowestFrom(3)
<1>1. Len(todo[p]) > 0
  BY NotEmpty DEF DupFd
<1>2. /\ Tables /\ CallTypes /\ CallRight(p) /\ Head(todo[p]) = x /\ x \in Fds
      /\ InHand(p, x) /\ fdt[x] \in Entry
  BY <1>1, AtNumber
<1>3. k \in Fds /\ k > 2 /\ fdt[k] = Closed
  BY LeastFree, NumberFacts DEF DupFd
<1>4. /\ pc[p] = "next" /\ fdt' = [fdt EXCEPT ![k] = [fdt[x] EXCEPT !.cloexec = FALSE]]
      /\ nfd' = [nfd EXCEPT ![p] = k]
      /\ pc' = [pc EXCEPT ![p] = IF fdt[x].cloexec THEN "setfd" ELSE "close"]
      /\ UNCHANGED <<std, lost, own, todo, done, want>>
  BY <1>2 DEF DupFd
<1> HIDE DEF x, k
<1>5. [fdt[x] EXCEPT !.cloexec = FALSE] \in Entry
  BY <1>2 DEF Entry
<1>6. /\ fdt' \in [Fds -> Entry \cup {Closed}]
      /\ fdt'[k] = [fdt[x] EXCEPT !.cloexec = FALSE] /\ fdt'[k] # Closed
      /\ \A n \in Fds : n # k => fdt'[n] = fdt[n]
  BY <1>2, <1>3, <1>4, <1>5, NumberFacts DEF Tables
<1>7. /\ CallTypes' /\ nfd'[p] = k
      /\ \A q \in Procs \ {p} : /\ pc'[q] = pc[q] /\ todo'[q] = todo[q] /\ done'[q] = done[q]
                                /\ nfd'[q] = nfd[q] /\ want'[q] = want[q]
      /\ pc'[p] = IF fdt[x].cloexec THEN "setfd" ELSE "close"
  BY <1>2, <1>3, <1>4 DEF CallTypes
<1>8. nfd[p] = Closed /\ k # Closed
  BY <1>2, <1>3, <1>4, NumberFacts DEF CallRight, Progress
<1>9. \A n \in Fds : InHand(p, n)' <=> InHand(p, n) \/ n = k
  BY <1>4, <1>7, <1>8, NumberFacts DEF InHand
<1>10. ~InHand(p, k) /\ \A n \in Fds : InHand(p, n) => fdt[n] # Closed
  BY <1>3 DEF FdInv, OneHolder
<1>11. CallRight(p)'
  <2>1. Progress(p)'
    <3>1. pc'[p] \in {"setfd", "close"} /\ nfd'[p] # Closed
      BY <1>7, <1>8
    <3>2. Len(done[p]) + Len(todo[p]) = Len(want[p]) /\ Len(want[p]) <= 2
      BY <1>2 DEF CallRight, Progress
    <3>3. pc'[p] # "idle"
      BY <1>7
    <3> QED BY <1>1, <1>4, <3>1, <3>2, <3>3 DEF Progress
  <2>2. Different(p)'
    <3>1. /\ \A i \in 1 .. Len(done[p]) : done[p][i] # k
          /\ \A i \in 1 .. Len(todo[p]) : todo[p][i] # k
      BY <1>10 DEF InHand
    <3> QED BY <1>2, <1>4, <1>7, <3>1 DEF CallRight, Different
  <2>3. /\ \A i \in 1 .. Len(done[p]) : fdt'[done[p][i]] = fdt[done[p][i]]
        /\ \A i \in 1 .. Len(todo[p]) : fdt'[todo[p][i]] = fdt[todo[p][i]]
        /\ fdt'[x] = fdt[x]
    <3>1. /\ \A i \in 1 .. Len(done[p]) : done[p][i] # k /\ done[p][i] \in Fds
          /\ \A i \in 1 .. Len(todo[p]) : todo[p][i] # k /\ todo[p][i] \in Fds
          /\ x # k
      BY <1>2, <1>10, CallLengths DEF InHand
    <3> QED BY <1>2, <1>6, <3>1
  <2>4. fdt'[k] = IF pc'[p] = "setfd" THEN [fdt[x] EXCEPT !.cloexec = FALSE] ELSE fdt[x]
    <3>1. CASE fdt[x].cloexec
      BY <1>6, <1>7, <3>1
    <3>2. CASE ~fdt[x].cloexec
      <4>1. [fdt[x] EXCEPT !.cloexec = FALSE] = fdt[x]
        BY <1>2, <3>2 DEF Entry
      <4> QED BY <1>6, <1>7, <3>2, <4>1
    <3> QED BY <3>1, <3>2
  <2>5. pc'[p] = "setfd" => fdt'[x].cloexec
    BY <1>7, <2>3
  <2>6. Contents(p)'
    <3>1. \A i \in 1 .. Len(done[p]) : done'[p][i] > 2 /\ fdt'[done'[p][i]] = want'[p][i]
      BY <1>2, <1>4, <2>3 DEF CallRight, Contents
    <3>2. \A i \in 1 .. Len(todo[p]) : fdt'[todo'[p][i]] = want'[p][Len(done[p]) + i]
      BY <1>2, <1>4, <2>3 DEF CallRight, Contents
    <3>3. nfd'[p] > 2 /\ todo'[p][1] = x
      BY <1>3, <1>4, <1>7 DEF x
    <3>4. LET e == fdt'[todo'[p][1]] IN
            /\ nfd'[p] > 2
            /\ fdt'[nfd'[p]] = IF pc'[p] = "setfd" THEN [e EXCEPT !.cloexec = FALSE] ELSE e
            /\ pc'[p] = "setfd" => e.cloexec
      BY <1>7, <2>3, <2>4, <2>5, <3>3
    <3> QED BY <1>4, <3>1, <3>2, <3>4 DEF Contents
  <2> QED BY <2>1, <2>2, <2>6 DEF CallRight
<1> QED BY <1>3, <1>4, <1>6, <1>7, <1>9, <1>10, <1>11, OwnStep, ZenonT(60)

LEMMA FailDupKeeps ==
  ASSUME FdInv, NEW p \in Procs, FailDup(p)
  PROVE  FdInv'
<1>1. /\ Tables /\ CallTypes /\ CallRight(p)
  BY DEF FdInv
<1>2. nfd[p] = Closed
  BY <1>1 DEF FailDup, CallRight, Progress
<1>3. \A n \in Fds : n \in Moving(p) <=> InHand(p, n)
  BY <1>1, <1>2, MovingIs, NumberFacts
<1>4. /\ fdt' \in [Fds -> Entry \cup {Closed}]
      /\ \A n \in Fds : fdt'[n] = IF InHand(p, n) THEN Closed ELSE fdt[n]
  BY <1>1, <1>3 DEF FailDup, Tables
<1>5. UNCHANGED <<std, lost, own>> /\ Idle(p)
  BY DEF FailDup
<1>6. /\ CallTypes' /\ CallRight(p)' /\ \A n \in Fds : ~InHand(p, n)'
      /\ \A q \in Procs \ {p} : /\ pc'[q] = pc[q] /\ todo'[q] = todo[q] /\ done'[q] = done[q]
                                /\ nfd'[q] = nfd[q] /\ want'[q] = want[q]
  BY <1>1, <1>5, Rests
<1> QED BY <1>4, <1>5, <1>6, OwnStep

LEMMA SetFdKeeps ==
  ASSUME FdInv, NEW p \in Procs, SetFd(p)
  PROVE  FdInv'
<1> DEFINE x == todo[p][1]  k == nfd[p]
<1>1. /\ Tables /\ CallTypes /\ CallRight(p) /\ \A n \in Fds : OneHolder(n)
  BY DEF FdInv
<1>2. /\ pc[p] = "setfd" /\ fdt' = [fdt EXCEPT ![k].cloexec = TRUE]
      /\ pc' = [pc EXCEPT ![p] = "close"]
      /\ UNCHANGED <<std, lost, own, todo, done, nfd, want>>
  BY DEF SetFd
<1>3. k \in Fds /\ k # Closed /\ Len(todo[p]) > 0 /\ InHand(p, k)
  BY <1>1, <1>2, NumberFacts DEF CallRight, Progress, CallTypes, InHand
<1>4. x \in Fds /\ fdt[x] \in Entry /\ x # k
  <2>1. x \in Fds /\ fdt[x] \in Entry
    BY <1>3, AtNumber
  <2>2. 1 \in 1 .. Len(todo[p])
    BY <1>1, <1>3, CallLengths
  <2> QED BY <1>1, <2>1, <2>2 DEF CallRight, Different
<1>5. k > 2 /\ fdt[k] = [fdt[x] EXCEPT !.cloexec = FALSE] /\ fdt[x].cloexec
  BY <1>1, <1>2, <1>3 DEF CallRight, Contents
<1> HIDE DEF x, k
<1>6. [fdt[k] EXCEPT !.cloexec = TRUE] = fdt[x]
  BY <1>4, <1>5 DEF Entry
<1>7. /\ fdt' \in [Fds -> Entry \cup {Closed}] /\ fdt'[k] = fdt[x]
      /\ \A n \in Fds : n # k => fdt'[n] = fdt[n]
  BY <1>1, <1>2, <1>3, <1>4, <1>6 DEF Tables
<1>8. /\ CallTypes' /\ pc'[p] = "close"
      /\ \A q \in Procs \ {p} : /\ pc'[q] = pc[q] /\ todo'[q] = todo[q] /\ done'[q] = done[q]
                                /\ nfd'[q] = nfd[q] /\ want'[q] = want[q]
  BY <1>1, <1>2 DEF CallTypes
<1>9. \A n \in Fds : InHand(p, n)' <=> InHand(p, n)
  BY <1>2 DEF InHand
<1>10. \A n \in Fds : InHand(p, n) => fdt[n] # Closed
  BY <1>1 DEF OneHolder
<1>11. CallRight(p)'
  <2>1. Progress(p)'
    BY <1>1, <1>2, <1>3, <1>8 DEF CallRight, Progress, k
  <2>2. Different(p)'
    BY <1>1, <1>2 DEF CallRight, Different
  <2>3. /\ \A i \in 1 .. Len(done[p]) : fdt'[done[p][i]] = fdt[done[p][i]]
        /\ \A i \in 1 .. Len(todo[p]) : fdt'[todo[p][i]] = fdt[todo[p][i]]
    <3>1. /\ \A i \in 1 .. Len(done[p]) : done[p][i] # k /\ done[p][i] \in Fds
          /\ \A i \in 1 .. Len(todo[p]) : todo[p][i] # k /\ todo[p][i] \in Fds
      BY <1>1, CallLengths DEF CallRight, Different, k
    <3> QED BY <1>7, <3>1
  <2>4. Contents(p)'
    <3>1. \A i \in 1 .. Len(done[p]) : done'[p][i] > 2 /\ fdt'[done'[p][i]] = want'[p][i]
      BY <1>1, <1>2, <2>3 DEF CallRight, Contents
    <3>2. \A i \in 1 .. Len(todo[p]) : fdt'[todo'[p][i]] = want'[p][Len(done[p]) + i]
      BY <1>1, <1>2, <2>3 DEF CallRight, Contents
    <3>3. nfd'[p] = k /\ k > 2 /\ todo'[p][1] = x /\ fdt'[x] = fdt[x]
      BY <1>2, <1>4, <1>5, <1>7 DEF x, k
    <3> QED BY <1>2, <1>7, <1>8, <3>1, <3>2, <3>3, ZenonT(60) DEF Contents
  <2> QED BY <2>1, <2>2, <2>4 DEF CallRight
<1>12. \A n \in Fds : InHand(p, n) => fdt'[n] # Closed
  BY <1>4, <1>7, <1>10, NumberFacts
<1>13. \A n \in Fds : fdt'[n] = fdt[n] \/ InHand(p, n)
  BY <1>3, <1>7
<1> QED BY <1>2, <1>7, <1>8, <1>9, <1>11, <1>12, <1>13, OwnStep

LEMMA CloseOldKeeps ==
  ASSUME FdInv, NEW p \in Procs, CloseOld(p)
  PROVE  FdInv'
<1> DEFINE x == todo[p][1]  k == nfd[p]
<1>1. /\ Tables /\ CallTypes /\ CallRight(p) /\ \A n \in Fds : OneHolder(n)
  BY DEF FdInv
<1>2. k \in Fds /\ k # Closed /\ Len(todo[p]) > 0 /\ InHand(p, k)
  BY <1>1, NumberFacts DEF CallRight, Progress, CallTypes, InHand, CloseOld
<1>3. /\ x \in Fds /\ fdt[x] \in Entry /\ x # k /\ InHand(p, x) /\ Head(todo[p]) = x
  <2>1. x \in Fds /\ fdt[x] \in Entry /\ InHand(p, x) /\ Head(todo[p]) = x
    BY <1>2, AtNumber
  <2>2. 1 \in 1 .. Len(todo[p])
    BY <1>1, <1>2, CallLengths
  <2> QED BY <1>1, <2>1, <2>2 DEF CallRight, Different
<1>4. /\ pc[p] = "close" /\ fdt' = [fdt EXCEPT ![x] = Closed]
      /\ todo' = [todo EXCEPT ![p] = Tail(@)] /\ done' = [done EXCEPT ![p] = Append(@, k)]
      /\ nfd' = [nfd EXCEPT ![p] = Closed] /\ pc' = [pc EXCEPT ![p] = "next"]
      /\ UNCHANGED <<std, lost, own, want>>
  BY <1>3 DEF CloseOld
<1>5. k > 2 /\ fdt[k] = fdt[x]
  BY <1>1, <1>2, <1>4 DEF CallRight, Contents
<1>6. /\ fdt' \in [Fds -> Entry \cup {Closed}] /\ fdt'[x] = Closed
      /\ \A n \in Fds : n # x => fdt'[n] = fdt[n]
  BY <1>1, <1>3, <1>4 DEF Tables
<1>7. /\ nfd' \in [Procs -> Fds \cup {Closed}] /\ nfd'[p] = Closed
      /\ pc' \in [Procs -> {"idle", "next", "dup", "setfd", "close"}] /\ pc'[p] = "next"
      /\ \A q \in Procs \ {p} : /\ pc'[q] = pc[q] /\ todo'[q] = todo[q] /\ done'[q] = done[q]
                                /\ nfd'[q] = nfd[q] /\ want'[q] = want[q]
  BY <1>1, <1>4 DEF CallTypes
<1>8. /\ CallTypes' /\ CallRight(p)'
      /\ \A n \in Fds : InHand(p, n)' <=> n = k \/ (InHand(p, n) /\ n # x /\ n # k)
  <2>1. k \in {todo[p][1], nfd[p]} /\ fdt[k] = fdt[todo[p][1]]
    BY <1>5
  <2>2. \A n \in Fds : (InHand(p, n) /\ n # todo[p][1]) \/ n = k => fdt'[n] = fdt[n]
    BY <1>3, <1>6
  <2> QED BY <1>1, <1>2, <1>4, <1>5, <1>7, <2>1, <2>2, Passed
<1> HIDE DEF x, k
<1>9. \A n \in Fds : InHand(p, n) => fdt[n] # Closed
  BY <1>1 DEF OneHolder
<1>10. \A n \in Fds : fdt'[n] = fdt[n] \/ InHand(p, n)
  BY <1>3, <1>6
<1>11. \A n \in Fds : IF InHand(p, n)'
                      THEN fdt'[n] # Closed /\ (InHand(p, n) \/ fdt[n] = Closed)
                      ELSE /\ InHand(p, n) => fdt'[n] = Closed
                           /\ fdt[n] = Closed => fdt'[n] = Closed
  BY <1>2, <1>3, <1>6, <1>8, <1>9
<1> QED BY <1>4, <1>6, <1>7, <1>8, <1>10, <1>11, OwnStep

LEMMA ReturnKeeps ==
  ASSUME FdInv, NEW p \in Procs, Return(p)
  PROVE  FdInv'
<1> DEFINE d == done[p]  Given(n) == \E i \in 1 .. Len(d) : d[i] = n
<1>1. /\ Tables /\ CallTypes /\ CallRight(p) /\ StdStreams
      /\ \A q \in Procs : CallRight(q) /\ \A n \in Fds : OneHolder(n)
  BY DEF FdInv
<1>2. /\ d \in Seq(Fds) /\ want[p] \in Seq(Entry) /\ Len(d) \in Nat
      /\ \A i \in 1 .. Len(d) : d[i] \in Fds
      /\ \A i \in 1 .. Len(want[p]) : want[p][i] \in Entry
  BY <1>1, CallLengths
<1>3. Len(todo[p]) = 0 /\ nfd[p] = Closed /\ Len(d) = Len(want[p])
  <2>1. Len(todo[p]) = 0
    BY EmptySeq DEF Return
  <2>2. Len(d) + Len(todo[p]) = Len(want[p])
    BY <1>1 DEF CallRight, Progress
  <2>3. nfd[p] = Closed
    BY <1>1 DEF Return, CallRight, Progress
  <2>4. \A k \in Nat : k + 0 = k
    OBVIOUS
  <2> QED BY <1>2, <2>1, <2>2, <2>3, <2>4
<1>4. \A n \in Fds : InHand(p, n) <=> Given(n)
  <2>1. 1 .. Len(todo[p]) = {}
    BY <1>3
  <2> QED BY <1>3, <2>1, NumberFacts DEF InHand
<1>5. \A i \in 1 .. Len(d) : d[i] > 2 /\ fdt[d[i]] = want[p][i]
  BY <1>1 DEF CallRight, Contents
<1>6. own' = Told(d, want[p]) /\ Idle(p) /\ UNCHANGED <<fdt, std, lost>>
  BY DEF Return
<1>7. /\ own' \in [Fds -> Entry \cup {Closed}]
      /\ \A i \in 1 .. Len(d) : own'[d[i]] = want[p][i]
      /\ \A n \in Fds : ~Given(n) => own'[n] = own[n]
  <2>1. \A i, k \in 1 .. Len(d) : d[i] = d[k] => i = k
    BY <1>1 DEF CallRight, Different
  <2> QED BY <1>1, <1>2, <1>3, <1>6, <2>1, ToldIs
<1>8. /\ CallTypes' /\ CallRight(p)' /\ \A n \in Fds : ~InHand(p, n)'
      /\ \A q \in Procs \ {p} : /\ pc'[q] = pc[q] /\ todo'[q] = todo[q] /\ done'[q] = done[q]
                                /\ nfd'[q] = nfd[q] /\ want'[q] = want[q]
  BY <1>1, <1>6, Rests
<1>9. ASSUME NEW q \in Procs \ {p}
      PROVE  CallRight(q)' /\ \A n \in Fds : InHand(q, n)' <=> InHand(q, n)
  BY <1>1, <1>6, <1>8, Bystander
<1>10. /\ Tables' /\ StdStreams'
       /\ \A n \in Fds : OfOs(n)' <=> OfOs(n)
       /\ \A n \in Fds, i \in StdFds : OfHost(i, n)' <=> OfHost(i, n)
  BY <1>1, <1>6, <1>7 DEF Tables, StdStreams, OfOs, OfHost, IsDefault
<1>11. \A n \in Fds : Given(n) => /\ own'[n] = fdt'[n] /\ fdt'[n] # Closed /\ n > 2
                                  /\ \A q \in Procs \ {p} : ~InHand(q, n)
                                  /\ ~OfOs(n) /\ \A i \in StdFds : ~OfHost(i, n)
  <2> SUFFICES ASSUME NEW i \in 1 .. Len(d)
               PROVE  /\ own'[d[i]] = fdt'[d[i]] /\ fdt'[d[i]] # Closed /\ d[i] > 2
                      /\ \A q \in Procs \ {p} : ~InHand(q, d[i])
                      /\ ~OfOs(d[i]) /\ \A j \in StdFds : ~OfHost(j, d[i])
    OBVIOUS
  <2>1. own'[d[i]] = fdt'[d[i]] /\ fdt'[d[i]] = fdt[d[i]] /\ d[i] > 2
    BY <1>5, <1>6, <1>7
  <2>2. d[i] \in Fds /\ InHand(p, d[i])
    BY <1>2, <1>4
  <2> QED BY <1>1, <2>1, <2>2 DEF OneHolder
<1> HIDE DEF Given
<1>12. ASSUME NEW n \in Fds PROVE OneHolder(n)'
  <2>1. CASE Given(n)
    <3>1. \A q \in Procs : ~InHand(q, n)'
      BY <1>8, <1>9, <1>11, <2>1
    <3> QED BY <1>10, <1>11, <2>1, <3>1, TakenByC
  <2>2. CASE ~Given(n)
    <3>1. \A q \in Procs : InHand(q, n)' <=> InHand(q, n)
      BY <1>4, <1>8, <1>9, <2>2
    <3> QED BY <1>1, <1>6, <1>7, <1>10, <2>2, <3>1, SameHolder
  <2> QED BY <2>1, <2>2
<1> QED BY <1>8, <1>9, <1>10, <1>12 DEF FdInv

\* A step between calls of c2goFD: no thread's numbers are touched.
LEMMA OtherStep ==
  ASSUME FdInv, UNCHANGED locals, Tables', StdStreams', NEW n \in Fds,
         \A q \in Procs : ~InHand(q, n) \/ fdt'[n] = fdt[n],
         \A m \in Fds : m # n => /\ fdt'[m] = fdt[m] /\ own'[m] = own[m] /\ (OfOs(m)' <=> OfOs(m))
                                 /\ \A i \in StdFds : OfHost(i, m)' <=> OfHost(i, m),
         (\A q \in Procs : InHand(q, n)' <=> InHand(q, n)) => OneHolder(n)'
  PROVE  FdInv'
<1>1. CallTypes /\ (\A q \in Procs : CallRight(q)) /\ \A m \in Fds : OneHolder(m)
  BY DEF FdInv
<1>2. CallTypes'
  BY <1>1 DEF CallTypes, locals
<1>3. ASSUME NEW q \in Procs
      PROVE  CallRight(q)' /\ \A m \in Fds : InHand(q, m)' <=> InHand(q, m)
  BY <1>1, Bystander DEF locals
<1>4. ASSUME NEW m \in Fds PROVE OneHolder(m)'
  <2>1. CASE m = n
    BY <1>3, <2>1
  <2>2. CASE m # n
    <3>1. /\ fdt'[m] = fdt[m] /\ own'[m] = own[m] /\ (OfOs(m)' <=> OfOs(m))
          /\ \A i \in StdFds : OfHost(i, m)' <=> OfHost(i, m)
      BY <2>2
    <3>2. OneHolder(m) /\ \A q \in Procs : InHand(q, m)' <=> InHand(q, m)
      BY <1>1, <1>3
    <3> QED BY <3>1, <3>2, SameHolder
  <2> QED BY <2>1, <2>2
<1> QED BY <1>2, <1>3, <1>4 DEF FdInv

LEMMA CloseKeeps ==
  ASSUME FdInv, NEW p \in Procs, NEW n \in Fds, Close(p, n)
  PROVE  FdInv'
<1>1. /\ Tables /\ StdStreams /\ OneHolder(n)
  BY DEF FdInv
<1>2. /\ fdt' = [fdt EXCEPT ![n] = Closed] /\ own' = [own EXCEPT ![n] = Closed]
      /\ UNCHANGED <<std, lost, locals>> /\ n \notin StdFds /\ OfC(n)
  BY DEF Close, Usable, isStdFd, OfC
<1>3. /\ Tables' /\ StdStreams' /\ fdt'[n] = Closed /\ own'[n] = Closed
      /\ \A m \in Fds : m # n => fdt'[m] = fdt[m] /\ own'[m] = own[m]
      /\ \A m \in Fds : OfOs(m)' <=> OfOs(m)
      /\ \A m \in Fds, i \in StdFds : OfHost(i, m)' <=> OfHost(i, m)
  BY <1>1, <1>2 DEF Tables, StdStreams, OfOs, OfHost, IsDefault
<1>4. /\ \A q \in Procs : ~InHand(q, n)
      /\ ~OfOs(n) /\ \A i \in StdFds : ~OfHost(i, n)
  BY <1>1, <1>2 DEF OneHolder, OfOs
<1>5. (\A q \in Procs : InHand(q, n)' <=> InHand(q, n)) => OneHolder(n)'
  BY <1>3, <1>4, GivenUp DEF OfC
<1> QED BY <1>2, <1>3, <1>4, <1>5, OtherStep

LEMMA Dup3Keeps ==
  ASSUME FdInv, NEW p \in Procs, NEW old \in Fds, NEW new \in Fds, NEW c \in BOOLEAN,
         Dup3(p, old, new, c)
  PROVE  FdInv'
<1> DEFINE e == [node |-> fdt[Kernel(old)].node, cloexec |-> c]
<1>1. /\ Tables /\ StdStreams /\ CallTypes /\ \A n \in Fds : OneHolder(n)
  BY DEF FdInv
<1>2. e \in Entry
  BY UsableDenotes DEF Dup3, Entry
<1>3. /\ fdt' = [fdt EXCEPT ![new] = e]
      /\ own' = (IF isStdFd(new) THEN own ELSE [own EXCEPT ![new] = e])
      /\ lost' = lost \ {new} /\ UNCHANGED <<std, locals>>
      /\ DupTarget(new) /\ stdDupGate(p, old, new)
  BY DEF Dup3
<1> HIDE DEF e
<1>4. /\ fdt' \in [Fds -> Entry \cup {Closed}] /\ fdt'[new] = e /\ fdt'[new] # Closed
      /\ \A m \in Fds : m # new => fdt'[m] = fdt[m]
  BY <1>1, <1>2, <1>3, NumberFacts DEF Tables
<1>5. /\ own' \in [Fds -> Entry \cup {Closed}]
      /\ \A m \in Fds : m # new => own'[m] = own[m]
  BY <1>1, <1>2, <1>3 DEF Tables
<1>6. /\ Tables' /\ StdStreams'
      /\ \A m \in Fds : m # new => (OfOs(m)' <=> OfOs(m))
      /\ \A m \in Fds, i \in StdFds : OfHost(i, m)' <=> OfHost(i, m)
  BY <1>1, <1>3, <1>4, <1>5 DEF Tables, StdStreams, OfOs, OfHost, IsDefault
<1>7. CASE new \in StdFds
  <2>1. IsDefault(new) /\ own' = own /\ ~OfC(new) /\ new < 3
    BY <1>1, <1>3, <1>7, NumberFacts DEF stdDupGate, isStdFd, OneHolder, StdFds
  <2>2. new \in lost => Quiet
    BY <1>3, <1>7, <2>1 DEF DupTarget, OfC, StdFds
  <2>3. \A q \in Procs : ~InHand(q, new)
    <3>1. CASE new \in lost
      BY <2>2, <3>1, AtRest DEF Quiet
    <3>2. CASE new \notin lost
      BY <1>1, <1>7, <3>2 DEF OneHolder, OfOs
    <3> QED BY <3>1, <3>2
  <2>4. \A i \in StdFds : ~OfHost(i, new)
    <3>1. \A i \in StdFds : OfHost(i, new) => new > 2
      BY <1>1 DEF OneHolder
    <3> QED BY <2>1, <3>1, NumberFacts
  <2>5. OfOs(new)' /\ ~OfC(new)'
    BY <1>3, <1>7, <2>1 DEF OfOs, OfC
  <2>6. (\A q \in Procs : InHand(q, new)' <=> InHand(q, new)) => OneHolder(new)'
    BY <1>4, <1>6, <2>3, <2>4, <2>5 DEF OneHolder
  <2> QED BY <1>3, <1>4, <1>5, <1>6, <2>3, <2>6, OtherStep
<1>8. CASE new \notin StdFds
  <2>1. own' = [own EXCEPT ![new] = e] /\ own'[new] = e
    BY <1>1, <1>3, <1>8 DEF isStdFd, Tables
  <2>6. new > 2
    BY <1>8, NumberFacts DEF StdFds
  <2>2. OfC(new) \/ fdt[new] = Closed
    BY <1>3, <1>8, FdTableConstants DEF DupTarget, OfC, StdFds
  <2>3. (\A q \in Procs : ~InHand(q, new)) /\ \A i \in StdFds : ~OfHost(i, new)
    BY <1>1, <2>2 DEF OneHolder
  <2>4. ~OfOs(new)'
    BY <1>8 DEF OfOs
  <2>5. (\A q \in Procs : InHand(q, new)' <=> InHand(q, new)) => OneHolder(new)'
    BY <1>4, <1>6, <2>1, <2>3, <2>4, <2>6, TakenByC
  <2> QED BY <1>3, <1>4, <1>5, <1>6, <2>3, <2>5, OtherStep
<1> QED BY <1>7, <1>8

LEMMA LoseKeeps ==
  ASSUME FdInv, NEW i \in StdFds, Lose(i)
  PROVE  FdInv'
<1>1. /\ Tables /\ StdStreams /\ OneHolder(i) /\ i \in Fds
  BY NumberFacts DEF FdInv
<1>2. /\ fdt' = [fdt EXCEPT ![i] = Closed] /\ lost' = lost \cup {i} /\ i \notin lost
      /\ IsDefault(i) /\ UNCHANGED <<std, own, locals>>
  BY DEF Lose
<1>3. /\ Tables' /\ fdt'[i] = Closed /\ \A m \in Fds : m # i => fdt'[m] = fdt[m]
  BY <1>1, <1>2 DEF Tables
<1>4. /\ StdStreams' /\ ~OfOs(i)' /\ (OfC(i)' <=> OfC(i))
      /\ \A m \in Fds : m # i => (OfOs(m)' <=> OfOs(m)) /\ own'[m] = own[m]
      /\ \A m \in Fds, k \in StdFds : OfHost(k, m)' <=> OfHost(k, m)
  BY <1>1, <1>2 DEF StdStreams, OfOs, OfC, OfHost, IsDefault
<1>5. /\ OfOs(i) /\ ~OfC(i) /\ (\A q \in Procs : ~InHand(q, i)) /\ \A k \in StdFds : ~OfHost(k, i)
  <2>1. OfOs(i)
    BY <1>2 DEF OfOs
  <2>2. i < 3
    BY DEF StdFds
  <2> QED BY <1>1, <2>1, <2>2, NumberFacts DEF OneHolder
<1>6. (\A q \in Procs : InHand(q, i)' <=> InHand(q, i)) => OneHolder(i)'
  BY <1>1, <1>3, <1>4, <1>5, GivenUp
<1> QED BY <1>1, <1>2, <1>3, <1>4, <1>5, <1>6, OtherStep

LEMMA SwapKeeps ==
  ASSUME FdInv, NEW i \in StdFds, Swap(i)
  PROVE  FdInv'
<1> DEFINE e == [node |-> HostNode, cloexec |-> TRUE]
<1>1. /\ Tables /\ StdStreams
  BY DEF FdInv
<1>0. LowestFrom(3) \in Fds /\ LowestFrom(3) >= 3 /\ fdt[LowestFrom(3)] = Closed
  BY LeastFree DEF Swap
<1> PICK n \in Fds : n = LowestFrom(3)
  BY <1>0
<1>2. n \in Fds /\ n > 2 /\ fdt[n] = Closed /\ e \in Entry
  BY <1>0, NumberFacts, FdTableConstants DEF Entry
<1>3. /\ fdt' = [fdt EXCEPT ![n] = e] /\ std' = [std EXCEPT ![i] = [num |-> n, startup |-> FALSE]]
      /\ IsDefault(i) /\ lost = {} /\ UNCHANGED <<lost, own, locals>>
  BY DEF Swap
<1> HIDE DEF e
<1>4. /\ fdt' \in [Fds -> Entry \cup {Closed}] /\ fdt'[n] # Closed
      /\ \A m \in Fds : m # n => fdt'[m] = fdt[m]
  BY <1>1, <1>2, <1>3, NumberFacts DEF Tables
<1>5. /\ std' \in [StdFds -> [num : Fds, startup : BOOLEAN]]
      /\ std'[i].num = n /\ std'[i].startup = FALSE
      /\ \A k \in StdFds : k # i => std'[k] = std[k]
  BY <1>1, <1>2, <1>3 DEF Tables
<1>6. /\ Tables' /\ StdStreams'
  BY <1>1, <1>3, <1>4, <1>5 DEF Tables, StdStreams, IsDefault
<1>7. /\ \A m \in Fds : (OfOs(m)' <=> OfOs(m)) /\ (OfC(m)' <=> OfC(m))
      /\ \A m \in Fds, k \in StdFds : k # i => (OfHost(k, m)' <=> OfHost(k, m))
      /\ \A m \in Fds : ~OfHost(i, m) /\ (OfHost(i, m)' <=> m = n)
  BY <1>3, <1>5 DEF OfOs, OfC, OfHost, IsDefault
<1>8. /\ \A q \in Procs : ~InHand(q, n)
      /\ ~OfC(n) /\ ~OfOs(n) /\ \A k \in StdFds : ~OfHost(k, n)
  BY <1>2, FreeNumber
<1>9. (\A q \in Procs : InHand(q, n)' <=> InHand(q, n)) => OneHolder(n)'
  <2>1. \A k \in StdFds : OfHost(k, n)' <=> k = i
    BY <1>2, <1>7, <1>8
  <2>2. ~OfC(n)' /\ ~OfOs(n)'
    BY <1>2, <1>7, <1>8
  <2> QED BY <1>2, <1>4, <1>8, <2>1, <2>2 DEF OneHolder
<1>10. \A m \in Fds : m # n => \A k \in StdFds : OfHost(k, m)' <=> OfHost(k, m)
  BY <1>7
<1>11. \A m \in Fds : m # n => own'[m] = own[m]
  BY <1>3
<1>12. \A m \in Fds : m # n => /\ fdt'[m] = fdt[m] /\ own'[m] = own[m] /\ (OfOs(m)' <=> OfOs(m))
                               /\ \A k \in StdFds : OfHost(k, m)' <=> OfHost(k, m)
  BY <1>4, <1>7, <1>10, <1>11
<1> QED BY <1>2, <1>3, <1>6, <1>8, <1>9, <1>12, OtherStep

LEMMA RestoreKeeps ==
  ASSUME FdInv, NEW i \in StdFds, Restore(i)
  PROVE  FdInv'
<1>1. /\ Tables /\ StdStreams /\ \A n \in Fds : OneHolder(n)
  BY DEF FdInv
<1>2. PICK n \in Fds : n = std[i].num
  BY <1>1 DEF Tables
<1>3. /\ fdt' = [fdt EXCEPT ![n] = Closed] /\ std' = [std EXCEPT ![i] = [num |-> i, startup |-> TRUE]]
      /\ ~IsDefault(i) /\ UNCHANGED <<lost, own, locals>>
  BY <1>2 DEF Restore
<1>4. /\ fdt' \in [Fds -> Entry \cup {Closed}] /\ fdt'[n] = Closed
      /\ \A m \in Fds : m # n => fdt'[m] = fdt[m]
  BY <1>1, <1>3 DEF Tables
<1>5. /\ std' \in [StdFds -> [num : Fds, startup : BOOLEAN]]
      /\ std'[i].num = i /\ std'[i].startup = TRUE
      /\ \A k \in StdFds : k # i => std'[k] = std[k]
  BY <1>1, <1>3, NumberFacts DEF Tables
<1>6. /\ Tables' /\ StdStreams'
  BY <1>1, <1>3, <1>4, <1>5 DEF Tables, StdStreams, IsDefault
<1>7. /\ \A m \in Fds : (OfOs(m)' <=> OfOs(m)) /\ (OfC(m)' <=> OfC(m))
      /\ \A m \in Fds, k \in StdFds : k # i => (OfHost(k, m)' <=> OfHost(k, m))
      /\ \A m \in Fds : (OfHost(i, m) <=> m = n) /\ ~OfHost(i, m)'
  BY <1>2, <1>3, <1>5 DEF OfOs, OfC, OfHost, IsDefault
<1>8. /\ (\A q \in Procs : ~InHand(q, n)) /\ ~OfC(n) /\ ~OfOs(n)
      /\ \A k \in StdFds : k # i => ~OfHost(k, n)
  <2>1. OfHost(i, n)
    BY <1>7
  <2>2. OneHolder(n)
    BY <1>1
  <2>3. n > 2
    BY <2>1, <2>2 DEF OneHolder
  <2>4. ~OfOs(n)
    BY <2>3 DEF OfOs, StdFds
  <2>5. (\A q \in Procs : ~InHand(q, n)) /\ ~OfC(n)
    BY <2>1, <2>2 DEF OneHolder
  <2>6. \A k \in StdFds : OfHost(k, n) => k = i
    BY <2>1, <2>2 DEF OneHolder
  <2> QED BY <2>4, <2>5, <2>6
<1>9. (\A q \in Procs : InHand(q, n)' <=> InHand(q, n)) => OneHolder(n)'
  BY <1>4, <1>7, <1>8, GivenUp
<1>10. \A m \in Fds : m # n => \A k \in StdFds : OfHost(k, m)' <=> OfHost(k, m)
  BY <1>7
<1>11. \A m \in Fds : m # n => own'[m] = own[m]
  BY <1>3
<1> QED BY <1>3, <1>4, <1>6, <1>7, <1>8, <1>9, <1>10, <1>11, OtherStep

LEMMA FdStarts == Init => FdInv
<1> SUFFICES ASSUME Init PROVE FdInv
  OBVIOUS
<1>1. Tables /\ StdStreams
  BY NumberFacts, FdTableConstants DEF Init, Tables, StdStreams, IsDefault, Entry
<1>2. CallTypes
  BY EmptySeq DEF Init, CallTypes
<1>3. ASSUME NEW p \in Procs PROVE CallRight(p) /\ \A n \in Fds : ~InHand(p, n)
  <2>1. /\ Len(todo[p]) = 0 /\ Len(done[p]) = 0 /\ Len(want[p]) = 0
        /\ nfd[p] = Closed /\ pc[p] = "idle"
    BY EmptySeq DEF Init
  <2>2. Progress(p)
    BY <2>1 DEF Progress
  <2>3. Contents(p) /\ Different(p)
    BY <2>1 DEF Contents, Different
  <2> QED BY <2>1, <2>2, <2>3, NumberFacts DEF CallRight, InHand
<1>4. ASSUME NEW n \in Fds PROVE OneHolder(n)
  <2>1. ~OfC(n) /\ (OfOs(n) <=> n \in StdFds) /\ \A i \in StdFds : ~OfHost(i, n)
    BY DEF Init, OfC, OfOs, OfHost, IsDefault
  <2>2. fdt[n] # Closed <=> n \in StdFds
    <3>1. [node |-> Terminal, cloexec |-> FALSE] \in Entry
      BY FdTableConstants DEF Entry
    <3>2. CASE n \in StdFds
      <4>1. fdt[n] = [node |-> Terminal, cloexec |-> FALSE]
        BY <3>2 DEF Init
      <4> QED BY <3>1, <3>2, <4>1, NumberFacts
    <3>3. CASE n \notin StdFds
      BY <3>3 DEF Init
    <3> QED BY <3>2, <3>3
  <2> QED BY <1>3, <2>1, <2>2 DEF OneHolder
<1> QED BY <1>1, <1>2, <1>3, <1>4 DEF FdInv

LEMMA FdKeeps == FdInv /\ [Next]_vars => FdInv'
<1> SUFFICES ASSUME FdInv, [Next]_vars PROVE FdInv'
  OBVIOUS
<1>1. ASSUME NEW p \in Procs, Creates(p) PROVE FdInv'
  <2>1. 0 \in Nat /\ 4 \in Nat
    OBVIOUS
  <2> QED BY <1>1, <2>1, OpenKeeps, PipeKeeps, DupKeeps DEF Creates
<1>2. ASSUME NEW p \in Procs, Calls(p) PROVE FdInv'
  BY <1>1, <1>2, KeepKeeps, DupFdKeeps, FailDupKeeps, SetFdKeeps, CloseOldKeeps, ReturnKeeps,
     CloseKeeps, Dup3Keeps DEF Calls
<1>3. CASE Host
  BY <1>3, LoseKeeps, SwapKeeps, RestoreKeeps DEF Host
<1>4. CASE UNCHANGED vars
  <2>1. Tables' /\ CallTypes' /\ StdStreams'
    BY <1>4 DEF vars, FdInv, Tables, CallTypes, StdStreams, IsDefault
  <2>2. ASSUME NEW p \in Procs
        PROVE  CallRight(p)' /\ \A n \in Fds : InHand(p, n)' <=> InHand(p, n)
    BY <1>4, Bystander DEF vars, FdInv
  <2>3. ASSUME NEW n \in Fds PROVE OneHolder(n)'
    <3>1. (OfOs(n)' <=> OfOs(n)) /\ \A i \in StdFds : OfHost(i, n)' <=> OfHost(i, n)
      BY <1>4 DEF vars, OfOs, OfHost, IsDefault
    <3> QED BY <1>4, <2>2, <3>1, SameHolder DEF vars, FdInv
  <2> QED BY <2>1, <2>2, <2>3 DEF FdInv
<1> QED BY <1>2, <1>3, <1>4 DEF Next

LEMMA FdShows == FdInv => DescriptorsSafe
<1> SUFFICES ASSUME FdInv PROVE DescriptorsSafe
  OBVIOUS
<1>1. /\ Tables /\ CallTypes /\ (\A p \in Procs : CallRight(p))
      /\ \A n \in Fds : OneHolder(n)
  BY DEF FdInv
<1>2. ASSUME NEW p \in Procs
      PROVE  todo[p] \in Seqs(Fds) /\ done[p] \in Seqs(Fds) /\ want[p] \in Seqs(Entry)
  <2>1. /\ todo[p] \in Seq(Fds) /\ done[p] \in Seq(Fds) /\ want[p] \in Seq(Entry)
        /\ Len(todo[p]) \in Nat /\ Len(done[p]) \in Nat
    BY <1>1, CallLengths
  <2>2. Len(done[p]) + Len(todo[p]) = Len(want[p]) /\ Len(want[p]) <= 2
    BY <1>1 DEF CallRight, Progress
  <2>3. Len(todo[p]) <= 2 /\ Len(done[p]) <= 2
    <3>1. \A a, b \in Nat : a + b <= 2 => a <= 2 /\ b <= 2
      OBVIOUS
    <3> QED BY <2>1, <2>2, <3>1
  <2> QED BY <2>1, <2>2, <2>3, Short
<1>3. TypeOK
  <2>1. /\ todo \in [Procs -> Seqs(Fds)] /\ done \in [Procs -> Seqs(Fds)]
        /\ want \in [Procs -> Seqs(Entry)]
    BY <1>1, <1>2 DEF CallTypes
  <2> QED BY <1>1, <2>1 DEF TypeOK, Tables, CallTypes
<1>4. ASSUME NEW n \in Fds
      PROVE  Cardinality(Holders(n)) = IF fdt[n] = Closed THEN 0 ELSE 1
  <2>0. OneHolder(n)
    BY <1>1
  <2>1. \A h : h \in Holders(n) <=> \/ \E p \in Procs : InHand(p, n) /\ h = <<"call", p>>
                                    \/ OfC(n) /\ h = <<"C", n>>
                                    \/ OfOs(n) /\ h = <<"os", n>>
                                    \/ \E i \in StdFds : OfHost(i, n) /\ h = <<"host", i>>
    <3>1. \A p \in Procs : n \in Moving(p) \cup {nfd[p]} <=> InHand(p, n)
      BY <1>1, MovingIs
    <3> QED BY <3>1 DEF Holders, OfC, OfOs, OfHost
  <2>2. CASE fdt[n] = Closed
    <3>1. Holders(n) = {}
      BY <2>0, <2>1, <2>2 DEF OneHolder
    <3> QED BY <2>2, <3>1, FS_EmptySet
  <2>3. CASE fdt[n] # Closed
    <3>1. \E h : Holders(n) = {h}
      <4>1. CASE \E p \in Procs : InHand(p, n)
        <5>1. PICK p \in Procs : InHand(p, n)
          BY <4>1
        <5>2. /\ \A q \in Procs : InHand(q, n) => q = p
              /\ ~OfC(n) /\ ~OfOs(n) /\ \A i \in StdFds : ~OfHost(i, n)
          BY <2>0, <5>1 DEF OneHolder
        <5>3. \A h : h \in Holders(n) <=> h = <<"call", p>>
          BY <2>1, <5>1, <5>2
        <5>4. Holders(n) = {<<"call", p>>}
          <6>1. Holders(n) \subseteq {<<"call", p>>}
            BY <5>3
          <6>2. {<<"call", p>>} \subseteq Holders(n)
            BY <5>3
          <6> QED BY <6>1, <6>2
        <5> QED BY <5>4
      <4>2. CASE OfC(n)
        <5>1. /\ \A q \in Procs : ~InHand(q, n)
              /\ ~OfOs(n) /\ \A i \in StdFds : ~OfHost(i, n)
          <6>1. n > 2
            BY <2>0, <4>2 DEF OneHolder
          <6>2. ~OfOs(n)
            BY <6>1 DEF OfOs, StdFds
          <6> QED BY <2>0, <4>2, <6>2 DEF OneHolder
        <5>2. \A h : h \in Holders(n) <=> h = <<"C", n>>
          BY <2>1, <4>2, <5>1
        <5>3. Holders(n) = {<<"C", n>>}
          <6>1. Holders(n) \subseteq {<<"C", n>>}
            BY <5>2
          <6>2. {<<"C", n>>} \subseteq Holders(n)
            BY <5>2
          <6> QED BY <6>1, <6>2
        <5> QED BY <5>3
      <4>3. CASE OfOs(n)
        <5>1. n \in StdFds /\ n < 3
          BY <4>3 DEF OfOs, StdFds
        <5>2. ~OfC(n) /\ \A i \in StdFds : ~OfHost(i, n)
          BY <2>0, <5>1 DEF OneHolder, StdFds
        <5>3. \A q \in Procs : ~InHand(q, n)
          BY <2>0, <4>3 DEF OneHolder
        <5>4. \A h : h \in Holders(n) <=> h = <<"os", n>>
          BY <2>1, <4>3, <5>2, <5>3
        <5>5. Holders(n) = {<<"os", n>>}
          <6>1. Holders(n) \subseteq {<<"os", n>>}
            BY <5>4
          <6>2. {<<"os", n>>} \subseteq Holders(n)
            BY <5>4
          <6> QED BY <6>1, <6>2
        <5> QED BY <5>5
      <4>4. CASE \E i \in StdFds : OfHost(i, n)
        <5>1. PICK i \in StdFds : OfHost(i, n)
          BY <4>4
        <5>2. n > 2 /\ \A k \in StdFds : OfHost(k, n) => k = i
          BY <2>0, <5>1 DEF OneHolder
        <5>3. ~OfOs(n)
          BY <5>2 DEF OfOs, StdFds
        <5>4. ~OfC(n) /\ \A q \in Procs : ~InHand(q, n)
          BY <2>0, <5>1 DEF OneHolder
        <5>5. \A h : h \in Holders(n) <=> h = <<"host", i>>
          BY <2>1, <5>1, <5>2, <5>3, <5>4
        <5>6. Holders(n) = {<<"host", i>>}
          <6>1. Holders(n) \subseteq {<<"host", i>>}
            BY <5>5
          <6>2. {<<"host", i>>} \subseteq Holders(n)
            BY <5>5
          <6> QED BY <6>1, <6>2
        <5> QED BY <5>6
      <4> QED BY <2>0, <2>3, <4>1, <4>2, <4>3, <4>4 DEF OneHolder
    <3> QED BY <2>3, <3>1, FS_Singleton
  <2> QED BY <2>2, <2>3
<1>5. \A n \in Fds : own[n] # Closed => n > 2 /\ fdt[n] = own[n]
  BY <1>1 DEF OneHolder, OfC
<1> QED BY <1>3, <1>4, <1>5 DEF DescriptorsSafe, DescriptorsExact

LEMMA FdInvariance == MCSpec => []FdInv
<1>1. MCInit => FdInv
  BY FdStarts DEF MCInit
<1>2. FdInv /\ [MCNext]_allVars => FdInv'
  BY FdKeeps DEF MCNext, allVars
<1> QED BY <1>1, <1>2, PTL DEF MCSpec

\* Descriptors (io.go, fsops.go, fd_alloc_unix.go), for any number of threads and
\* any limit: each open kernel descriptor has one holder that closes it once, at
\* every point between the system calls of c2goFD and c2goFDPair, also where
\* they fail half way; and what C holds is the file it asked for.
THEOREM DescriptorsCorrect == MCSpec => []DescriptorsSafe
BY FdInvariance, FdShows, PTL


-----------------------------------------------------------------------------
(* Descriptors: the table C sees, DescriptorMap.                           *)

\* What C reaches through the number of a standard stream.
Standard(i) == IF i \in lost THEN Closed ELSE fdt[std[i].num]

Readings ==
  /\ DOMAIN AsMap = Fds /\ DOMAIN PutAside = StdFds
  /\ AsMap = [n \in Fds |-> AsMap[n]] /\ PutAside = [i \in StdFds |-> PutAside[i]]
  /\ \A n \in Fds : AsMap[n] = IF n \in StdFds THEN Standard(n) ELSE own[n]
  /\ \A i \in StdFds : PutAside[i] = IF IsDefault(i) THEN Closed ELSE fdt[i]

\* What C holds is what it was told, so a number C has not got is Closed in
\* the table whatever the kernel has there.
LEMMA Reads == FdInv => Readings
<1> SUFFICES ASSUME FdInv PROVE Readings
  OBVIOUS
<1>1. \A n \in Fds : own[n] # Closed => fdt[n] = own[n]
  BY DEF FdInv, OneHolder, OfC
<1>2. \A n \in Fds : AsMap[n] = IF n \in StdFds THEN Standard(n) ELSE own[n]
  BY <1>1 DEF AsMap, Standard, isStdFd
<1> QED BY <1>2 DEF Readings, AsMap, PutAside

LEMMA ReadsNext == FdInv' => Readings'
BY Reads, PTL

\* An open standard stream, and the terminal put aside for one, are nobody
\* else's: a number that a call has in hand, that was free or that is C's is
\* not behind them.
LEMMA StandardsApart ==
  ASSUME FdInv, NEW i \in StdFds
  PROVE  /\ i \notin lost => /\ std[i].num \in Fds /\ fdt[std[i].num] \in Entry
                             /\ ~OfC(std[i].num) /\ \A q \in Procs : ~InHand(q, std[i].num)
         /\ ~IsDefault(i) => /\ i \notin lost /\ i \in Fds /\ fdt[i] \in Entry
                             /\ ~OfC(i) /\ \A q \in Procs : ~InHand(q, i)
         /\ IF IsDefault(i) THEN std[i].num = i ELSE std[i].num > 2
<1>1. /\ Tables /\ StdStreams /\ \A n \in Fds : OneHolder(n)
  BY DEF FdInv
<1>2. i \in Fds /\ std[i].num \in Fds
  BY <1>1, NumberFacts DEF Tables
<1>3. ASSUME i \notin lost
      PROVE  fdt[i] \in Entry /\ ~OfC(i) /\ \A q \in Procs : ~InHand(q, i)
  <2>1. OfOs(i)
    BY <1>3 DEF OfOs
  <2>2. fdt[i] # Closed /\ (\A q \in Procs : ~InHand(q, i))
    BY <1>1, <1>2, <2>1 DEF OneHolder
  <2>3. ~OfC(i)
    BY <1>1, <1>2 DEF OneHolder, StdFds
  <2> QED BY <1>1, <1>2, <2>2, <2>3 DEF Tables
<1>4. CASE IsDefault(i)
  BY <1>1, <1>2, <1>3, <1>4 DEF StdStreams
<1>5. CASE ~IsDefault(i)
  <2>1. i \notin lost /\ OfHost(i, std[i].num)
    BY <1>1, <1>5 DEF StdStreams, OfHost
  <2>2. /\ fdt[std[i].num] # Closed /\ ~OfC(std[i].num) /\ std[i].num > 2
        /\ \A q \in Procs : ~InHand(q, std[i].num)
    BY <1>1, <1>2, <2>1 DEF OneHolder
  <2> QED BY <1>1, <1>2, <1>3, <1>5, <2>1, <2>2 DEF Tables
<1> QED BY <1>4, <1>5

LEMMA StandardsStay ==
  ASSUME FdInv, NEW p \in Procs, std' = std, lost' = lost,
         \A n \in Fds : fdt'[n] = fdt[n] \/ fdt[n] = Closed \/ InHand(p, n) \/ OfC(n)
  PROVE  /\ \A i \in StdFds : Standard(i)' = Standard(i)
         /\ \A i \in StdFds : ~IsDefault(i) => fdt'[i] = fdt[i]
<1>1. Closed \notin Entry
  BY NumberFacts
<1>2. ASSUME NEW i \in StdFds PROVE Standard(i)' = Standard(i)
  BY <1>1, StandardsApart DEF Standard
<1>3. ASSUME NEW i \in StdFds, ~IsDefault(i) PROVE fdt'[i] = fdt[i]
  BY <1>1, <1>3, StandardsApart
<1> QED BY <1>2, <1>3

\* PutAside and the rest of AsMap, where only what C was told changes.
LEMMA OnlyTold ==
  ASSUME FdInv, FdInv', std' = std, \A i \in StdFds : Standard(i)' = Standard(i),
         \A i \in StdFds : ~IsDefault(i) => fdt'[i] = fdt[i]
  PROVE  /\ PutAside' = PutAside
         /\ \A n \in Fds : AsMap'[n] # AsMap[n] <=> n \notin StdFds /\ own'[n] # own[n]
<1>1. \A i \in StdFds : IsDefault(i)' <=> IsDefault(i)
  BY DEF IsDefault
<1>2. \A i \in StdFds : PutAside'[i] = PutAside[i]
  BY <1>1, Reads, ReadsNext DEF Readings
<1>3. PutAside' = PutAside
  BY <1>2, Reads, ReadsNext DEF Readings
<1>4. ASSUME NEW n \in Fds
      PROVE  AsMap'[n] # AsMap[n] <=> n \notin StdFds /\ own'[n] # own[n]
  BY Reads, ReadsNext DEF Readings
<1> QED BY <1>3, <1>4

LEMMA Unseen ==
  ASSUME FdInv, FdInv', own' = own, std' = std, \A i \in StdFds : Standard(i)' = Standard(i),
         \A i \in StdFds : ~IsDefault(i) => fdt'[i] = fdt[i]
  PROVE  [M!Next]_(M!mapVars)
<1>1. PutAside' = PutAside /\ \A n \in Fds : AsMap'[n] = AsMap[n]
  BY OnlyTold
<1>2. AsMap' = AsMap
  BY <1>1, Reads, ReadsNext DEF Readings
<1> QED BY <1>1, <1>2 DEF M!mapVars

\* Numbers that C is told of: one step of the table makes them all, or none.
LEMMA ToldCreates ==
  ASSUME FdInv, FdInv', std' = std, \A i \in StdFds : Standard(i)' = Standard(i),
         \A i \in StdFds : ~IsDefault(i) => fdt'[i] = fdt[i],
         NEW numbers \in Seq(Fds), NEW entries \in Seq(Entry),
         Len(numbers) = Len(entries), Len(numbers) <= 2,
         \A i, k \in 1 .. Len(numbers) : numbers[i] = numbers[k] => i = k,
         \A i \in 1 .. Len(numbers) : numbers[i] > 2 /\ own[numbers[i]] = Closed,
         own' = Told(numbers, entries)
  PROVE  [M!Next]_(M!mapVars)
<1>1. /\ Len(numbers) \in Nat
      /\ \A i \in 1 .. Len(numbers) : numbers[i] \in Fds /\ entries[i] \in Entry
  BY LenProperties, ElementOfSeq
<1>2. /\ \A i \in 1 .. Len(numbers) : own'[numbers[i]] = entries[i]
      /\ \A n \in Fds : (\A i \in 1 .. Len(numbers) : numbers[i] # n) => own'[n] = own[n]
  BY ToldIs DEF FdInv
<1>3. /\ PutAside' = PutAside
      /\ \A n \in Fds : AsMap'[n] # AsMap[n] <=> n \notin StdFds /\ own'[n] # own[n]
  BY OnlyTold
<1>4. ASSUME NEW i \in 1 .. Len(numbers)
      PROVE  /\ numbers[i] \in Fds \ StdFds /\ AsMap[numbers[i]] = Closed
             /\ AsMap'[numbers[i]] \in Entry
  <2>1. numbers[i] \in Fds \ StdFds
    BY <1>1 DEF StdFds
  <2> QED BY <1>1, <1>2, <2>1, Reads, ReadsNext DEF Readings
<1>5. \A n \in Fds : AsMap'[n] # AsMap[n] <=> \E i \in 1 .. Len(numbers) : numbers[i] = n
  BY <1>2, <1>3, <1>4, NumberFacts
<1>6. CASE Len(numbers) = 0
  <2>1. \A n \in Fds : AsMap'[n] = AsMap[n]
    BY <1>5, <1>6
  <2>2. AsMap' = AsMap
    BY <2>1, Reads, ReadsNext DEF Readings
  <2> QED BY <1>3, <2>2 DEF M!mapVars
<1>7. CASE Len(numbers) # 0
  <2> DEFINE T == M!Touched
  <2>1. \A n : n \in T <=> n \in Fds /\ AsMap'[n] # AsMap[n]
    BY DEF M!Touched, M!Numbers, Fds
  <2>2. \A n \in T : n \in Fds \ StdFds /\ AsMap[n] = Closed /\ AsMap'[n] \in Entry
    BY <1>4, <1>5, <2>1
  <2>3. Cardinality(T) \in {1, 2}
    <3>1. CASE Len(numbers) = 1
      <4>1. \A n : n \in T <=> n = numbers[1]
        BY <1>1, <1>5, <2>1, <3>1
      <4>2. T = {numbers[1]}
        BY <4>1
      <4> QED BY <4>2, FS_Singleton
    <3>2. CASE Len(numbers) = 2
      <4>1. \A n : n \in T <=> n = numbers[1] \/ n = numbers[2]
        BY <1>1, <1>5, <2>1, <3>2
      <4>2. numbers[1] # numbers[2]
        BY <3>2
      <4>3. T = {numbers[1]} \cup {numbers[2]}
        BY <4>1
      <4>4. IsFiniteSet({numbers[1]}) /\ Cardinality({numbers[1]}) = 1
        BY FS_Singleton
      <4>5. numbers[2] \notin {numbers[1]}
        BY <4>2
      <4>6. Cardinality({numbers[1]} \cup {numbers[2]}) = Cardinality({numbers[1]}) + 1
        BY <4>4, <4>5, FS_AddElement, Zenon
      <4> QED BY <4>3, <4>4, <4>6
    <3>3. \A k \in Nat : k <= 2 /\ k # 0 => k = 1 \/ k = 2
      OBVIOUS
    <3> QED BY <1>1, <1>7, <3>1, <3>2, <3>3
  <2> HIDE DEF T
  <2>4. M!Create(T)
    <3>1. T \cap M!Reserved = {}
      BY <2>2 DEF M!Reserved, StdFds
    <3>2. \A n \in T : AsMap[n] = Closed /\ AsMap'[n] \in M!Entry
      BY <2>2 DEF M!Entry, Entry
    <3>3. M!Cardinality(T) \in {1, 2}
      <4>1. M!Cardinality(T) = Cardinality(T)
        BY DEF M!Cardinality, Cardinality
      <4> QED BY <2>3, <4>1
    <3> QED BY <3>1, <3>2, <3>3 DEF M!Create
  <2> QED BY <1>3, <2>4 DEF M!Next, T
<1> QED BY <1>6, <1>7

\* One number changes hands.
LEMMA OneTouched ==
  ASSUME NEW n \in Fds, AsMap'[n] # AsMap[n], \A m \in Fds \ {n} : AsMap'[m] = AsMap[m]
  PROVE  M!Touched = {n}
BY DEF M!Touched, M!Numbers, Fds

LEMMA BeginCreates ==
  ASSUME FdInv, FdInv', NEW p \in Procs,
         NEW numbers \in Seq(Fds), NEW entries \in Seq(Entry),
         Len(numbers) = Len(entries), Len(numbers) <= 2,
         \A i, k \in 1 .. Len(numbers) : numbers[i] = numbers[k] => i = k,
         \A i \in 1 .. Len(numbers) : fdt[numbers[i]] = Closed,
         \A n \in Fds : (\A i \in 1 .. Len(numbers) : numbers[i] # n) => fdt'[n] = fdt[n],
         Begin(p, numbers, entries)
  PROVE  [M!Next]_(M!mapVars)
<1>1. /\ DOMAIN numbers = 1 .. Len(numbers)
      /\ \A i \in 1 .. Len(numbers) : numbers[i] \in Fds
  BY LenProperties, ElementOfSeq
<1>2. std' = std /\ lost' = lost
  BY DEF Begin
<1>3. /\ \A i \in StdFds : Standard(i)' = Standard(i)
      /\ \A i \in StdFds : ~IsDefault(i) => fdt'[i] = fdt[i]
  <2>1. \A n \in Fds : fdt'[n] = fdt[n] \/ fdt[n] = Closed
    OBVIOUS
  <2> QED BY <1>2, <2>1, StandardsStay
<1>4. CASE \E i \in DOMAIN numbers : numbers[i] < 3
  BY <1>2, <1>3, <1>4, Unseen DEF Begin
<1>5. CASE ~\E i \in DOMAIN numbers : numbers[i] < 3
  <2>1. own' = Told(numbers, entries)
    BY <1>5 DEF Begin
  <2>2. \A i \in 1 .. Len(numbers) : numbers[i] > 2
    <3> SUFFICES ASSUME NEW i \in 1 .. Len(numbers) PROVE numbers[i] > 2
      OBVIOUS
    <3>1. numbers[i] \in Fds /\ ~(numbers[i] < 3)
      BY <1>1, <1>5
    <3> QED BY <3>1, FdTableConstants DEF Fds
  <2>3. \A i \in 1 .. Len(numbers) : own[numbers[i]] = Closed
    BY <1>1, FreeNumber DEF OfC
  <2> QED BY <1>2, <1>3, <2>1, <2>2, <2>3, ToldCreates
<1> QED BY <1>4, <1>5

LEMMA OpenMaps ==
  ASSUME FdInv, FdInv', NEW p \in Procs, NEW what \in Nodes, NEW c \in BOOLEAN, Open(p, what, c)
  PROVE  [M!Next]_(M!mapVars)
<1> DEFINE e == [node |-> what, cloexec |-> c]  n == LowestFrom(0)
<1>1. n \in Fds /\ fdt[n] = Closed /\ e \in Entry
  BY LeastFree DEF Open, Entry
<1>2. fdt' = [fdt EXCEPT ![n] = e] /\ Begin(p, <<n>>, <<e>>)
  BY DEF Open
<1> HIDE DEF e, n
<1>3. /\ <<n>> \in Seq(Fds) /\ Len(<<n>>) = 1 /\ <<n>>[1] = n
      /\ <<e>> \in Seq(Entry) /\ Len(<<e>>) = 1 /\ <<e>>[1] = e
  BY <1>1, OneTwo
<1>4. \A m \in Fds : m # n => fdt'[m] = fdt[m]
  BY <1>2 DEF FdInv, Tables
<1> DEFINE ns == <<n>>  es == <<e>>
<1>5. /\ ns \in Seq(Fds) /\ es \in Seq(Entry) /\ Len(ns) = 1 /\ Len(es) = 1
      /\ ns[1] = n /\ es[1] = e /\ Begin(p, ns, es)
  BY <1>2, <1>3
<1> HIDE DEF ns, es
<1>6. /\ \A i, k \in 1 .. Len(ns) : ns[i] = ns[k] => i = k
      /\ \A i \in 1 .. Len(ns) : fdt[ns[i]] = Closed
  BY <1>1, <1>5
<1>7. \A k \in Fds : (\A i \in 1 .. Len(ns) : ns[i] # k) => fdt'[k] = fdt[k]
  BY <1>4, <1>5
<1>8. Len(ns) = Len(es) /\ Len(ns) <= 2
  BY <1>5
<1> QED BY <1>5, <1>6, <1>7, <1>8, BeginCreates

LEMMA DupMaps ==
  ASSUME FdInv, FdInv', NEW p \in Procs, NEW old \in Fds, NEW low \in Nat, NEW c \in BOOLEAN,
         Dup(p, old, low, c)
  PROVE  [M!Next]_(M!mapVars)
<1> DEFINE e == [node |-> fdt[Kernel(old)].node, cloexec |-> c]  n == LowestFrom(low)
<1>1. n \in Fds /\ fdt[n] = Closed /\ e \in Entry
  BY LeastFree, UsableDenotes DEF Dup, Entry
<1>2. fdt' = [fdt EXCEPT ![n] = e] /\ Begin(p, <<n>>, <<e>>)
  BY DEF Dup
<1> HIDE DEF e, n
<1>3. /\ <<n>> \in Seq(Fds) /\ Len(<<n>>) = 1 /\ <<n>>[1] = n
      /\ <<e>> \in Seq(Entry) /\ Len(<<e>>) = 1 /\ <<e>>[1] = e
  BY <1>1, OneTwo
<1>4. \A m \in Fds : m # n => fdt'[m] = fdt[m]
  BY <1>2 DEF FdInv, Tables
<1> DEFINE ns == <<n>>  es == <<e>>
<1>5. /\ ns \in Seq(Fds) /\ es \in Seq(Entry) /\ Len(ns) = 1 /\ Len(es) = 1
      /\ ns[1] = n /\ es[1] = e /\ Begin(p, ns, es)
  BY <1>2, <1>3
<1> HIDE DEF ns, es
<1>6. /\ \A i, k \in 1 .. Len(ns) : ns[i] = ns[k] => i = k
      /\ \A i \in 1 .. Len(ns) : fdt[ns[i]] = Closed
  BY <1>1, <1>5
<1>7. \A k \in Fds : (\A i \in 1 .. Len(ns) : ns[i] # k) => fdt'[k] = fdt[k]
  BY <1>4, <1>5
<1>8. Len(ns) = Len(es) /\ Len(ns) <= 2
  BY <1>5
<1> QED BY <1>5, <1>6, <1>7, <1>8, BeginCreates

LEMMA PipeMaps ==
  ASSUME FdInv, FdInv', NEW p \in Procs, NEW what \in Nodes, NEW c \in BOOLEAN,
         Pipe(p, what, what, c)
  PROVE  [M!Next]_(M!mapVars)
<1> DEFINE e == [node |-> what, cloexec |-> c]
           m == LowestFrom(0)
           n == CHOOSE k \in FreeFrom(m + 1) : \A j \in FreeFrom(m + 1) : k <= j
<1>1. /\ m \in Fds /\ fdt[m] = Closed /\ n \in Fds /\ n >= m + 1 /\ fdt[n] = Closed
      /\ e \in Entry
  BY TwoFree DEF Pipe, Entry
<1>2. fdt' = [fdt EXCEPT ![m] = e, ![n] = e] /\ Begin(p, <<m, n>>, <<e, e>>)
  BY DEF Pipe
<1> HIDE DEF e, m, n
<1>3. /\ <<m, n>> \in Seq(Fds) /\ Len(<<m, n>>) = 2 /\ <<m, n>>[1] = m /\ <<m, n>>[2] = n
      /\ <<e, e>> \in Seq(Entry) /\ Len(<<e, e>>) = 2
  BY <1>1, OneTwo
<1>4. m # n
  BY <1>1, NumberFacts
<1>5. \A k \in Fds : k # m /\ k # n => fdt'[k] = fdt[k]
  BY <1>2 DEF FdInv, Tables
<1> DEFINE ns == <<m, n>>  es == <<e, e>>
<1>6. /\ ns \in Seq(Fds) /\ es \in Seq(Entry) /\ Len(ns) = 2 /\ Len(es) = 2
      /\ ns[1] = m /\ ns[2] = n /\ Begin(p, ns, es)
  BY <1>2, <1>3
<1> HIDE DEF ns, es
<1>7. \A i \in 1 .. Len(ns) : i = 1 \/ i = 2
  BY <1>6
<1>8. /\ \A i, k \in 1 .. Len(ns) : ns[i] = ns[k] => i = k
      /\ \A i \in 1 .. Len(ns) : fdt[ns[i]] = Closed
  BY <1>1, <1>4, <1>6, <1>7
<1>9. \A k \in Fds : (\A i \in 1 .. Len(ns) : ns[i] # k) => fdt'[k] = fdt[k]
  BY <1>5, <1>6
<1>10. Len(ns) = Len(es) /\ Len(ns) <= 2
  BY <1>6
<1> QED BY <1>6, <1>8, <1>9, <1>10, BeginCreates

LEMMA ReturnMaps ==
  ASSUME FdInv, FdInv', NEW p \in Procs, Return(p)
  PROVE  [M!Next]_(M!mapVars)
<1> DEFINE d == done[p]
<1>1. /\ CallTypes /\ Progress(p) /\ Contents(p) /\ Different(p) /\ \A n \in Fds : OneHolder(n)
  BY DEF FdInv, CallRight
<1>2. /\ d \in Seq(Fds) /\ want[p] \in Seq(Entry) /\ Len(d) \in Nat
      /\ \A i \in 1 .. Len(d) : d[i] \in Fds
  BY <1>1, CallLengths
<1>3. Len(d) = Len(want[p]) /\ Len(d) <= 2
  <2>1. Len(todo[p]) = 0
    BY EmptySeq DEF Return
  <2>2. Len(d) + Len(todo[p]) = Len(want[p]) /\ Len(want[p]) <= 2
    BY <1>1 DEF Progress
  <2>3. \A k \in Nat : k + 0 = k
    OBVIOUS
  <2> QED BY <1>2, <2>1, <2>2, <2>3
<1>4. \A i \in 1 .. Len(d) : d[i] > 2 /\ own[d[i]] = Closed
  <2> SUFFICES ASSUME NEW i \in 1 .. Len(d) PROVE d[i] > 2 /\ own[d[i]] = Closed
    OBVIOUS
  <2>1. d[i] > 2 /\ InHand(p, d[i])
    BY <1>1, <1>2 DEF Contents, InHand
  <2> QED BY <1>1, <1>2, <2>1 DEF OneHolder, OfC
<1>5. own' = Told(d, want[p]) /\ std' = std /\ lost' = lost /\ fdt' = fdt
  BY DEF Return
<1>6. /\ \A i \in StdFds : Standard(i)' = Standard(i)
      /\ \A i \in StdFds : ~IsDefault(i) => fdt'[i] = fdt[i]
  BY <1>5, StandardsStay
<1>7. \A i, k \in 1 .. Len(d) : d[i] = d[k] => i = k
  BY <1>1 DEF Different
<1> PICK numbers \in Seq(Fds), entries \in Seq(Entry) : numbers = d /\ entries = want[p]
  BY <1>2
<1> HIDE DEF d
<1> QED BY <1>3, <1>4, <1>5, <1>6, <1>7, ToldCreates

\* The system calls of c2goFD, which C does not see.
LEMMA InsideMaps ==
  ASSUME FdInv, FdInv', NEW p \in Procs,
         Keep(p) \/ DupFd(p) \/ FailDup(p) \/ SetFd(p) \/ CloseOld(p)
  PROVE  [M!Next]_(M!mapVars)
<1>1. /\ Tables /\ CallTypes /\ Progress(p)
  BY DEF FdInv, CallRight
<1>2. own' = own /\ std' = std /\ lost' = lost
  BY DEF Keep, DupFd, FailDup, SetFd, CloseOld
<1>3. \A n \in Fds : fdt'[n] = fdt[n] \/ fdt[n] = Closed \/ InHand(p, n)
  <2>1. CASE Keep(p)
    BY <2>1 DEF Keep
  <2>2. CASE DupFd(p)
    <3>1. FreeFrom(3) # {} /\ 3 \in Nat
      BY <2>2 DEF DupFd
    <3>2. fdt[LowestFrom(3)] = Closed
      BY <3>1, LeastFree
    <3>3. \A n \in Fds : n # LowestFrom(3) => fdt'[n] = fdt[n]
      BY <1>1, <2>2 DEF DupFd, Tables
    <3> QED BY <3>2, <3>3
  <2>3. CASE FailDup(p)
    <3>1. \A n \in Fds : n \in Moving(p) => InHand(p, n)
      BY <1>1, MovingIs
    <3> QED BY <2>3, <3>1 DEF FailDup
  <2>4. CASE SetFd(p)
    <3>1. \A n \in Fds : n # nfd[p] => fdt'[n] = fdt[n]
      BY <1>1, <2>4 DEF SetFd, Tables
    <3> QED BY <3>1 DEF InHand
  <2>5. CASE CloseOld(p)
    <3>1. Len(todo[p]) > 0 /\ todo[p] \in Seq(Fds)
      BY <1>1, <2>5 DEF CloseOld, Progress, CallTypes
    <3>2. Head(todo[p]) = todo[p][1] /\ 1 \in 1 .. Len(todo[p])
      <4>1. Len(todo[p]) \in Nat /\ todo[p] # <<>>
        BY <3>1, LenProperties, EmptySeq
      <4>2. Head(todo[p]) = todo[p][1]
        BY <3>1, <4>1, HeadTailProperties
      <4>3. \A m \in Nat : m > 0 => 1 \in 1 .. m
        OBVIOUS
      <4> QED BY <3>1, <4>1, <4>2, <4>3
    <3>3. \A n \in Fds : n # todo[p][1] => fdt'[n] = fdt[n]
      BY <1>1, <2>5, <3>2 DEF CloseOld, Tables
    <3> QED BY <3>2, <3>3 DEF InHand
  <2> QED BY <2>1, <2>2, <2>3, <2>4, <2>5
<1>4. /\ \A i \in StdFds : Standard(i)' = Standard(i)
      /\ \A i \in StdFds : ~IsDefault(i) => fdt'[i] = fdt[i]
  BY <1>2, <1>3, StandardsStay
<1> QED BY <1>2, <1>4, Unseen

\* A step that changes what is behind one number at most.
LEMMA OneMaps ==
  ASSUME FdInv, FdInv', NEW n \in Fds, PutAside' = PutAside,
         \A m \in Fds \ {n} : AsMap'[m] = AsMap[m],
         M!Close(n) \/ M!Redirect(n) \/ M!HostCloses(n)
  PROVE  [M!Next]_(M!mapVars)
<1>1. CASE AsMap'[n] = AsMap[n]
  <2>1. \A m \in Fds : AsMap'[m] = AsMap[m]
    BY <1>1
  <2>2. AsMap' = AsMap
    BY <2>1, Reads, ReadsNext DEF Readings
  <2> QED BY <2>2 DEF M!mapVars
<1>2. CASE AsMap'[n] # AsMap[n]
  <2>1. M!Touched = {n}
    BY <1>2, OneTouched
  <2> QED BY <2>1 DEF M!Next
<1> QED BY <1>1, <1>2

LEMMA CloseMaps ==
  ASSUME FdInv, FdInv', NEW p \in Procs, NEW n \in Fds, Close(p, n)
  PROVE  [M!Next]_(M!mapVars)
<1>1. /\ fdt' = [fdt EXCEPT ![n] = Closed] /\ own' = [own EXCEPT ![n] = Closed]
      /\ std' = std /\ lost' = lost /\ n \notin StdFds /\ OfC(n) /\ Tables
  BY DEF Close, Usable, isStdFd, OfC, FdInv
<1>2. \A m \in Fds : fdt'[m] = fdt[m] \/ OfC(m)
  BY <1>1 DEF Tables
<1>3. /\ \A i \in StdFds : Standard(i)' = Standard(i)
      /\ \A i \in StdFds : ~IsDefault(i) => fdt'[i] = fdt[i]
  BY <1>1, <1>2, StandardsStay
<1>4. /\ PutAside' = PutAside
      /\ \A m \in Fds : AsMap'[m] # AsMap[m] <=> m \notin StdFds /\ own'[m] # own[m]
  BY <1>1, <1>3, OnlyTold
<1>5. own'[n] = Closed /\ \A m \in Fds \ {n} : own'[m] = own[m]
  BY <1>1 DEF Tables
<1>6. \A m \in Fds \ {n} : AsMap'[m] = AsMap[m]
  BY <1>4, <1>5
<1>7. AsMap'[n] = Closed
  BY <1>1, <1>5, ReadsNext DEF Readings
<1>8. M!Close(n)
  BY <1>1, <1>7 DEF M!Close, M!Reserved, StdFds
<1> QED BY <1>4, <1>6, <1>8, OneMaps

\* What C reaches through a number it may use.
LEMMA UsableReads ==
  ASSUME FdInv, NEW old \in Fds, Usable(old)
  PROVE  AsMap[old] # Closed /\ AsMap[old] = fdt[Kernel(old)]
<1>1. fdt[Kernel(old)] # Closed
  BY UsableDenotes, NumberFacts
<1>2. \A n \in Fds : OneHolder(n)
  BY DEF FdInv
<1>3. CASE old \in StdFds
  <2>1. old \notin lost
    BY <1>2, <1>3 DEF Usable, OneHolder, OfC, StdFds
  <2> QED BY <1>1, <1>3, <2>1, Reads DEF Readings, Standard, Kernel, isStdFd
<1>4. CASE old \notin StdFds
  <2>1. OfC(old) /\ Kernel(old) = old
    BY <1>4 DEF Usable, OfC, Kernel, isStdFd
  <2>2. own[old] = fdt[old]
    BY <1>2, <2>1 DEF OneHolder
  <2> QED BY <1>1, <1>4, <2>1, <2>2, Reads DEF Readings
<1> QED BY <1>3, <1>4

LEMMA Dup3Maps ==
  ASSUME FdInv, FdInv', NEW p \in Procs, NEW old \in Fds, NEW new \in Fds, NEW c \in BOOLEAN,
         Dup3(p, old, new, c)
  PROVE  [M!Next]_(M!mapVars)
<1> DEFINE e == [node |-> fdt[Kernel(old)].node, cloexec |-> c]
<1>1. /\ Tables /\ \A n \in Fds : OneHolder(n)
  BY DEF FdInv
<1>2. e \in Entry /\ e.node = AsMap[old].node /\ AsMap[old] # Closed
  BY UsableDenotes, UsableReads DEF Dup3, Entry
<1>3. /\ fdt' = [fdt EXCEPT ![new] = e]
      /\ own' = (IF isStdFd(new) THEN own ELSE [own EXCEPT ![new] = e])
      /\ lost' = lost \ {new} /\ std' = std
      /\ DupTarget(new) /\ stdDupGate(p, old, new)
  BY DEF Dup3
<1> HIDE DEF e
<1>4. fdt'[new] = e /\ \A m \in Fds : m # new => fdt'[m] = fdt[m]
  BY <1>1, <1>3 DEF Tables
<1>5. AsMap'[new] = e /\ new \notin M!hosted => M!Redirect(new)
  <2>1. old \in M!Numbers
    BY DEF M!Numbers, Fds
  <2> QED BY <1>2, <2>1 DEF M!Redirect, M!Entry, Entry
<1>6. CASE new \in StdFds
  <2>1. IsDefault(new) /\ own' = own
    BY <1>3, <1>6 DEF stdDupGate, isStdFd
  <2>2. std[new].num = new
    BY <1>6, <2>1, StandardsApart
  <2>3. \A i \in StdFds : i # new => std[i].num # new
    <3> SUFFICES ASSUME NEW i \in StdFds, i # new PROVE std[i].num # new
      OBVIOUS
    <3>1. new < 3 /\ ~(new > 2)
      BY <1>6 DEF StdFds
    <3> QED BY <3>1, StandardsApart
  <2>4. Standard(new)' = e
    BY <1>3, <1>4, <2>2 DEF Standard
  <2>5. ASSUME NEW i \in StdFds, i # new PROVE Standard(i)' = Standard(i)
    <3>1. i \notin lost => std[i].num \in Fds
      BY StandardsApart
    <3> QED BY <1>3, <1>4, <2>3, <2>5, <3>1 DEF Standard
  <2>6. /\ \A i \in StdFds : IsDefault(i)' <=> IsDefault(i)
        /\ \A i \in StdFds : ~IsDefault(i) => fdt'[i] = fdt[i]
    BY <1>3, <1>4, <2>1, NumberFacts DEF IsDefault
  <2>7. PutAside' = PutAside
    <3>1. \A i \in StdFds : PutAside'[i] = PutAside[i]
      BY <2>6, Reads, ReadsNext DEF Readings
    <3> QED BY <3>1, Reads, ReadsNext DEF Readings
  <2>8. \A m \in Fds \ {new} : AsMap'[m] = AsMap[m]
    BY <2>1, <2>5, Reads, ReadsNext DEF Readings
  <2>9. AsMap'[new] = e
    BY <1>6, <2>4, ReadsNext DEF Readings
  <2>10. new \notin M!hosted
    BY <1>6, <2>1, Reads DEF Readings, M!hosted
  <2> QED BY <1>5, <2>7, <2>8, <2>9, <2>10, OneMaps
<1>7. CASE new \notin StdFds
  <2>1. own' = [own EXCEPT ![new] = e] /\ own'[new] = e
    BY <1>1, <1>3, <1>7 DEF isStdFd, Tables
  <2>2. lost' = lost
    BY <1>1, <1>3, <1>7 DEF Tables
  <2>3. OfC(new) \/ fdt[new] = Closed
    BY <1>3, <1>7, FdTableConstants DEF DupTarget, OfC, StdFds
  <2>4. \A m \in Fds : fdt'[m] = fdt[m] \/ fdt[m] = Closed \/ OfC(m)
    BY <1>4, <2>3
  <2>5. /\ \A i \in StdFds : Standard(i)' = Standard(i)
        /\ \A i \in StdFds : ~IsDefault(i) => fdt'[i] = fdt[i]
    BY <1>3, <2>2, <2>4, StandardsStay
  <2>6. /\ PutAside' = PutAside
        /\ \A m \in Fds : AsMap'[m] # AsMap[m] <=> m \notin StdFds /\ own'[m] # own[m]
    BY <1>3, <2>5, OnlyTold
  <2>7. \A m \in Fds \ {new} : AsMap'[m] = AsMap[m]
    BY <1>1, <2>1, <2>6 DEF Tables
  <2>8. AsMap'[new] = e
    BY <1>7, <2>1, ReadsNext DEF Readings
  <2>9. new \notin M!hosted
    BY <1>7 DEF M!hosted, M!Reserved, StdFds
  <2> QED BY <1>5, <2>6, <2>7, <2>8, <2>9, OneMaps
<1> QED BY <1>6, <1>7

LEMMA LoseMaps ==
  ASSUME FdInv, FdInv', NEW i \in StdFds, Lose(i)
  PROVE  [M!Next]_(M!mapVars)
<1>1. /\ fdt' = [fdt EXCEPT ![i] = Closed] /\ lost' = lost \cup {i}
      /\ IsDefault(i) /\ std' = std /\ own' = own /\ Tables
  BY DEF Lose, FdInv
<1>2. i \in Fds /\ \A m \in Fds : m # i => fdt'[m] = fdt[m]
  BY <1>1, NumberFacts DEF Tables
<1>3. \A k \in StdFds : k # i => std[k].num # i
  <2> SUFFICES ASSUME NEW k \in StdFds, k # i PROVE std[k].num # i
    OBVIOUS
  <2>1. ~(i > 2)
    BY DEF StdFds
  <2> QED BY <2>1, StandardsApart
<1>4. ASSUME NEW k \in StdFds, k # i PROVE Standard(k)' = Standard(k)
  <2>1. k \notin lost => std[k].num \in Fds
    BY StandardsApart
  <2> QED BY <1>1, <1>2, <1>3, <1>4, <2>1 DEF Standard
<1>5. Standard(i)' = Closed
  BY <1>1 DEF Standard
<1>6. PutAside' = PutAside
  <2>1. /\ \A k \in StdFds : IsDefault(k)' <=> IsDefault(k)
        /\ \A k \in StdFds : ~IsDefault(k) => fdt'[k] = fdt[k]
    BY <1>1, <1>2, NumberFacts DEF IsDefault
  <2>2. \A k \in StdFds : PutAside'[k] = PutAside[k]
    BY <2>1, Reads, ReadsNext DEF Readings
  <2> QED BY <2>2, Reads, ReadsNext DEF Readings
<1>7. \A m \in Fds \ {i} : AsMap'[m] = AsMap[m]
  BY <1>1, <1>4, Reads, ReadsNext DEF Readings
<1>8. M!HostCloses(i)
  <2>1. AsMap'[i] = Closed
    BY <1>2, <1>5, ReadsNext DEF Readings
  <2>2. i \in M!Reserved /\ i \notin M!hosted
    BY <1>1, Reads DEF Readings, M!Reserved, M!hosted, StdFds
  <2> QED BY <2>1, <2>2 DEF M!HostCloses
<1> QED BY <1>2, <1>6, <1>7, <1>8, OneMaps

LEMMA SwapMaps ==
  ASSUME FdInv, FdInv', NEW i \in StdFds, Swap(i)
  PROVE  [M!Next]_(M!mapVars)
<1> DEFINE e == [node |-> HostNode, cloexec |-> TRUE]
<1>1. /\ Tables /\ e \in Entry
  BY FdTableConstants DEF FdInv, Entry
<1>2. LowestFrom(3) \in Fds /\ LowestFrom(3) >= 3 /\ fdt[LowestFrom(3)] = Closed
  BY LeastFree DEF Swap
<1> PICK n \in Fds : n = LowestFrom(3)
  BY <1>2
<1>3. /\ fdt' = [fdt EXCEPT ![n] = e] /\ std' = [std EXCEPT ![i] = [num |-> n, startup |-> FALSE]]
      /\ IsDefault(i) /\ lost = {} /\ lost' = lost /\ own' = own
  BY DEF Swap
<1> HIDE DEF e
<1>4. fdt'[n] = e /\ \A m \in Fds : m # n => fdt'[m] = fdt[m]
  BY <1>1, <1>3 DEF Tables
<1>5. /\ std'[i].num = n /\ std'[i].startup = FALSE
      /\ \A k \in StdFds : k # i => std'[k] = std[k]
  BY <1>1, <1>3 DEF Tables
<1>6. fdt[n] = Closed /\ n \notin StdFds /\ Closed \notin Entry
  BY <1>2, NumberFacts DEF StdFds
<1>7. ASSUME NEW k \in StdFds, k # i PROVE Standard(k)' = Standard(k)
  <2>1. std[k].num \in Fds /\ fdt[std[k].num] \in Entry
    BY <1>3, StandardsApart
  <2>2. std[k].num # n
    BY <1>6, <2>1
  <2> QED BY <1>3, <1>4, <1>5, <1>7, <2>1, <2>2 DEF Standard
<1>8. Standard(i)' = e /\ Standard(i) = fdt[i] /\ fdt[i] \in Entry /\ fdt'[i] = fdt[i]
  <2>1. std[i].num = i /\ fdt[i] \in Entry /\ i \in Fds /\ i # n
    BY <1>3, <1>6, StandardsApart
  <2> QED BY <1>3, <1>4, <1>5, <2>1 DEF Standard
<1>9. \A m \in Fds \ {i} : AsMap'[m] = AsMap[m]
  BY <1>3, <1>7, Reads, ReadsNext DEF Readings
<1>10. AsMap'[i] = e /\ AsMap[i] = fdt[i]
  BY <1>8, NumberFacts, Reads, ReadsNext DEF Readings
<1>11. PutAside[i] = Closed /\ PutAside'[i] = fdt[i]
  BY <1>3, <1>5, <1>8, Reads, ReadsNext DEF Readings, IsDefault
<1>12. ASSUME NEW k \in StdFds, k # i PROVE PutAside'[k] = PutAside[k]
  <2>1. IsDefault(k)' <=> IsDefault(k)
    BY <1>5, <1>12 DEF IsDefault
  <2>2. fdt'[k] = fdt[k]
    BY <1>4, <1>6, <1>12, NumberFacts
  <2> QED BY <2>1, <2>2, Reads, ReadsNext DEF Readings
<1>13. PutAside' = [PutAside EXCEPT ![i] = AsMap[i]]
  BY <1>10, <1>11, <1>12, Reads, ReadsNext DEF Readings
<1>14. M!HostSwaps(i)
  <2>1. AsMap'[i] \in M!Entry
    BY <1>1, <1>10 DEF Entry, M!Entry
  <2>2. \A m \in M!Numbers \ {i} : AsMap'[m] = AsMap[m]
    BY <1>9 DEF M!Numbers, Fds
  <2> QED BY <1>11, <1>13, <2>1, <2>2 DEF M!HostSwaps
<1> QED BY <1>14 DEF M!Next, M!Reserved, StdFds

LEMMA RestoreMaps ==
  ASSUME FdInv, FdInv', NEW i \in StdFds, Restore(i)
  PROVE  [M!Next]_(M!mapVars)
<1>1. Tables /\ \A n \in Fds : OneHolder(n)
  BY DEF FdInv
<1>2. PICK n \in Fds : n = std[i].num
  BY <1>1 DEF Tables
<1>3. /\ fdt' = [fdt EXCEPT ![n] = Closed] /\ std' = [std EXCEPT ![i] = [num |-> i, startup |-> TRUE]]
      /\ ~IsDefault(i) /\ lost' = lost /\ own' = own
  BY <1>2 DEF Restore
<1>4. \A m \in Fds : m # n => fdt'[m] = fdt[m]
  BY <1>1, <1>3 DEF Tables
<1>5. /\ std'[i].num = i /\ std'[i].startup = TRUE
      /\ \A k \in StdFds : k # i => std'[k] = std[k]
  BY <1>1, <1>3 DEF Tables
<1>6. /\ n > 2 /\ n \notin StdFds /\ i \notin lost /\ fdt[i] \in Entry
      /\ \A k \in StdFds : k # i => std[k].num # n
  <2>1. n > 2 /\ i \notin lost /\ fdt[i] \in Entry
    BY <1>2, <1>3, StandardsApart
  <2>2. n \notin StdFds
    BY <2>1 DEF StdFds
  <2>3. ASSUME NEW k \in StdFds, k # i PROVE std[k].num # n
    <3>1. CASE IsDefault(k)
      BY <2>2, <2>3, <3>1, StandardsApart
    <3>2. CASE ~IsDefault(k)
      <4>1. OfHost(i, n) /\ (std[k].num = n => OfHost(k, n))
        BY <1>2, <1>3, <3>2 DEF OfHost
      <4> QED BY <1>1, <2>3, <4>1 DEF OneHolder
    <3> QED BY <3>1, <3>2
  <2> QED BY <2>1, <2>2, <2>3
<1>7. ASSUME NEW k \in StdFds, k # i PROVE Standard(k)' = Standard(k)
  <2>1. k \notin lost => std[k].num \in Fds /\ std[k].num # n
    BY <1>6, <1>7, StandardsApart
  <2> QED BY <1>3, <1>4, <1>5, <1>7, <2>1 DEF Standard
<1>8. Standard(i)' = fdt[i]
  BY <1>3, <1>4, <1>5, <1>6, NumberFacts DEF Standard
<1>9. \A m \in Fds \ {i} : AsMap'[m] = AsMap[m]
  BY <1>3, <1>7, Reads, ReadsNext DEF Readings
<1>10. AsMap'[i] = fdt[i]
  BY <1>8, NumberFacts, ReadsNext DEF Readings
<1>11. PutAside[i] = fdt[i] /\ PutAside'[i] = Closed
  BY <1>3, <1>5, Reads, ReadsNext DEF Readings, IsDefault
<1>12. ASSUME NEW k \in StdFds, k # i PROVE PutAside'[k] = PutAside[k]
  <2>1. IsDefault(k)' <=> IsDefault(k)
    BY <1>5, <1>12 DEF IsDefault
  <2>2. fdt'[k] = fdt[k]
    BY <1>4, <1>6, <1>12, NumberFacts
  <2> QED BY <2>1, <2>2, Reads, ReadsNext DEF Readings
<1>13. PutAside' = [PutAside EXCEPT ![i] = Closed]
  BY <1>11, <1>12, Reads, ReadsNext DEF Readings
<1>14. M!HostSwaps(i)
  <2>1. PutAside[i] # Closed
    BY <1>6, <1>11, NumberFacts
  <2>2. \A m \in M!Numbers \ {i} : AsMap'[m] = AsMap[m]
    BY <1>9 DEF M!Numbers, Fds
  <2> QED BY <1>10, <1>11, <1>13, <2>1, <2>2 DEF M!HostSwaps
<1> QED BY <1>14 DEF M!Next, M!Reserved, StdFds

LEMMA TableStarts == Init => M!Init
<1> SUFFICES ASSUME Init PROVE M!Init
  OBVIOUS
<1>1. FdInv
  BY FdStarts
<1>2. DOMAIN AsMap = M!Numbers
  BY <1>1, Reads DEF Readings, M!Numbers, Fds
<1>3. ASSUME NEW n \in M!Numbers
      PROVE  IF n \in M!Reserved THEN AsMap[n] \in M!Entry ELSE AsMap[n] = Closed
  <2>1. n \in Fds /\ (n \in M!Reserved <=> n \in StdFds)
    BY DEF M!Numbers, M!Reserved, Fds, StdFds
  <2>2. CASE n \in StdFds
    <3>1. n \notin lost /\ std[n].num = n /\ fdt[n] = [node |-> Terminal, cloexec |-> FALSE]
      BY <2>1, <2>2 DEF Init
    <3>2. AsMap[n] = [node |-> Terminal, cloexec |-> FALSE]
      BY <1>1, <2>1, <2>2, <3>1, Reads DEF Readings, Standard
    <3> QED BY <2>1, <2>2, <3>2, FdTableConstants DEF M!Entry
  <2>3. CASE n \notin StdFds
    <3>1. own[n] = Closed
      BY <2>1 DEF Init
    <3> QED BY <1>1, <2>1, <2>3, <3>1, Reads DEF Readings
  <2> QED BY <2>2, <2>3
<1>4. PutAside = [i \in M!Reserved |-> Closed]
  <2>1. \A i \in StdFds : PutAside[i] = Closed
    BY <1>1, Reads DEF Readings, Init, IsDefault
  <2>2. M!Reserved = StdFds
    BY DEF M!Reserved, StdFds
  <2> QED BY <1>1, <2>1, <2>2, Reads DEF Readings
<1> QED BY <1>2, <1>3, <1>4 DEF M!Init

LEMMA TableSteps == FdInv /\ FdInv' /\ [Next]_vars => [M!Next]_(M!mapVars)
<1> SUFFICES ASSUME FdInv, FdInv', [Next]_vars PROVE [M!Next]_(M!mapVars)
  OBVIOUS
<1>1. ASSUME NEW p \in Procs, Creates(p) PROVE [M!Next]_(M!mapVars)
  <2>1. 0 \in Nat /\ 4 \in Nat
    OBVIOUS
  <2> QED BY <1>1, <2>1, OpenMaps, PipeMaps, DupMaps DEF Creates
<1>2. ASSUME NEW p \in Procs, Calls(p) PROVE [M!Next]_(M!mapVars)
  BY <1>1, <1>2, InsideMaps, ReturnMaps, CloseMaps, Dup3Maps DEF Calls
<1>3. CASE Host
  BY <1>3, LoseMaps, SwapMaps, RestoreMaps DEF Host
<1>4. CASE UNCHANGED vars
  <2>1. AsMap' = AsMap /\ PutAside' = PutAside
    BY <1>4 DEF vars, AsMap, PutAside, IsDefault, isStdFd
  <2> QED BY <2>1 DEF M!mapVars
<1> QED BY <1>2, <1>3, <1>4 DEF Next

\* What C sees of its descriptors is the table of DescriptorMap, in which open,
\* pipe, dup, close and dup2 are one step each: for any number of threads
\* between the system calls of c2goFD and c2goFDPair (fd_alloc_unix.go), any
\* limit, and a host that closes and reassigns the standard streams.
THEOREM DescriptorsAreMap == MCSpec => ImplementsDescriptors
<1>1. MCInit => M!Init
  BY TableStarts DEF MCInit
<1>2. FdInv /\ FdInv' /\ [MCNext]_allVars => [M!Next]_(M!mapVars)
  BY TableSteps DEF MCNext, allVars
<1> QED BY <1>1, <1>2, FdInvariance, PTL DEF MCSpec, ImplementsDescriptors, M!Spec

-----------------------------------------------------------------------------
(* Sequences without repetition.                                           *)

Values(s) == {s[i] : i \in 1 .. Len(s)}
Distinct(s) == \A i, k \in 1 .. Len(s) : s[i] = s[k] => i = k

LEMMA ValuesOf ==
  ASSUME NEW T, NEW s \in Seq(T)
  PROVE  /\ Len(s) \in Nat /\ \A i \in 1 .. Len(s) : s[i] \in T /\ s[i] \in Values(s)
         /\ Values(s) \subseteq T
         /\ Len(s) = 0 <=> s = <<>>
<1>1. Len(s) \in Nat /\ \A i \in 1 .. Len(s) : s[i] \in T
  BY LenProperties, ElementOfSeq
<1>2. Len(s) = 0 <=> s = <<>>
  BY EmptySeq
<1> QED BY <1>1, <1>2 DEF Values

LEMMA NoValues ==
  ASSUME NEW T
  PROVE <<>> \in Seq(T) /\ Len(<<>>) = 0 /\ Values(<<>>) = {} /\ Distinct(<<>>)
<1>1. <<>> \in Seq(T) /\ Len(<<>>) = 0
  BY EmptySeq
<1> QED BY <1>1 DEF Values, Distinct

LEMMA OneMore ==
  ASSUME NEW T, NEW s \in Seq(T), Distinct(s), NEW x \in T, x \notin Values(s)
  PROVE  /\ Append(s, x) \in Seq(T) /\ Distinct(Append(s, x))
         /\ Len(s) \in Nat /\ Len(Append(s, x)) = Len(s) + 1
         /\ \A i \in 1 .. Len(s) : Append(s, x)[i] = s[i]
         /\ Append(s, x)[Len(s) + 1] = x
         /\ Values(Append(s, x)) = Values(s) \cup {x}
<1> DEFINE t == Append(s, x)
<1>1. Len(s) \in Nat /\ \A i \in 1 .. Len(s) : s[i] # x
  BY LenProperties DEF Values
<1>2. /\ t \in Seq(T) /\ Len(t) = Len(s) + 1
      /\ \A i \in 1 .. Len(s) : t[i] = s[i]
      /\ t[Len(s) + 1] = x
  BY <1>1, AppendProperties
<1> PICK n \in Nat : n = Len(s)
  BY <1>1
<1>3. Len(t) = n + 1 /\ (\A i \in 1 .. n : t[i] = s[i]) /\ t[n + 1] = x
  BY <1>2
<1>4. \A i \in 1 .. n : s[i] # x
  BY <1>1
<1> HIDE DEF t
<1>5. \A i \in 1 .. n + 1 : i \in 1 .. n \/ i = n + 1
  OBVIOUS
<1>6. Distinct(t)
  <2>1. \A i, k \in 1 .. n : s[i] = s[k] => i = k
    BY DEF Distinct
  <2>2. \A i, k \in 1 .. n + 1 : t[i] = t[k] => i = k
    BY <1>3, <1>4, <1>5, <2>1
  <2> QED BY <1>3, <2>2 DEF Distinct
<1>7. Values(t) = Values(s) \cup {x}
  <2>1. Values(s) = {s[i] : i \in 1 .. n} /\ Values(t) = {t[i] : i \in 1 .. n + 1}
    BY <1>3 DEF Values
  <2>2. \A i \in 1 .. n : i \in 1 .. n + 1
    OBVIOUS
  <2>3. n + 1 \in 1 .. n + 1
    OBVIOUS
  <2> QED BY <1>3, <1>5, <2>1, <2>2, <2>3
<1> QED BY <1>1, <1>2, <1>6, <1>7 DEF t

LEMMA OneLess ==
  ASSUME NEW T, NEW s \in Seq(T), Distinct(s), s # <<>>
  PROVE  /\ Head(s) \in T /\ Head(s) \in Values(s) /\ Tail(s) \in Seq(T) /\ Distinct(Tail(s))
         /\ Len(s) \in Nat /\ Len(Tail(s)) = Len(s) - 1
         /\ Values(Tail(s)) = Values(s) \ {Head(s)}
<1> DEFINE t == Tail(s)
<1>1. Len(s) \in Nat /\ Len(s) # 0
  BY LenProperties, EmptySeq
<1>2. /\ t \in Seq(T) /\ Len(t) = Len(s) - 1 /\ Head(s) = s[1] /\ Head(s) \in T
      /\ \A i \in 1 .. Len(s) - 1 : t[i] = s[i + 1]
  BY <1>1, HeadTailProperties
<1> PICK n \in Nat \ {0} : n = Len(s)
  BY <1>1
<1>3. Len(t) = n - 1 /\ Head(s) = s[1] /\ \A i \in 1 .. n - 1 : t[i] = s[i + 1]
  BY <1>2
<1>4. \A i, k \in 1 .. n : s[i] = s[k] => i = k
  BY DEF Distinct
<1> HIDE DEF t
<1>5. \A i \in 1 .. n - 1 : i + 1 \in 1 .. n /\ i + 1 # 1
  OBVIOUS
<1>6. Distinct(t)
  <2> SUFFICES ASSUME NEW i \in 1 .. n - 1, NEW k \in 1 .. n - 1, t[i] = t[k] PROVE i = k
    BY <1>3 DEF Distinct
  <2>1. i + 1 = k + 1
    BY <1>3, <1>4, <1>5
  <2> QED BY <2>1
<1>7. Values(t) = Values(s) \ {Head(s)} /\ Head(s) \in Values(s)
  <2>1. Values(s) = {s[i] : i \in 1 .. n} /\ Values(t) = {t[i] : i \in 1 .. n - 1}
    BY <1>3 DEF Values
  <2>2. \A i \in 1 .. n : i = 1 \/ (i - 1 \in 1 .. n - 1 /\ (i - 1) + 1 = i)
    OBVIOUS
  <2>3. \A i \in 1 .. n : i = 1 \/ t[i - 1] = s[i]
    BY <1>3, <2>2
  <2>4. 1 \in 1 .. n
    OBVIOUS
  <2>5. Values(t) \subseteq Values(s) \ {s[1]}
    BY <1>3, <1>4, <1>5, <2>1, <2>4
  <2>6. Values(s) \ {s[1]} \subseteq Values(t)
    BY <2>1, <2>2, <2>3
  <2> QED BY <1>3, <2>1, <2>4, <2>5, <2>6
<1> QED BY <1>1, <1>2, <1>6, <1>7 DEF t

LEMMA Enumerated ==
  ASSUME NEW T, NEW S \in SUBSET T, IsFiniteSet(S)
  PROVE  LET s == D!SetToSeq(S) IN
           /\ s \in Seq(T) /\ Distinct(s) /\ Values(s) = S /\ Len(s) = D!Cardinality(S)
           /\ Len(s) \in Nat
<1> DEFINE n == Cardinality(S)
<1>1. n \in Nat /\ ExistsBijection(1 .. n, S)
  BY FS_CardinalityType
<1>2. D!Cardinality(S) = n
  BY DEF D!Cardinality, Cardinality
<1> HIDE DEF n
<1>3. PICK g \in [1 .. n -> S] : D!IsInjective(g) /\ \A x \in S : \E i \in 1 .. n : g[i] = x
  BY <1>1 DEF ExistsBijection, Bijection, Injection, Surjection, IsInjective, D!IsInjective
<1> DEFINE s == D!SetToSeq(S)
<1>4. s \in [1 .. n -> S] /\ D!IsInjective(s)
  BY <1>2, <1>3 DEF D!SetToSeq
<1> HIDE DEF s
<1>5. s \in Seq(T) /\ Len(s) = n
  BY <1>1, <1>4, SeqDef
<1>6. Distinct(s) /\ Values(s) \subseteq S
  BY <1>4, <1>5 DEF Distinct, Values, D!IsInjective
<1>7. S \subseteq Values(s)
  <2>1. s \in Injection(1 .. n, S)
    BY <1>4 DEF Injection, IsInjective, D!IsInjective
  <2>2. Cardinality(1 .. n) = Cardinality(S)
    <3>1. Cardinality(1 .. n) = n
      <4>1. 1 \in Int /\ n \in Int /\ (1 > n => n = 0)
        BY <1>1
      <4>2. Cardinality(1 .. n) = IF 1 > n THEN 0 ELSE n - 1 + 1
        BY <4>1, FS_Interval
      <4> QED BY <1>1, <4>1, <4>2
    <3> QED BY <3>1 DEF n
  <2>3. s \in Surjection(1 .. n, S)
    BY <2>1, <2>2, FS_Injection
  <2> QED BY <1>5, <2>3 DEF Surjection, Values
<1> QED BY <1>1, <1>2, <1>5, <1>6, <1>7 DEF s

-----------------------------------------------------------------------------
(* Directory streams: the inductive invariant.                             *)

DirEntry == [node : Dirs \cup {Plain}, left : SUBSET Names, passed : SUBSET Names]
DirState ==
  [st : {"none", "bare", "open", "retired", "dropped"}, by : {"none", "opendir", "fdopendir"},
   fd : D!Fds \cup {Closed}, named : BOOLEAN, dot : 0 .. 2, pending : Seq(Names), end : BOOLEAN]
DotNames == {".", ".."}

DirTables ==
  /\ content \in [Dirs -> SUBSET Names] /\ path \in Dirs \cup {Gone}
  /\ changes \in 0 .. MaxChanges
  /\ fdtD \in [D!Fds -> DirEntry \cup {Closed}] /\ ownD \subseteq D!Fds /\ stdin \in BOOLEAN
  /\ dir \in [Carriers -> DirState]
  /\ got \in [Carriers -> Seq(Names \cup DotNames)] /\ must \in [Carriers -> SUBSET Names]

\* Who may close n.
DirOwner(n) ==
  /\ fdtD[n] # Closed <=> n \in ownD \/ n \in D!Std \/ \E c \in Carriers : dir[c].fd = n
  /\ ~(n \in ownD /\ n \in D!Std)
  /\ \A c, d \in Carriers : dir[c].fd = n /\ dir[d].fd = n => c = d
  /\ \A c \in Carriers : dir[c].fd = n => n \notin ownD /\ n \notin D!Std /\ fdtD[n].node \in Dirs

Shape(c) ==
  /\ dir[c].st \in {"bare", "open", "dropped"} <=> dir[c].fd # Closed
  /\ Len(dir[c].pending) < Batch

\* What readdir has returned, what was fetched for it, what the kernel has
\* handed out and what it has still to hand out.
DotsFirst(c) ==
  /\ dir[c].dot < 2 => Len(got[c]) = dir[c].dot /\ dir[c].pending = <<>>
  /\ dir[c].dot <= Len(got[c])
  /\ Len(got[c]) > 0 => got[c][1] = "."
  /\ Len(got[c]) > 1 => got[c][2] = ".."
Once(c) ==
  /\ Distinct(got[c]) /\ Distinct(dir[c].pending)
  /\ Values(got[c]) \cap Values(dir[c].pending) = {}
  /\ Values(got[c]) \subseteq DotNames \cup fdtD[dir[c].fd].passed
  /\ Values(dir[c].pending) \subseteq fdtD[dir[c].fd].passed
AllAlong(c) ==
  /\ must[c] \subseteq fdtD[dir[c].fd].left \cup Values(dir[c].pending)
  /\ dir[c].end => must[c] = {}
Reading(c) == dir[c].st \in {"bare", "open"} => DotsFirst(c) /\ Once(c) /\ AllAlong(c)

DirInv ==
  /\ DirTables
  /\ \A n \in D!Fds : DirOwner(n)
  /\ \A c \in Carriers : Shape(c) /\ Reading(c)

LEMMA DirFacts ==
  /\ DirMaxFd \in Nat /\ DirMaxFd > 2 /\ D!Fds \subseteq Nat
  /\ 0 \in D!Fds /\ 1 \in D!Fds /\ 2 \in D!Fds
  /\ Closed \notin D!Fds /\ Closed \notin DirEntry /\ Batch \in Nat /\ Batch > 0
  /\ IsFiniteSet(Names) /\ DotNames \cap Names = {} /\ Gone \notin Dirs
  /\ MaxChanges \in Nat
<1>1. IsFiniteSet(Names)
  <2>1. D!IsFiniteSet(Names)
    BY FileConstants DEF D!DirStreamConstants
  <2> QED BY <2>1 DEF D!IsFiniteSet, IsFiniteSet
<1> QED BY <1>1, FileConstants DEF D!DirStreamConstants, D!Fds, DirEntry, DotNames

LEMMA NoDirIs ==
  /\ D!NoDir \in DirState /\ D!NoDir.st = "none" /\ D!NoDir.fd = Closed /\ D!NoDir.dot = 0
  /\ D!NoDir.pending = <<>> /\ D!NoDir.end = FALSE
<1>1. <<>> \in Seq(Names)
  BY NoValues
<1> QED BY <1>1 DEF D!NoDir, DirState

LEMMA NewFileIs ==
  ASSUME NEW n \in D!Fds, NEW by \in {"opendir", "fdopendir"}, NEW named \in BOOLEAN
  PROVE  LET s == D!NewFile(n, by, named) IN
           /\ s \in DirState /\ s.st = "bare" /\ s.fd = n /\ s.dot = 0
           /\ s.pending = <<>> /\ s.end = FALSE
<1>1. D!NewFile(n, by, named) =
        [D!NoDir EXCEPT !.st = "bare", !.by = by, !.fd = n, !.named = named]
  BY DEF D!NewFile
<1> DEFINE s == D!NewFile(n, by, named)
<1>2. /\ s.st = "bare" /\ s.fd = n /\ s.dot = D!NoDir.dot
      /\ s.pending = D!NoDir.pending /\ s.end = D!NoDir.end
  BY <1>1, NoDirIs DEF DirState
<1>3. s \in DirState
  BY <1>1, NoDirIs DEF DirState
<1> QED BY <1>2, <1>3, NoDirIs

LEMMA DirLeastFree ==
  ASSUME NEW low \in Nat, D!FreeFrom(low) # {}
  PROVE  /\ D!LowestFrom(low) \in D!Fds /\ D!LowestFrom(low) >= low
         /\ fdtD[D!LowestFrom(low)] = Closed
<1>1. D!FreeFrom(low) \subseteq Nat
  BY DirFacts DEF D!FreeFrom
<1>2. \E x \in D!FreeFrom(low) : \A y \in D!FreeFrom(low) : x <= y
  BY <1>1, Least
<1>3. D!LowestFrom(low) \in D!FreeFrom(low)
  BY <1>2 DEF D!LowestFrom
<1> QED BY <1>3 DEF D!FreeFrom

LEMMA NewlyOpen ==
  ASSUME DirTables, NEW d \in Dirs \cup {Plain}
  PROVE  /\ D!File(d) \in DirEntry /\ D!File(d).node = d /\ D!File(d).passed = {}
         /\ d \in Dirs => D!File(d).left = content[d]
BY DEF D!File, DirEntry, DirTables

\* A stream that is left alone.
LEMMA LeftAlone ==
  ASSUME NEW c \in Carriers, Shape(c), Reading(c),
         dir'[c] = dir[c], got'[c] = got[c], must'[c] = must[c],
         dir[c].fd # Closed => fdtD'[dir[c].fd] = fdtD[dir[c].fd]
  PROVE  Shape(c)' /\ Reading(c)'
<1>1. Shape(c)'
  BY DEF Shape
<1>2. DotsFirst(c) => DotsFirst(c)'
  BY DEF DotsFirst
<1>3. ASSUME dir[c].fd # Closed
      PROVE  (Once(c) => Once(c)') /\ (AllAlong(c) => AllAlong(c)')
  <2>1. fdtD'[dir'[c].fd] = fdtD[dir[c].fd]
    BY <1>3
  <2> QED BY <2>1 DEF Once, AllAlong
<1>4. dir[c].st \in {"bare", "open"} => dir[c].fd # Closed
  BY DEF Shape
<1> QED BY <1>1, <1>2, <1>3, <1>4 DEF Reading

\* A reading that begins.
LEMMA FirstRead ==
  ASSUME NEW c \in Carriers, DirTables', dir'[c].st \in {"bare", "open"}, dir'[c].fd \in D!Fds,
         dir'[c].dot = 0, dir'[c].pending = <<>>, dir'[c].end = FALSE,
         got'[c] = <<>>, must'[c] \subseteq fdtD'[dir'[c].fd].left
  PROVE  Shape(c)' /\ Reading(c)'
<1>1. Shape(c)'
  BY DirFacts, NoValues DEF Shape
<1>2. DotsFirst(c)'
  BY NoValues DEF DotsFirst
<1>3. Once(c)'
  BY NoValues DEF Once
<1>4. AllAlong(c)'
  BY DEF AllAlong
<1> QED BY <1>1, <1>2, <1>3, <1>4 DEF Reading

\* A carrier without a stream.
LEMMA NoStream ==
  ASSUME NEW c \in Carriers, dir'[c].st \in {"none", "retired"}, dir'[c].fd = Closed,
         dir'[c].pending = <<>>
  PROVE  Shape(c)' /\ Reading(c)'
BY DirFacts, NoValues DEF Shape, Reading

\* Nothing changes hands.
LEMMA SameOwners ==
  ASSUME \A n \in D!Fds : DirOwner(n), ownD' = ownD, stdin' = stdin,
         \A n \in D!Fds : /\ fdtD'[n] = Closed <=> fdtD[n] = Closed
                          /\ fdtD[n] # Closed => fdtD'[n].node = fdtD[n].node,
         \A c \in Carriers : dir'[c].fd = dir[c].fd
  PROVE  \A n \in D!Fds : DirOwner(n)'
<1>1. \A n \in D!Fds : n \in D!Std' <=> n \in D!Std
  BY DEF D!Std
<1> QED BY <1>1 DEF DirOwner

-----------------------------------------------------------------------------
(* Directory streams: the steps.                                           *)

\* A call on the stream of c.
LEMMA StreamStep ==
  ASSUME DirInv, NEW c \in Carriers, DirTables', \A n \in D!Fds : DirOwner(n)',
         Shape(c)', Reading(c)',
         \A d \in Carriers \ {c} : /\ dir'[d] = dir[d] /\ got'[d] = got[d] /\ must'[d] = must[d]
                                   /\ dir[d].fd # Closed => fdtD'[dir[d].fd] = fdtD[dir[d].fd]
  PROVE  DirInv'
<1>1. ASSUME NEW d \in Carriers PROVE Shape(d)' /\ Reading(d)'
  <2>1. CASE d = c
    BY <2>1
  <2>2. CASE d # c
    BY <2>2, LeftAlone DEF DirInv
  <2> QED BY <2>1, <2>2
<1> QED BY <1>1 DEF DirInv

\* A number that was free becomes the stream's, and the one it had is closed.
LEMMA NewNumber ==
  ASSUME DirInv, NEW c \in Carriers, NEW n \in D!Fds, fdtD[n] = Closed,
         fdtD'[n] # Closed, fdtD'[n].node \in Dirs,
         ownD' = ownD, stdin' = stdin, dir'[c].fd = n,
         \A d \in Carriers \ {c} : dir'[d].fd = dir[d].fd,
         \A m \in D!Fds : m # n => fdtD'[m] = IF dir[c].fd = m THEN Closed ELSE fdtD[m]
  PROVE  /\ \A m \in D!Fds : DirOwner(m)'
         /\ \A d \in Carriers \ {c} :
              dir[d].fd \in D!Fds => fdtD'[dir[d].fd] = fdtD[dir[d].fd]
<1>1. \A m \in D!Fds : DirOwner(m)
  BY DEF DirInv
<1>2. \A m \in D!Fds : m \in D!Std' <=> m \in D!Std
  BY DEF D!Std
<1>3. n \notin ownD /\ n \notin D!Std /\ \A d \in Carriers : dir[d].fd # n
  BY <1>1 DEF DirOwner
<1>4. ASSUME NEW m \in D!Fds PROVE DirOwner(m)'
  <2>1. CASE m = n
    BY <1>2, <1>3, <2>1 DEF DirOwner
  <2>2. CASE m # n /\ dir[c].fd = m
    <3>1. /\ m \notin ownD /\ m \notin D!Std /\ fdtD'[m] = Closed
          /\ \A d \in Carriers : dir'[d].fd # m
      BY <1>1, <2>2 DEF DirOwner
    <3> QED BY <1>2, <3>1 DEF DirOwner
  <2>3. CASE m # n /\ dir[c].fd # m
    <3>1. fdtD'[m] = fdtD[m] /\ \A d \in Carriers : dir'[d].fd = m <=> dir[d].fd = m
      BY <2>3
    <3> QED BY <1>1, <1>2, <3>1 DEF DirOwner
  <2> QED BY <2>1, <2>2, <2>3
<1>5. ASSUME NEW d \in Carriers \ {c}, dir[d].fd \in D!Fds
      PROVE  fdtD'[dir[d].fd] = fdtD[dir[d].fd]
  <2>1. dir[d].fd # n /\ dir[d].fd # dir[c].fd
    BY <1>1, <1>3, <1>5 DEF DirOwner
  <2> QED BY <1>5, <2>1
<1> QED BY <1>4, <1>5

\* A stream gives up its number.
LEMMA NumberClosed ==
  ASSUME DirInv, NEW c \in Carriers, dir[c].fd \in D!Fds,
         ownD' = ownD, stdin' = stdin, dir'[c].fd = Closed,
         \A d \in Carriers \ {c} : dir'[d].fd = dir[d].fd,
         \A m \in D!Fds : fdtD'[m] = IF dir[c].fd = m THEN Closed ELSE fdtD[m]
  PROVE  /\ \A m \in D!Fds : DirOwner(m)'
         /\ \A d \in Carriers \ {c} :
              dir[d].fd \in D!Fds => fdtD'[dir[d].fd] = fdtD[dir[d].fd]
<1>1. \A m \in D!Fds : DirOwner(m)
  BY DEF DirInv
<1>2. \A m \in D!Fds : m \in D!Std' <=> m \in D!Std
  BY DEF D!Std
<1>3. Closed \notin D!Fds
  BY DirFacts
<1>4. ASSUME NEW m \in D!Fds PROVE DirOwner(m)'
  <2>1. CASE dir[c].fd = m
    <3>1. /\ m \notin ownD /\ m \notin D!Std /\ fdtD'[m] = Closed
          /\ \A d \in Carriers : dir'[d].fd # m
      BY <1>1, <1>3, <2>1 DEF DirOwner
    <3> QED BY <1>2, <3>1 DEF DirOwner
  <2>2. CASE dir[c].fd # m
    <3>1. fdtD'[m] = fdtD[m] /\ \A d \in Carriers : dir'[d].fd = m <=> dir[d].fd = m
      BY <1>3, <2>2
    <3> QED BY <1>1, <1>2, <3>1 DEF DirOwner
  <2> QED BY <2>1, <2>2
<1>5. ASSUME NEW d \in Carriers \ {c}, dir[d].fd \in D!Fds
      PROVE  fdtD'[dir[d].fd] = fdtD[dir[d].fd]
  <2>1. dir[d].fd # dir[c].fd
    BY <1>1, <1>5 DEF DirOwner
  <2> QED BY <1>5, <2>1
<1> QED BY <1>4, <1>5

LEMMA OpenDirKeeps ==
  ASSUME DirInv, NEW c \in Carriers, D!OpenDir(c)
  PROVE  DirInv'
<1> DEFINE s == D!NewFile(D!LowestFrom(0), "opendir", TRUE)
<1>1. DirTables /\ Shape(c)
  BY DEF DirInv
<1>2. D!LowestFrom(0) \in D!Fds /\ fdtD[D!LowestFrom(0)] = Closed
  BY DirLeastFree DEF D!OpenDir
<1> PICK n \in D!Fds : n = D!LowestFrom(0)
  BY <1>2
<1>3. /\ s \in DirState /\ s.st = "bare" /\ s.fd = n /\ s.dot = 0
      /\ s.pending = <<>> /\ s.end = FALSE
  BY NewFileIs
<1>4. path \in Dirs
  BY <1>1 DEF D!OpenDir, DirTables
<1>5. /\ D!File(path) \in DirEntry /\ D!File(path).node = path
      /\ D!File(path).left = content[path]
  BY <1>1, <1>4, NewlyOpen
<1> PICK e \in DirEntry : e = D!File(path)
  BY <1>5
<1>6. /\ fdtD' = [fdtD EXCEPT ![n] = e] /\ dir' = [dir EXCEPT ![c] = s]
      /\ got' = [got EXCEPT ![c] = <<>>] /\ must' = [must EXCEPT ![c] = content[path]]
      /\ UNCHANGED <<content, path, changes, ownD, stdin>> /\ dir[c].st = "none"
  BY DEF D!OpenDir, D!Begins, D!fs
<1> HIDE DEF s
<1>7. /\ fdtD'[n] = e /\ e.node \in Dirs /\ e.left = content[path] /\ e # Closed
      /\ fdtD[n] = Closed /\ \A m \in D!Fds : m # n => fdtD'[m] = fdtD[m]
      /\ dir'[c] = s /\ got'[c] = <<>> /\ must'[c] = content[path]
      /\ \A d \in Carriers \ {c} : dir'[d] = dir[d] /\ got'[d] = got[d] /\ must'[d] = must[d]
  BY <1>1, <1>2, <1>4, <1>5, <1>6, DirFacts DEF DirTables
<1>8. DirTables'
  <2>1. <<>> \in Seq(Names \cup DotNames)
    BY NoValues
  <2> QED BY <1>1, <1>3, <1>4, <1>6, <2>1 DEF DirTables
<1>9. dir[c].fd = Closed
  BY <1>1, <1>6 DEF Shape
<1>10. /\ \A m \in D!Fds : DirOwner(m)'
       /\ \A d \in Carriers \ {c} : dir[d].fd \in D!Fds => fdtD'[dir[d].fd] = fdtD[dir[d].fd]
  BY <1>3, <1>6, <1>7, <1>9, DirFacts, NewNumber
<1>11. Shape(c)' /\ Reading(c)'
  BY <1>3, <1>7, <1>8, FirstRead
<1>12. \A d \in Carriers : dir[d].fd # Closed => dir[d].fd \in D!Fds
  BY <1>1 DEF DirTables, DirState
<1> QED BY <1>7, <1>8, <1>10, <1>11, <1>12, StreamStep

LEMMA FdOpenDirKeeps ==
  ASSUME DirInv, NEW c \in Carriers, NEW n \in ownD, D!FdOpenDir(c, n)
  PROVE  DirInv'
<1>1. DirTables /\ Shape(c) /\ n \in D!Fds /\ \A m \in D!Fds : DirOwner(m)
  BY DEF DirInv, DirTables
<1>2. PICK named \in {path = fdtD[n].node, FALSE} :
        dir' = [dir EXCEPT ![c] = D!NewFile(n, "fdopendir", named)]
  BY DEF D!FdOpenDir
<1> DEFINE s == D!NewFile(n, "fdopendir", named)
<1>3. /\ s \in DirState /\ s.st = "bare" /\ s.fd = n /\ s.dot = 0
      /\ s.pending = <<>> /\ s.end = FALSE
  BY <1>1, NewFileIs, ZenonT(60)
<1>4. /\ dir' = [dir EXCEPT ![c] = s] /\ ownD' = ownD \ {n}
      /\ got' = [got EXCEPT ![c] = <<>>] /\ must' = [must EXCEPT ![c] = fdtD[n].left]
      /\ UNCHANGED <<content, path, changes, fdtD, stdin>> /\ dir[c].st = "none"
      /\ fdtD[n].node \in Dirs
  BY <1>2 DEF D!FdOpenDir, D!Begins, D!fs
<1> HIDE DEF s
<1>5. fdtD[n] \in DirEntry /\ fdtD[n].left \in SUBSET Names
  BY <1>1 DEF DirOwner, DirTables, DirEntry
<1>6. DirTables'
  <2>1. <<>> \in Seq(Names \cup DotNames)
    BY NoValues
  <2> QED BY <1>1, <1>3, <1>4, <1>5, <2>1 DEF DirTables
<1>7. /\ dir'[c] = s /\ got'[c] = <<>> /\ must'[c] = fdtD[n].left
      /\ \A d \in Carriers \ {c} : dir'[d] = dir[d] /\ got'[d] = got[d] /\ must'[d] = must[d]
  BY <1>1, <1>4 DEF DirTables
<1>8. dir[c].fd = Closed
  BY <1>1, <1>4 DEF Shape
<1>9. ASSUME NEW m \in D!Fds PROVE DirOwner(m)'
  <2>1. m \in D!Std' <=> m \in D!Std
    BY <1>4 DEF D!Std
  <2>2. CASE m = n
    <3>1. n \notin D!Std /\ \A d \in Carriers : dir[d].fd # n
      BY <1>1 DEF DirOwner
    <3> QED BY <1>1, <1>3, <1>4, <1>5, <1>7, <2>1, <2>2, <3>1, DirFacts DEF DirOwner
  <2>3. CASE m # n
    <3>1. /\ m \in ownD' <=> m \in ownD
          /\ \A d \in Carriers : dir'[d].fd = m <=> dir[d].fd = m
      BY <1>3, <1>4, <1>7, <1>8, <2>3, DirFacts
    <3> QED BY <1>1, <1>4, <2>1, <3>1 DEF DirOwner
  <2> QED BY <2>2, <2>3
<1>10. Shape(c)' /\ Reading(c)'
  BY <1>1, <1>3, <1>4, <1>6, <1>7, FirstRead
<1> QED BY <1>4, <1>6, <1>7, <1>9, <1>10, StreamStep

\* The kernel's descriptor and the streams' numbers stay what they are.
LEMMA QuietStep ==
  ASSUME DirInv, NEW c \in Carriers, DirTables', Shape(c)', Reading(c)',
         fdtD' = fdtD, ownD' = ownD, stdin' = stdin, dir'[c].fd = dir[c].fd,
         \A d \in Carriers \ {c} : dir'[d] = dir[d] /\ got'[d] = got[d] /\ must'[d] = must[d]
  PROVE  DirInv'
<1>1. \A n \in D!Fds : DirOwner(n)
  BY DEF DirInv
<1>2. \A d \in Carriers : dir'[d].fd = dir[d].fd
  OBVIOUS
<1>3. \A n \in D!Fds : DirOwner(n)'
  BY <1>1, <1>2, SameOwners
<1> QED BY <1>3, StreamStep

LEMMA NewCarrierKeeps ==
  ASSUME DirInv, NEW c \in Carriers, D!NewCarrier(c)
  PROVE  DirInv'
<1>1. DirTables /\ Shape(c) /\ Reading(c)
  BY DEF DirInv
<1>2. /\ dir' = [dir EXCEPT ![c].st = "open"] /\ dir[c].st = "bare"
      /\ UNCHANGED <<content, path, changes, fdtD, ownD, stdin, got, must>>
  BY DEF D!NewCarrier, D!fs
<1>3. /\ dir'[c].st = "open" /\ dir'[c].fd = dir[c].fd /\ dir'[c].dot = dir[c].dot
      /\ dir'[c].pending = dir[c].pending /\ dir'[c].end = dir[c].end /\ dir'[c] \in DirState
      /\ \A d \in Carriers \ {c} : dir'[d] = dir[d]
  BY <1>1, <1>2 DEF DirTables, DirState
<1>4. DirTables'
  BY <1>1, <1>2, <1>3 DEF DirTables
<1>5. Shape(c)'
  BY <1>1, <1>2, <1>3 DEF Shape
<1>6. DotsFirst(c) /\ Once(c) /\ AllAlong(c)
  BY <1>1, <1>2 DEF Reading
<1>7. DotsFirst(c)' /\ Once(c)' /\ AllAlong(c)'
  BY <1>2, <1>3, <1>6 DEF DotsFirst, Once, AllAlong
<1> QED BY <1>2, <1>3, <1>4, <1>5, <1>7, QuietStep DEF Reading

\* closedir, a carrier that did not fit, and the finalizer.
LEMMA GivesUp ==
  ASSUME DirInv, NEW c \in Carriers, dir[c].st \in {"bare", "open", "dropped"},
         fdtD' = [fdtD EXCEPT ![dir[c].fd] = Closed],
         NEW s \in DirState, dir' = [dir EXCEPT ![c] = s],
         s.st \in {"none", "retired"}, s.fd = Closed, s.pending = <<>>,
         UNCHANGED <<content, path, changes, ownD, stdin, got, must>>
  PROVE  DirInv'
<1>1. DirTables /\ Shape(c) /\ \A d \in Carriers : dir[d].fd \in D!Fds \cup {Closed}
  BY DEF DirInv, DirTables, DirState
<1> PICK n \in D!Fds : n = dir[c].fd
  BY <1>1 DEF Shape
<1>2. /\ dir'[c] = s /\ \A d \in Carriers \ {c} : dir'[d] = dir[d]
      /\ \A m \in D!Fds : fdtD'[m] = IF dir[c].fd = m THEN Closed ELSE fdtD[m]
  BY <1>1 DEF DirTables
<1>3. DirTables'
  BY <1>1 DEF DirTables
<1>4. /\ \A m \in D!Fds : DirOwner(m)'
      /\ \A d \in Carriers \ {c} : dir[d].fd \in D!Fds => fdtD'[dir[d].fd] = fdtD[dir[d].fd]
  BY <1>2, NumberClosed
<1>5. Shape(c)' /\ Reading(c)'
  BY <1>2, NoStream
<1> QED BY <1>1, <1>2, <1>3, <1>4, <1>5, StreamStep

LEMMA NoCarrierKeeps ==
  ASSUME DirInv, NEW c \in Carriers, D!NoCarrier(c)
  PROVE  DirInv'
<1>1. /\ dir[c].st = "bare" /\ fdtD' = [fdtD EXCEPT ![dir[c].fd] = Closed]
      /\ dir' = [dir EXCEPT ![c] = D!NoDir]
      /\ UNCHANGED <<content, path, changes, ownD, stdin, got, must>>
  BY DEF D!NoCarrier, D!fs
<1> QED BY <1>1, NoDirIs, GivesUp

LEMMA CloseDirKeeps ==
  ASSUME DirInv, NEW c \in Carriers, D!CloseDir(c)
  PROVE  DirInv'
<1> DEFINE s == IF c \in Managed THEN [D!NoDir EXCEPT !.st = "retired"] ELSE D!NoDir
<1>1. /\ dir[c].st = "open" /\ fdtD' = [fdtD EXCEPT ![dir[c].fd] = Closed]
      /\ dir' = [dir EXCEPT ![c] = s]
      /\ UNCHANGED <<content, path, changes, ownD, stdin, got, must>>
  BY DEF D!CloseDir, D!fs
<1>2. s \in DirState /\ s.st \in {"none", "retired"} /\ s.fd = Closed /\ s.pending = <<>>
  BY NoDirIs DEF DirState
<1> HIDE DEF s
<1> QED BY <1>1, <1>2, GivesUp

LEMMA FinalizeKeeps ==
  ASSUME DirInv, NEW c \in Carriers, D!Finalize(c)
  PROVE  DirInv'
<1>1. /\ dir[c].st = "dropped" /\ fdtD' = [fdtD EXCEPT ![dir[c].fd] = Closed]
      /\ dir' = [dir EXCEPT ![c] = D!NoDir]
      /\ UNCHANGED <<content, path, changes, ownD, stdin, got, must>>
  BY DEF D!Finalize, D!fs
<1> QED BY <1>1, NoDirIs, GivesUp

LEMMA ForgetKeeps ==
  ASSUME DirInv, NEW c \in Carriers, D!Forget(c)
  PROVE  DirInv'
<1>1. DirTables /\ Shape(c)
  BY DEF DirInv
<1>2. /\ dir' = [dir EXCEPT ![c] = IF @.st = "open" THEN [@ EXCEPT !.st = "dropped"] ELSE D!NoDir]
      /\ dir[c].st \in {"open", "retired"}
      /\ UNCHANGED <<content, path, changes, fdtD, ownD, stdin, got, must>>
  BY DEF D!Forget, D!fs
<1>3. \A d \in Carriers \ {c} : dir'[d] = dir[d]
  BY <1>1, <1>2 DEF DirTables
<1>4. CASE dir[c].st = "open"
  <2>1. dir' = [dir EXCEPT ![c] = [dir[c] EXCEPT !.st = "dropped"]]
    BY <1>1, <1>2, <1>4 DEF DirTables
  <2>2. /\ dir'[c].st = "dropped" /\ dir'[c].fd = dir[c].fd /\ dir'[c] \in DirState
        /\ dir'[c].pending = dir[c].pending
    BY <1>1, <2>1 DEF DirTables, DirState
  <2>3. DirTables'
    BY <1>1, <1>2, <2>1, <2>2 DEF DirTables
  <2>4. Shape(c)' /\ Reading(c)'
    BY <1>1, <1>4, <2>2 DEF Shape, Reading
  <2> QED BY <1>2, <1>3, <2>2, <2>3, <2>4, QuietStep
<1>5. CASE dir[c].st = "retired"
  <2>1. dir' = [dir EXCEPT ![c] = D!NoDir]
    BY <1>1, <1>2, <1>5 DEF DirTables
  <2>2. dir'[c] = D!NoDir
    BY <1>1, <2>1 DEF DirTables
  <2>3. DirTables'
    BY <1>1, <1>2, <2>1, NoDirIs DEF DirTables
  <2>4. Shape(c)' /\ Reading(c)'
    BY <2>2, NoDirIs, NoStream
  <2>5. dir'[c].fd = dir[c].fd
    BY <1>1, <1>5, <2>2, NoDirIs DEF Shape
  <2> QED BY <1>2, <1>3, <2>3, <2>4, <2>5, QuietStep
<1> QED BY <1>2, <1>4, <1>5

LEMMA RewindKeeps ==
  ASSUME DirInv, NEW c \in Carriers, D!Rewind(c)
  PROVE  DirInv'
<1>1. /\ DirTables /\ Shape(c) /\ \A m \in D!Fds : DirOwner(m)
      /\ \A d \in Carriers : dir[d].fd \in D!Fds \cup {Closed}
  BY DEF DirInv, DirTables, DirState
<1>2. D!LowestFrom(0) \in D!Fds /\ fdtD[D!LowestFrom(0)] = Closed
  BY DirLeastFree DEF D!Rewind
<1> PICK n \in D!Fds : n = D!LowestFrom(0)
  BY <1>2
<1>3. path \in Dirs
  BY <1>1 DEF D!Rewind, DirTables
<1>4. /\ D!File(path) \in DirEntry /\ D!File(path).node = path
      /\ D!File(path).left = content[path]
  BY <1>1, <1>3, NewlyOpen
<1> PICK e \in DirEntry : e = D!File(path)
  BY <1>4
<1>5. /\ fdtD' = [fdtD EXCEPT ![n] = e, ![dir[c].fd] = Closed]
      /\ dir' = [dir EXCEPT ![c].fd = n, ![c].dot = 0, ![c].pending = <<>>, ![c].end = FALSE]
      /\ got' = [got EXCEPT ![c] = <<>>] /\ must' = [must EXCEPT ![c] = content[path]]
      /\ UNCHANGED <<content, path, changes, ownD, stdin>> /\ dir[c].st = "open"
  BY DEF D!Rewind, D!Begins, D!fs
<1> PICK m \in D!Fds : m = dir[c].fd
  BY <1>1, <1>5 DEF Shape
<1>6. m # n
  BY <1>1, <1>2 DEF DirOwner
<1>7. /\ fdtD'[n] = e /\ fdtD'[m] = Closed /\ e # Closed
      /\ \A k \in D!Fds : k # n => fdtD'[k] = IF dir[c].fd = k THEN Closed ELSE fdtD[k]
  BY <1>1, <1>5, <1>6, DirFacts DEF DirTables
<1>8. <<>> \in Seq(Names) /\ <<>> \in Seq(Names \cup DotNames)
  BY NoValues
<1>9. /\ dir'[c].st = "open" /\ dir'[c].fd = n /\ dir'[c].dot = 0 /\ dir'[c].pending = <<>>
      /\ dir'[c].end = FALSE
      /\ \A d \in Carriers \ {c} : dir'[d] = dir[d]
  BY <1>1, <1>5 DEF DirTables, DirState
<1>10. dir' \in [Carriers -> DirState]
  <2>1. dir[c] \in DirState
    BY <1>1 DEF DirTables
  <2>2. dir'[c] = [dir[c] EXCEPT !.fd = n, !.dot = 0, !.pending = <<>>, !.end = FALSE]
    BY <1>1, <1>5 DEF DirTables
  <2>3. dir'[c] \in DirState
    <3>1. 0 \in 0 .. 2 /\ FALSE \in BOOLEAN
      OBVIOUS
    <3> QED BY <1>8, <2>1, <2>2, <3>1 DEF DirState
  <2> QED BY <1>1, <1>5, <1>9, <2>3 DEF DirTables
<1>11. /\ got'[c] = <<>> /\ must'[c] = content[path]
       /\ \A d \in Carriers \ {c} : got'[d] = got[d] /\ must'[d] = must[d]
  BY <1>1, <1>5 DEF DirTables
<1>12. DirTables'
  BY <1>1, <1>3, <1>5, <1>8, <1>10 DEF DirTables
<1>13. /\ \A k \in D!Fds : DirOwner(k)'
       /\ \A d \in Carriers \ {c} : dir[d].fd \in D!Fds => fdtD'[dir[d].fd] = fdtD[dir[d].fd]
  <2>1. fdtD[n] = Closed /\ fdtD'[n] # Closed /\ fdtD'[n].node \in Dirs
    BY <1>2, <1>3, <1>4, <1>7
  <2>2. ownD' = ownD /\ stdin' = stdin /\ dir'[c].fd = n
        /\ \A d \in Carriers \ {c} : dir'[d].fd = dir[d].fd
    BY <1>5, <1>9
  <2> QED BY <1>7, <2>1, <2>2, NewNumber
<1>14. Shape(c)' /\ Reading(c)'
  BY <1>4, <1>7, <1>9, <1>11, <1>12, FirstRead, ZenonT(60)
<1> QED BY <1>1, <1>9, <1>11, <1>12, <1>13, <1>14, StreamStep

LEMMA ReadDotKeeps ==
  ASSUME DirInv, NEW c \in Carriers, D!ReadDot(c)
  PROVE  DirInv'
<1> DEFINE name == IF dir[c].dot = 0 THEN "." ELSE ".."
<1>1. DirTables /\ Shape(c) /\ Reading(c)
  BY DEF DirInv
<1>2. /\ dir' = [dir EXCEPT ![c].dot = @ + 1] /\ dir[c].st = "open" /\ dir[c].dot < 2
      /\ got' = [got EXCEPT ![c] = Append(@, name)]
      /\ must' = [must EXCEPT ![c] = @ \ {name}]
      /\ UNCHANGED <<content, path, changes, fdtD, ownD, stdin>>
  BY DEF D!ReadDot, D!Returns, D!fs, D!Dot, D!DotDot
<1>3. DotsFirst(c) /\ Once(c) /\ AllAlong(c)
  BY <1>1, <1>2 DEF Reading
<1>4. dir[c] \in DirState /\ dir[c].dot \in {0, 1}
  BY <1>1, <1>2 DEF DirTables, DirState
<1> DEFINE g == got[c]
<1>5. /\ g \in Seq(Names \cup DotNames) /\ Distinct(g) /\ Len(g) = dir[c].dot
      /\ (Len(g) > 0 => g[1] = ".") /\ dir[c].pending = <<>>
  BY <1>1, <1>2, <1>3 DEF DirTables, DotsFirst, Once
<1>6. name \in DotNames /\ name \notin Values(g)
  <2>1. "." # ".."
    OBVIOUS
  <2>2. CASE dir[c].dot = 0
    BY <1>5, <2>2 DEF Values, DotNames
  <2>3. CASE dir[c].dot = 1
    BY <1>5, <2>1, <2>3 DEF Values, DotNames
  <2> QED BY <1>4, <2>2, <2>3
<1>7. (dir[c].dot = 0 => name = ".") /\ (dir[c].dot = 1 => name = "..")
  OBVIOUS
<1> PICK x \in DotNames : x = name
  BY <1>6
<1> HIDE DEF name
<1>8. /\ dir'[c].st = "open" /\ dir'[c].fd = dir[c].fd /\ dir'[c].dot = dir[c].dot + 1
      /\ dir'[c].pending = dir[c].pending /\ dir'[c].end = dir[c].end
      /\ \A d \in Carriers \ {c} : dir'[d] = dir[d]
  BY <1>1, <1>2 DEF DirTables, DirState
<1>9. dir' \in [Carriers -> DirState]
  <2>1. dir[c].dot + 1 \in 0 .. 2
    BY <1>4
  <2>2. [dir[c] EXCEPT !.dot = dir[c].dot + 1] \in DirState
    BY <1>4, <2>1 DEF DirState
  <2>3. dir \in [Carriers -> DirState]
    BY <1>1 DEF DirTables
  <2>4. dir' = [dir EXCEPT ![c] = [dir[c] EXCEPT !.dot = dir[c].dot + 1]]
    BY <1>2
  <2> QED BY <2>2, <2>3, <2>4
<1>10. /\ got'[c] = Append(g, x) /\ must'[c] = must[c] \ {x}
       /\ \A d \in Carriers \ {c} : got'[d] = got[d] /\ must'[d] = must[d]
  BY <1>1, <1>2 DEF DirTables
<1>11. /\ Append(g, x) \in Seq(Names \cup DotNames) /\ Distinct(Append(g, x))
       /\ Len(g) \in Nat /\ Len(Append(g, x)) = Len(g) + 1
       /\ \A i \in 1 .. Len(g) : Append(g, x)[i] = g[i]
       /\ Append(g, x)[Len(g) + 1] = x
       /\ Values(Append(g, x)) = Values(g) \cup {x}
  <2>1. x \in Names \cup DotNames
    OBVIOUS
  <2> HIDE DEF g
  <2> QED BY <1>5, <1>6, <2>1, OneMore
<1>12. DirTables'
  BY <1>1, <1>2, <1>9, <1>11 DEF DirTables
<1> HIDE DEF g
<1>13. Shape(c)'
  BY <1>1, <1>2, <1>8 DEF Shape
<1>14. DotsFirst(c)'
  <2>1. CASE dir[c].dot = 0
    <3>1. Len(got'[c]) = 1 /\ got'[c][1] = "." /\ dir'[c].dot = 1
      BY <1>5, <1>7, <1>8, <1>10, <1>11, <2>1
    <3> QED BY <1>5, <1>8, <3>1 DEF DotsFirst
  <2>2. CASE dir[c].dot = 1
    <3>1. Len(got'[c]) = 2 /\ got'[c][1] = "." /\ got'[c][2] = ".." /\ dir'[c].dot = 2
      BY <1>5, <1>7, <1>8, <1>10, <1>11, <2>2
    <3> QED BY <3>1 DEF DotsFirst
  <2> QED BY <1>4, <2>1, <2>2
<1>15. Once(c)'
  <2>1. Values(dir'[c].pending) = {} /\ Distinct(dir'[c].pending)
    BY <1>5, <1>8, NoValues
  <2>2. Values(g) \subseteq DotNames \cup fdtD[dir[c].fd].passed
    BY <1>3 DEF Once, g
  <2> QED BY <1>2, <1>8, <1>10, <1>11, <2>1, <2>2 DEF Once
<1>16. AllAlong(c)'
  BY <1>2, <1>3, <1>8, <1>10 DEF AllAlong
<1> QED BY <1>2, <1>8, <1>10, <1>12, <1>13, <1>14, <1>15, <1>16, QuietStep DEF Reading

LEMMA ReadPendingKeeps ==
  ASSUME DirInv, NEW c \in Carriers, D!ReadPending(c)
  PROVE  DirInv'
<1> DEFINE g == got[c]  s == dir[c].pending
<1>1. DirTables /\ Shape(c) /\ Reading(c)
  BY DEF DirInv
<1>2. /\ dir' = [dir EXCEPT ![c].pending = Tail(@)] /\ dir[c].st = "open"
      /\ dir[c].dot = 2 /\ s # <<>>
      /\ got' = [got EXCEPT ![c] = Append(@, Head(s))]
      /\ must' = [must EXCEPT ![c] = @ \ {Head(s)}]
      /\ UNCHANGED <<content, path, changes, fdtD, ownD, stdin>>
  BY DEF D!ReadPending, D!Returns, D!fs
<1>3. DotsFirst(c) /\ Once(c) /\ AllAlong(c)
  BY <1>1, <1>2 DEF Reading
<1>4. /\ g \in Seq(Names \cup DotNames) /\ Distinct(g) /\ s \in Seq(Names) /\ Distinct(s)
      /\ Values(g) \cap Values(s) = {}
      /\ Values(g) \subseteq DotNames \cup fdtD[dir[c].fd].passed
      /\ Values(s) \subseteq fdtD[dir[c].fd].passed
  BY <1>1, <1>3 DEF DirTables, DirState, Once
<1>5. Len(g) \in Nat /\ Len(g) >= 2 /\ g[1] = "." /\ g[2] = ".."
  <2>1. Len(g) \in Nat
    BY <1>4, ValuesOf
  <2>2. dir[c].dot <= Len(g)
    BY <1>3 DEF DotsFirst
  <2>3. Len(g) >= 2
    BY <1>2, <2>1, <2>2
  <2> QED BY <1>3, <2>1, <2>3 DEF DotsFirst
<1> HIDE DEF g, s
<1>6. /\ Head(s) \in Names /\ Head(s) \in Values(s) /\ Tail(s) \in Seq(Names)
      /\ Distinct(Tail(s)) /\ Len(s) \in Nat /\ Len(Tail(s)) = Len(s) - 1
      /\ Values(Tail(s)) = Values(s) \ {Head(s)}
  BY <1>2, <1>4, OneLess
<1> PICK x \in Names : x = Head(s)
  BY <1>6
<1>7. /\ Append(g, x) \in Seq(Names \cup DotNames) /\ Distinct(Append(g, x))
      /\ Len(Append(g, x)) = Len(g) + 1
      /\ \A i \in 1 .. Len(g) : Append(g, x)[i] = g[i]
      /\ Values(Append(g, x)) = Values(g) \cup {x}
  <2>1. x \in Names \cup DotNames /\ x \notin Values(g)
    BY <1>4, <1>6
  <2> QED BY <1>4, <2>1, OneMore
<1>8. /\ dir'[c].st = "open" /\ dir'[c].fd = dir[c].fd /\ dir'[c].dot = 2
      /\ dir'[c].pending = Tail(s) /\ dir'[c].end = dir[c].end
      /\ \A d \in Carriers \ {c} : dir'[d] = dir[d]
      /\ dir' \in [Carriers -> DirState]
  BY <1>1, <1>2, <1>6, ZenonT(60) DEF DirTables, DirState, s
<1>9. /\ got'[c] = Append(g, x) /\ must'[c] = must[c] \ {x}
      /\ \A d \in Carriers \ {c} : got'[d] = got[d] /\ must'[d] = must[d]
  BY <1>1, <1>2 DEF DirTables, g
<1>10. DirTables'
  BY <1>1, <1>2, <1>7, <1>8 DEF DirTables, g
<1>11. Shape(c)'
  <2>1. Len(s) < Batch /\ Len(Tail(s)) < Batch
    BY <1>1, <1>6, DirFacts DEF Shape, s
  <2> QED BY <1>1, <1>2, <1>8, <2>1 DEF Shape
<1>12. DotsFirst(c)'
  <2>1. got'[c][1] = "." /\ got'[c][2] = ".."
    BY <1>5, <1>7, <1>9
  <2> QED BY <1>5, <1>7, <1>8, <1>9, <2>1 DEF DotsFirst
<1>13. Once(c)'
  <2>1. Values(g) \cup {x} \subseteq DotNames \cup fdtD[dir[c].fd].passed
    BY <1>4, <1>6
  <2>2. (Values(g) \cup {x}) \cap (Values(s) \ {x}) = {}
    BY <1>4
  <2>3. Values(s) \ {x} \subseteq fdtD[dir[c].fd].passed
    BY <1>4
  <2>4. Values(got'[c]) = Values(g) \cup {x} /\ Values(dir'[c].pending) = Values(s) \ {x}
    BY <1>6, <1>7, <1>8, <1>9
  <2>5. Distinct(got'[c]) /\ Distinct(dir'[c].pending)
    BY <1>6, <1>7, <1>8, <1>9
  <2>6. fdtD'[dir'[c].fd] = fdtD[dir[c].fd]
    BY <1>2, <1>8
  <2> QED BY <2>1, <2>2, <2>3, <2>4, <2>5, <2>6 DEF Once
<1>14. AllAlong(c)'
  <2>1. must[c] \subseteq fdtD[dir[c].fd].left \cup Values(s)
    BY <1>3 DEF AllAlong, s
  <2> QED BY <1>2, <1>3, <1>6, <1>8, <1>9, <2>1 DEF AllAlong
<1> QED BY <1>2, <1>8, <1>9, <1>10, <1>11, <1>12, <1>13, <1>14, QuietStep DEF Reading

LEMMA ReadEndKeeps ==
  ASSUME DirInv, NEW c \in Carriers, D!ReadEnd(c)
  PROVE  DirInv'
<1>1. DirTables /\ Shape(c) /\ Reading(c)
  BY DEF DirInv
<1>2. /\ dir' = [dir EXCEPT ![c].end = TRUE] /\ dir[c].st = "open"
      /\ dir[c].pending = <<>> /\ fdtD[dir[c].fd].left = {}
      /\ UNCHANGED <<content, path, changes, fdtD, ownD, stdin, got, must>>
  BY DEF D!ReadEnd, D!fs
<1>3. DotsFirst(c) /\ Once(c) /\ AllAlong(c)
  BY <1>1, <1>2 DEF Reading
<1>4. /\ dir'[c].st = "open" /\ dir'[c].fd = dir[c].fd /\ dir'[c].dot = dir[c].dot
      /\ dir'[c].pending = dir[c].pending /\ dir'[c].end = TRUE
      /\ \A d \in Carriers \ {c} : dir'[d] = dir[d]
      /\ dir' \in [Carriers -> DirState]
  BY <1>1, <1>2, ZenonT(60) DEF DirTables, DirState
<1>5. DirTables'
  BY <1>1, <1>2, <1>4 DEF DirTables
<1>6. Shape(c)'
  BY <1>1, <1>2, <1>4 DEF Shape
<1>7. must[c] = {}
  BY <1>2, <1>3, NoValues DEF AllAlong
<1>8. DotsFirst(c)' /\ Once(c)' /\ AllAlong(c)'
  BY <1>2, <1>3, <1>4, <1>7 DEF DotsFirst, Once, AllAlong
<1> QED BY <1>2, <1>4, <1>5, <1>6, <1>8, QuietStep DEF Reading

LEMMA ReadBatchKeeps ==
  ASSUME DirInv, NEW c \in Carriers, D!ReadBatch(c)
  PROVE  DirInv'
<1>1. /\ DirTables /\ Shape(c) /\ Reading(c) /\ \A m \in D!Fds : DirOwner(m)
      /\ \A d \in Carriers : dir[d].fd \in D!Fds \cup {Closed}
  BY DEF DirInv, DirTables, DirState
<1>2. dir[c].st = "open" /\ dir[c].dot = 2 /\ dir[c].pending = <<>>
  BY DEF D!ReadBatch
<1> PICK n \in D!Fds : n = dir[c].fd
  BY <1>1, <1>2 DEF Shape
<1>3. fdtD[n] \in DirEntry /\ fdtD[n].node \in Dirs
  BY <1>1 DEF DirOwner, DirTables
<1> PICK file \in DirEntry : file = fdtD[n]
  BY <1>3
<1>4. PICK names \in SUBSET (content[file.node] \ file.passed) :
        /\ names # {} /\ D!Cardinality(names) <= Batch
        /\ fdtD' = [fdtD EXCEPT ![n].left = @ \ names, ![n].passed = @ \cup names]
        /\ dir' = [dir EXCEPT ![c].pending = Tail(D!SetToSeq(names))]
        /\ got' = [got EXCEPT ![c] = Append(@, Head(D!SetToSeq(names)))]
        /\ must' = [must EXCEPT ![c] = @ \ {Head(D!SetToSeq(names))}]
        /\ UNCHANGED <<content, path, changes, ownD, stdin>>
  BY DEF D!ReadBatch, D!Returns, D!fs
<1> DEFINE g == got[c]  s == D!SetToSeq(names)
<1>5. names \in SUBSET Names /\ names \cap file.passed = {}
  BY <1>1, <1>3 DEF DirTables
<1>6. /\ s \in Seq(Names) /\ Distinct(s) /\ Values(s) = names /\ Len(s) = D!Cardinality(names)
      /\ Len(s) \in Nat /\ s # <<>>
  <2>1. IsFiniteSet(names)
    BY <1>5, DirFacts, FS_Subset
  <2>2. /\ s \in Seq(Names) /\ Distinct(s) /\ Values(s) = names /\ Len(s) = D!Cardinality(names)
        /\ Len(s) \in Nat
    BY <1>5, <2>1, Enumerated
  <2>3. s # <<>>
    BY <1>4, <2>2, NoValues
  <2> QED BY <2>2, <2>3
<1>7. DotsFirst(c) /\ Once(c) /\ AllAlong(c)
  BY <1>1, <1>2 DEF Reading
<1>8. /\ g \in Seq(Names \cup DotNames) /\ Distinct(g)
      /\ Values(g) \subseteq DotNames \cup file.passed
      /\ must[c] \subseteq file.left
  BY <1>1, <1>2, <1>7, NoValues DEF DirTables, DirState, Once, AllAlong
<1>9. Len(g) \in Nat /\ Len(g) >= 2 /\ g[1] = "." /\ g[2] = ".."
  <2>1. Len(g) \in Nat
    BY <1>8, ValuesOf
  <2>2. dir[c].dot <= Len(g)
    BY <1>7 DEF DotsFirst
  <2>3. Len(g) >= 2
    BY <1>2, <2>1, <2>2
  <2> QED BY <1>7, <2>1, <2>3 DEF DotsFirst
<1>10. /\ dir' = [dir EXCEPT ![c].pending = Tail(s)]
       /\ got' = [got EXCEPT ![c] = Append(@, Head(s))]
       /\ must' = [must EXCEPT ![c] = @ \ {Head(s)}]
  BY <1>4
<1>11. Len(s) <= Batch
  BY <1>4, <1>6
<1> HIDE DEF g, s
<1>12. /\ Head(s) \in Names /\ Head(s) \in names /\ Tail(s) \in Seq(Names)
       /\ Distinct(Tail(s)) /\ Len(Tail(s)) = Len(s) - 1
       /\ Values(Tail(s)) = names \ {Head(s)}
  BY <1>6, OneLess
<1> PICK x \in Names : x = Head(s)
  BY <1>12
<1>13. x \notin Values(g)
  BY <1>5, <1>8, <1>12, DirFacts
<1>14. /\ Append(g, x) \in Seq(Names \cup DotNames) /\ Distinct(Append(g, x))
       /\ Len(Append(g, x)) = Len(g) + 1
       /\ \A i \in 1 .. Len(g) : Append(g, x)[i] = g[i]
       /\ Values(Append(g, x)) = Values(g) \cup {x}
  <2>1. x \in Names \cup DotNames
    OBVIOUS
  <2> QED BY <1>8, <1>13, <2>1, OneMore
<1>15. /\ dir'[c].st = "open" /\ dir'[c].fd = n /\ dir'[c].dot = 2
       /\ dir'[c].pending = Tail(s) /\ dir'[c].end = dir[c].end
       /\ \A d \in Carriers \ {c} : dir'[d] = dir[d]
       /\ dir' \in [Carriers -> DirState]
  <2>1. dir[c] \in DirState /\ dir'[c] = [dir[c] EXCEPT !.pending = Tail(s)]
        /\ \A d \in Carriers \ {c} : dir'[d] = dir[d]
    BY <1>1, <1>10 DEF DirTables
  <2>2. /\ dir'[c].st = "open" /\ dir'[c].fd = n /\ dir'[c].dot = 2
        /\ dir'[c].pending = Tail(s) /\ dir'[c].end = dir[c].end
    BY <1>2, <2>1 DEF DirState
  <2>3. dir'[c] \in DirState
    BY <1>12, <2>1 DEF DirState
  <2> QED BY <1>1, <1>10, <2>1, <2>2, <2>3 DEF DirTables
<1>16. /\ got'[c] = Append(g, x) /\ must'[c] = must[c] \ {x}
       /\ \A d \in Carriers \ {c} : got'[d] = got[d] /\ must'[d] = must[d]
  BY <1>1, <1>10 DEF DirTables, g
<1>17. /\ fdtD'[n].left = file.left \ names /\ fdtD'[n].passed = file.passed \cup names
       /\ fdtD'[n].node = file.node /\ fdtD'[n] \in DirEntry
       /\ \A m \in D!Fds : m # n => fdtD'[m] = fdtD[m]
  <2>1. fdtD'[n] = [file EXCEPT !.left = @ \ names, !.passed = @ \cup names]
    BY <1>1, <1>4 DEF DirTables
  <2>2. \A m \in D!Fds : m # n => fdtD'[m] = fdtD[m]
    BY <1>1, <1>4 DEF DirTables
  <2>3. /\ file.left \ names \in SUBSET Names /\ file.passed \cup names \in SUBSET Names
        /\ file.node \in Dirs \cup {Plain}
    BY <1>5 DEF DirEntry
  <2>4. /\ fdtD'[n].left = file.left \ names /\ fdtD'[n].passed = file.passed \cup names
        /\ fdtD'[n].node = file.node
    BY <2>1 DEF DirEntry
  <2>5. fdtD'[n] \in DirEntry
    BY <2>1, <2>3 DEF DirEntry
  <2> QED BY <2>2, <2>4, <2>5
<1>18. DirTables'
  <2>1. fdtD' = [fdtD EXCEPT ![n] = fdtD'[n]]
    BY <1>1, <1>4, <1>17 DEF DirTables
  <2>2. fdtD' \in [D!Fds -> DirEntry \cup {Closed}]
    BY <1>1, <1>17, <2>1 DEF DirTables
  <2>3. got' \in [Carriers -> Seq(Names \cup DotNames)]
    BY <1>1, <1>10, <1>14 DEF DirTables, g
  <2>4. must' \in [Carriers -> SUBSET Names]
    BY <1>1, <1>10 DEF DirTables
  <2> QED BY <1>1, <1>4, <1>15, <2>2, <2>3, <2>4 DEF DirTables
<1>19. Shape(c)'
  <2>1. Len(Tail(s)) < Batch
    BY <1>6, <1>11, <1>12, DirFacts
  <2>2. n # Closed
    BY DirFacts
  <2> QED BY <1>15, <2>1, <2>2 DEF Shape
<1>20. DotsFirst(c)'
  <2>1. got'[c][1] = "." /\ got'[c][2] = ".."
    BY <1>9, <1>14, <1>16
  <2> QED BY <1>9, <1>14, <1>15, <1>16, <2>1 DEF DotsFirst
<1>21. Once(c)'
  <2>1. Values(got'[c]) = Values(g) \cup {x} /\ Values(dir'[c].pending) = names \ {x}
    BY <1>12, <1>14, <1>15, <1>16
  <2>2. fdtD'[dir'[c].fd].passed = file.passed \cup names
    BY <1>15, <1>17
  <2>3. Values(g) \cup {x} \subseteq DotNames \cup (file.passed \cup names)
    BY <1>8, <1>12
  <2>4. (Values(g) \cup {x}) \cap (names \ {x}) = {}
    BY <1>5, <1>8, DirFacts
  <2>5. Distinct(got'[c]) /\ Distinct(dir'[c].pending)
    BY <1>12, <1>14, <1>15, <1>16
  <2> QED BY <2>1, <2>2, <2>3, <2>4, <2>5 DEF Once
<1>22. AllAlong(c)'
  <2>1. Values(dir'[c].pending) = names \ {x} /\ fdtD'[dir'[c].fd].left = file.left \ names
    BY <1>12, <1>15, <1>17
  <2>2. must[c] \ {x} \subseteq (file.left \ names) \cup (names \ {x})
    BY <1>8
  <2> QED BY <1>7, <1>15, <1>16, <2>1, <2>2 DEF AllAlong
<1>23. \A d \in Carriers \ {c} : dir[d].fd # Closed => fdtD'[dir[d].fd] = fdtD[dir[d].fd]
  <2> SUFFICES ASSUME NEW d \in Carriers \ {c}, dir[d].fd # Closed
               PROVE  fdtD'[dir[d].fd] = fdtD[dir[d].fd]
    OBVIOUS
  <2>1. dir[d].fd \in D!Fds /\ dir[d].fd # n
    BY <1>1 DEF DirOwner
  <2> QED BY <1>17, <2>1
<1>24. \A m \in D!Fds : DirOwner(m)'
  <2>1. \A m \in D!Fds : /\ fdtD'[m] = Closed <=> fdtD[m] = Closed
                         /\ fdtD[m] # Closed => fdtD'[m].node = fdtD[m].node
    <3> SUFFICES ASSUME NEW m \in D!Fds
                 PROVE  /\ fdtD'[m] = Closed <=> fdtD[m] = Closed
                        /\ fdtD[m] # Closed => fdtD'[m].node = fdtD[m].node
      OBVIOUS
    <3>1. CASE m = n
      BY <1>3, <1>17, <3>1, DirFacts
    <3>2. CASE m # n
      BY <1>17, <3>2
    <3> QED BY <3>1, <3>2
  <2>2. \A d \in Carriers : dir'[d].fd = dir[d].fd
    BY <1>15
  <2>3. ownD' = ownD /\ stdin' = stdin
    BY <1>4
  <2> QED BY <1>1, <2>1, <2>2, <2>3, SameOwners
<1> QED BY <1>15, <1>16, <1>18, <1>19, <1>20, <1>21, <1>22, <1>23, <1>24, StreamStep DEF Reading

-----------------------------------------------------------------------------
(* The rest of the program and the file system.                            *)

\* The streams are left alone.
LEMMA WorldStep ==
  ASSUME DirInv, DirTables', dir' = dir, got' = got, must' = must,
         \A n \in D!Fds : DirOwner(n)',
         \A c \in Carriers : dir[c].fd # Closed => fdtD'[dir[c].fd] = fdtD[dir[c].fd]
  PROVE  DirInv'
<1>1. ASSUME NEW c \in Carriers PROVE Shape(c)' /\ Reading(c)'
  BY LeftAlone DEF DirInv
<1> QED BY <1>1 DEF DirInv

LEMMA OpenElsewhereKeeps ==
  ASSUME DirInv, NEW d \in Dirs \cup {Plain}, D!Open(d)
  PROVE  DirInv'
<1>1. /\ DirTables /\ \A m \in D!Fds : DirOwner(m)
      /\ \A c \in Carriers : dir[c].fd \in D!Fds \cup {Closed}
  BY DEF DirInv, DirTables, DirState
<1>2. /\ D!LowestFrom(3) \in D!Fds /\ D!LowestFrom(3) >= 3 /\ fdtD[D!LowestFrom(3)] = Closed
  BY DirLeastFree DEF D!Open
<1> PICK n \in D!Fds : n = D!LowestFrom(3)
  BY <1>2
<1>3. D!File(d) \in DirEntry
  BY <1>1, NewlyOpen
<1> PICK e \in DirEntry : e = D!File(d)
  BY <1>3
<1>4. /\ fdtD' = [fdtD EXCEPT ![n] = e] /\ ownD' = ownD \cup {n}
      /\ UNCHANGED <<content, path, changes, stdin, dir, got, must>>
  BY DEF D!Open, D!fs
<1>5. fdtD'[n] = e /\ e # Closed /\ \A m \in D!Fds : m # n => fdtD'[m] = fdtD[m]
  BY <1>1, <1>4, DirFacts DEF DirTables
<1>6. n \notin D!Std /\ fdtD[n] = Closed
  BY <1>2, DirFacts DEF D!Std
<1>7. \A c \in Carriers : dir[c].fd # n
  BY <1>1, <1>6 DEF DirOwner
<1>8. DirTables'
  BY <1>1, <1>4 DEF DirTables
<1>9. ASSUME NEW m \in D!Fds PROVE DirOwner(m)'
  <2>1. m \in D!Std' <=> m \in D!Std
    BY <1>4 DEF D!Std
  <2>2. CASE m = n
    BY <1>4, <1>5, <1>6, <1>7, <2>1, <2>2 DEF DirOwner
  <2>3. CASE m # n
    BY <1>1, <1>4, <1>5, <2>1, <2>3 DEF DirOwner
  <2> QED BY <2>2, <2>3
<1> QED BY <1>1, <1>4, <1>5, <1>7, <1>8, <1>9, WorldStep

LEMMA CloseFdKeeps ==
  ASSUME DirInv, NEW n \in ownD, D!CloseFd(n)
  PROVE  DirInv'
<1>1. /\ DirTables /\ n \in D!Fds /\ \A m \in D!Fds : DirOwner(m)
      /\ \A c \in Carriers : dir[c].fd \in D!Fds \cup {Closed}
  BY DEF DirInv, DirTables, DirState
<1>2. /\ fdtD' = [fdtD EXCEPT ![n] = Closed] /\ ownD' = ownD \ {n}
      /\ UNCHANGED <<content, path, changes, stdin, dir, got, must>>
  BY DEF D!CloseFd, D!fs
<1>3. fdtD'[n] = Closed /\ \A m \in D!Fds : m # n => fdtD'[m] = fdtD[m]
  BY <1>1, <1>2 DEF DirTables
<1>4. n \notin D!Std /\ \A c \in Carriers : dir[c].fd # n
  BY <1>1 DEF DirOwner
<1>5. DirTables'
  BY <1>1, <1>2 DEF DirTables
<1>6. ASSUME NEW m \in D!Fds PROVE DirOwner(m)'
  <2>1. m \in D!Std' <=> m \in D!Std
    BY <1>2 DEF D!Std
  <2>2. CASE m = n
    BY <1>2, <1>3, <1>4, <2>1, <2>2 DEF DirOwner
  <2>3. CASE m # n
    BY <1>1, <1>2, <1>3, <2>1, <2>3 DEF DirOwner
  <2> QED BY <2>2, <2>3
<1> QED BY <1>1, <1>2, <1>3, <1>4, <1>5, <1>6, WorldStep

LEMMA LoseStdinKeeps ==
  ASSUME DirInv, D!LoseStdin
  PROVE  DirInv'
<1>1. /\ DirTables /\ 0 \in D!Fds /\ \A m \in D!Fds : DirOwner(m)
      /\ \A c \in Carriers : dir[c].fd \in D!Fds \cup {Closed}
  BY DirFacts DEF DirInv, DirTables, DirState
<1>2. /\ fdtD' = [fdtD EXCEPT ![0] = Closed] /\ stdin = TRUE /\ stdin' = FALSE
      /\ UNCHANGED <<content, path, changes, ownD, dir, got, must>>
  BY <1>1 DEF D!LoseStdin, D!fs, DirTables
<1>3. fdtD'[0] = Closed /\ \A m \in D!Fds : m # 0 => fdtD'[m] = fdtD[m]
  BY <1>1, <1>2 DEF DirTables
<1>4. 0 \in D!Std /\ 0 \notin D!Std' /\ \A m \in D!Fds : m # 0 => (m \in D!Std' <=> m \in D!Std)
  BY <1>2 DEF D!Std
<1>5. 0 \notin ownD /\ \A c \in Carriers : dir[c].fd # 0
  BY <1>1, <1>4 DEF DirOwner
<1>6. DirTables'
  BY <1>1, <1>2 DEF DirTables
<1>7. ASSUME NEW m \in D!Fds PROVE DirOwner(m)'
  <2>1. CASE m = 0
    BY <1>2, <1>3, <1>4, <1>5, <2>1 DEF DirOwner
  <2>2. CASE m # 0
    BY <1>1, <1>2, <1>3, <1>4, <2>2 DEF DirOwner
  <2> QED BY <2>1, <2>2
<1> QED BY <1>1, <1>2, <1>3, <1>5, <1>6, <1>7, WorldStep

LEMMA ChangesKeep ==
  ASSUME DirInv, D!Change
  PROVE  /\ changes' \in 0 .. MaxChanges /\ ownD' = ownD /\ stdin' = stdin /\ dir' = dir
BY DirFacts DEF D!Change, DirInv, DirTables

\* Entries come and the path changes: what the kernel has open is the same.
LEMMA ElsewhereKeeps ==
  ASSUME DirInv, \/ \E d \in Dirs, e \in Names : D!AddName(d, e)
                 \/ \E d \in Dirs \cup {Gone} : D!RenameDir(d)
  PROVE  DirInv'
<1>1. /\ DirTables /\ \A m \in D!Fds : DirOwner(m)
  BY DEF DirInv
<1>2. /\ changes' \in 0 .. MaxChanges /\ ownD' = ownD /\ stdin' = stdin /\ dir' = dir
      /\ fdtD' = fdtD /\ got' = got /\ must' = must
  BY ChangesKeep DEF D!AddName, D!RenameDir
<1>3. content' \in [Dirs -> SUBSET Names] /\ path' \in Dirs \cup {Gone}
  BY <1>1 DEF D!AddName, D!RenameDir, DirTables
<1>4. DirTables'
  BY <1>1, <1>2, <1>3 DEF DirTables
<1>5. \A m \in D!Fds : DirOwner(m)'
  BY <1>1, <1>2, SameOwners
<1> QED BY <1>2, <1>4, <1>5, WorldStep

LEMMA RemoveNameKeeps ==
  ASSUME DirInv, NEW d \in Dirs, NEW e \in Names, D!RemoveName(d, e)
  PROVE  DirInv'
<1>1. /\ DirTables /\ \A m \in D!Fds : DirOwner(m)
      /\ \A c \in Carriers : dir[c].fd \in D!Fds \cup {Closed}
  BY DEF DirInv, DirTables, DirState
<1>2. /\ changes' \in 0 .. MaxChanges /\ ownD' = ownD /\ stdin' = stdin /\ dir' = dir
      /\ content' = [content EXCEPT ![d] = @ \ {e}] /\ path' = path /\ got' = got
      /\ fdtD' = [n \in D!Fds |-> IF fdtD[n] = Closed \/ fdtD[n].node # d THEN fdtD[n]
                                  ELSE [fdtD[n] EXCEPT !.left = @ \ {e}]]
      /\ must' = [c \in Carriers |-> IF D!Reads(c, d) THEN must[c] \ {e} ELSE must[c]]
  BY ChangesKeep DEF D!RemoveName
<1>3. ASSUME NEW n \in D!Fds
      PROVE  /\ fdtD'[n] \in DirEntry \cup {Closed}
             /\ fdtD'[n] = Closed <=> fdtD[n] = Closed
             /\ fdtD[n] # Closed =>
                  /\ fdtD'[n].node = fdtD[n].node /\ fdtD'[n].passed = fdtD[n].passed
                  /\ fdtD'[n].left = IF fdtD[n].node = d THEN fdtD[n].left \ {e} ELSE fdtD[n].left
  <2>1. CASE fdtD[n] = Closed
    BY <1>2, <2>1
  <2>2. CASE fdtD[n] # Closed
    <3>1. fdtD[n] \in DirEntry
      BY <1>1, <2>2 DEF DirTables
    <3>2. CASE fdtD[n].node # d
      BY <1>2, <3>1, <3>2
    <3>3. CASE fdtD[n].node = d
      <4>1. fdtD'[n] = [fdtD[n] EXCEPT !.left = @ \ {e}]
        BY <1>2, <2>2, <3>3
      <4>2. fdtD'[n] \in DirEntry
        BY <3>1, <4>1 DEF DirEntry
      <4> QED BY <2>2, <3>1, <3>3, <4>1, <4>2, DirFacts DEF DirEntry
    <3> QED BY <3>2, <3>3
  <2> QED BY <2>1, <2>2
<1>4. DirTables'
  <2>1. fdtD' \in [D!Fds -> DirEntry \cup {Closed}]
    BY <1>2, <1>3
  <2>2. content' \in [Dirs -> SUBSET Names] /\ must' \in [Carriers -> SUBSET Names]
    BY <1>1, <1>2 DEF DirTables
  <2> QED BY <1>1, <1>2, <2>1, <2>2 DEF DirTables
<1>5. \A n \in D!Fds : DirOwner(n)'
  <2>1. \A n \in D!Fds : /\ fdtD'[n] = Closed <=> fdtD[n] = Closed
                         /\ fdtD[n] # Closed => fdtD'[n].node = fdtD[n].node
    BY <1>3
  <2>2. \A c \in Carriers : dir'[c].fd = dir[c].fd
    BY <1>2
  <2> QED BY <1>1, <1>2, <2>1, <2>2, SameOwners
<1>6. ASSUME NEW c \in Carriers PROVE Shape(c)' /\ Reading(c)'
  <2>1. Shape(c) /\ Reading(c)
    BY DEF DirInv
  <2>2. Shape(c)'
    BY <1>2, <2>1 DEF Shape
  <2>3. ASSUME dir[c].st \in {"bare", "open"} PROVE DotsFirst(c)' /\ Once(c)' /\ AllAlong(c)'
    <3>1. DotsFirst(c) /\ Once(c) /\ AllAlong(c)
      BY <2>1, <2>3 DEF Reading
    <3> PICK n \in D!Fds : n = dir[c].fd
      BY <1>1, <2>1, <2>3 DEF Shape
    <3>2. fdtD[n] # Closed
      BY <1>1 DEF DirOwner
    <3>3. DotsFirst(c)'
      BY <1>2, <3>1 DEF DotsFirst
    <3>4. Once(c)'
      BY <1>2, <1>3, <3>1, <3>2 DEF Once
    <3>5. D!Reads(c, d) <=> fdtD[n].node = d
      BY <2>3 DEF D!Reads, D!Live
    <3>6. must'[c] = IF fdtD[n].node = d THEN must[c] \ {e} ELSE must[c]
      BY <1>2, <3>5
    <3>7. fdtD'[n].left = IF fdtD[n].node = d THEN fdtD[n].left \ {e} ELSE fdtD[n].left
      BY <1>3, <3>2
    <3>8. AllAlong(c)'
      BY <1>2, <3>1, <3>6, <3>7, SMTT(30) DEF AllAlong
    <3> QED BY <3>3, <3>4, <3>8
  <2> QED BY <1>2, <2>2, <2>3 DEF Reading
<1> QED BY <1>4, <1>5, <1>6 DEF DirInv

-----------------------------------------------------------------------------
(* Directory streams: the theorem.                                         *)

LEMMA DirStarts == MCInit => DirInv
<1> SUFFICES ASSUME MCInit PROVE DirInv
  OBVIOUS
<1> DEFINE tty == [node |-> Plain, left |-> {}, passed |-> {}]
<1>1. D!Init
  BY DEF MCInit
<1>2. /\ content \in FirstContents /\ path \in Dirs /\ changes = 0
      /\ fdtD = [n \in D!Fds |-> IF n < 3 THEN tty ELSE Closed]
      /\ ownD = {} /\ stdin = TRUE
      /\ dir = [c \in Carriers |-> D!NoDir]
      /\ got = [c \in Carriers |-> <<>>] /\ must = [c \in Carriers |-> {}]
  BY <1>1 DEF D!Init
<1>3. tty \in DirEntry
  BY DEF DirEntry
<1>4. content \in [Dirs -> SUBSET Names]
  BY <1>2, FileConstants DEF D!DirStreamConstants
<1>5. DirTables
  <2>1. fdtD \in [D!Fds -> DirEntry \cup {Closed}]
    BY <1>2, <1>3
  <2>2. dir \in [Carriers -> DirState] /\ got \in [Carriers -> Seq(Names \cup DotNames)]
    BY <1>2, NoDirIs, NoValues
  <2>3. changes \in 0 .. MaxChanges /\ path \in Dirs \cup {Gone}
    BY <1>2, DirFacts
  <2> QED BY <1>2, <1>4, <2>1, <2>2, <2>3 DEF DirTables
<1>6. ASSUME NEW n \in D!Fds PROVE DirOwner(n)
  <2>1. D!Std = {0, 1, 2}
    BY <1>2 DEF D!Std
  <2>2. \A c \in Carriers : dir[c].fd # n
    BY <1>2, NoDirIs, DirFacts
  <2>3. fdtD[n] # Closed <=> n < 3
    BY <1>2, <1>3, DirFacts
  <2>4. n < 3 <=> n \in {0, 1, 2}
    BY DirFacts
  <2> QED BY <1>2, <2>1, <2>2, <2>3, <2>4 DEF DirOwner
<1>7. ASSUME NEW c \in Carriers PROVE Shape(c) /\ Reading(c)
  BY <1>2, NoDirIs, NoValues, DirFacts DEF Shape, Reading
<1> QED BY <1>5, <1>6, <1>7 DEF DirInv

LEMMA DirKeeps == DirInv /\ [D!Next]_dirVars => DirInv'
<1> SUFFICES ASSUME DirInv, [D!Next]_dirVars PROVE DirInv'
  OBVIOUS
<1>1. CASE D!World
  BY <1>1, OpenElsewhereKeeps, CloseFdKeeps, LoseStdinKeeps, ElsewhereKeeps, RemoveNameKeeps
     DEF D!World
<1>2. ASSUME NEW c \in Carriers, D!Stream(c) PROVE DirInv'
  BY <1>2, OpenDirKeeps, FdOpenDirKeeps, NewCarrierKeeps, NoCarrierKeeps, ReadDotKeeps,
     ReadPendingKeeps, ReadBatchKeeps, ReadEndKeeps, RewindKeeps, CloseDirKeeps, ForgetKeeps,
     FinalizeKeeps DEF D!Stream
<1>3. CASE UNCHANGED dirVars
  <2>1. DirTables' /\ dir' = dir /\ got' = got /\ must' = must /\ fdtD' = fdtD
    BY <1>3 DEF dirVars, DirInv, DirTables
  <2>2. \A n \in D!Fds : DirOwner(n)'
    BY <1>3, SameOwners DEF dirVars, DirInv
  <2> QED BY <2>1, <2>2, WorldStep
<1> QED BY <1>1, <1>2, <1>3 DEF D!Next

LEMMA PrefixIs ==
  ASSUME NEW T, NEW s \in Seq(T), NEW t \in Seq(T), Len(s) <= Len(t),
         \A i \in 1 .. Len(s) : s[i] = t[i]
  PROVE  D!IsPrefix(s, t)
<1>1. Len(s) \in Nat /\ Len(t) \in Nat
  BY LenProperties
<1>2. 1 \in 1 .. Len(s) + 1 /\ Len(s) \in 1 - 1 .. Len(s)
  BY <1>1
<1>3. 1 \in 1 .. Len(t) + 1 /\ Len(s) \in 1 - 1 .. Len(t)
  BY <1>1
<1>4. \A i \in 1 .. Len(s) : i = 1 + i - 1
  OBVIOUS
<1>5. Len(s) = Len(s) - 1 + 1
  BY <1>1
<1> DEFINE u == SubSeq(s, 1, Len(s))  v == SubSeq(t, 1, Len(s))
<1>6. u \in Seq(T) /\ Len(u) = Len(s) /\ \A i \in 1 .. Len(s) : u[i] = s[i]
  BY <1>2, <1>4, <1>5, SubSeqProperties
<1>7. v \in Seq(T) /\ Len(v) = Len(s) /\ \A i \in 1 .. Len(s) : v[i] = t[i]
  BY <1>3, <1>4, <1>5, SubSeqProperties
<1> HIDE DEF u, v
<1>8. u = v
  BY <1>6, <1>7, SeqEqual
<1> QED BY <1>8 DEF D!IsPrefix, u, v

LEMMA DirShows == DirInv => D!TypeOK /\ D!DirFdsExact /\ D!EntriesOnce
<1> SUFFICES ASSUME DirInv PROVE D!TypeOK /\ D!DirFdsExact /\ D!EntriesOnce
  OBVIOUS
<1>1. /\ DirTables /\ (\A n \in D!Fds : DirOwner(n)) /\ \A c \in Carriers : Shape(c) /\ Reading(c)
  BY DEF DirInv
<1>2. D!TypeOK
  <2>1. \A n \in D!Fds : fdtD[n] # Closed => fdtD[n].node \in Dirs \cup {Plain}
    BY <1>1 DEF DirTables, DirEntry
  <2>2. \A c \in Carriers : /\ dir[c].st \in {"none", "bare", "open", "retired", "dropped"}
                            /\ dir[c].dot \in 0 .. 2 /\ must[c] \subseteq Names
    BY <1>1 DEF DirTables, DirState
  <2>3. \A c \in Carriers : (D!Live(c) <=> dir[c].fd # Closed) /\ Len(dir[c].pending) < Batch
    BY <1>1 DEF Shape, D!Live
  <2> QED BY <1>1, <2>1, <2>2, <2>3 DEF D!TypeOK, DirTables
<1>3. D!DirFdsExact
  <2>1. ownD \cap D!Std = {}
    BY <1>1 DEF DirOwner, DirTables
  <2>2. ASSUME NEW n \in D!Fds
        PROVE  /\ fdtD[n] # Closed <=> n \in ownD \cup D!Std \/ D!Streams(n) # {}
               /\ D!Cardinality(D!Streams(n)) < 2
               /\ D!Streams(n) # {} => n \notin ownD \cup D!Std /\ fdtD[n].node \in Dirs
    <3>1. DirOwner(n)
      BY <1>1
    <3>2. \A c : c \in D!Streams(n) <=> c \in Carriers /\ dir[c].fd = n
      BY <1>1, DirFacts DEF D!Streams, D!Live, Shape
    <3>3. /\ fdtD[n] # Closed <=> n \in ownD \cup D!Std \/ D!Streams(n) # {}
          /\ D!Streams(n) # {} => n \notin ownD \cup D!Std /\ fdtD[n].node \in Dirs
      BY <3>1, <3>2 DEF DirOwner
    <3>4. D!Cardinality(D!Streams(n)) = Cardinality(D!Streams(n))
      BY DEF D!Cardinality, Cardinality
    <3>5. Cardinality(D!Streams(n)) < 2
      <4>1. CASE D!Streams(n) = {}
        BY <4>1, FS_EmptySet
      <4>2. CASE D!Streams(n) # {}
        <5>1. PICK c : c \in D!Streams(n)
          BY <4>2
        <5>2. D!Streams(n) = {c}
          BY <3>1, <3>2, <5>1 DEF DirOwner
        <5>3. Cardinality({c}) = 1
          BY FS_Singleton
        <5> QED BY <5>2, <5>3
      <4> QED BY <4>1, <4>2
    <3> QED BY <3>3, <3>4, <3>5
  <2> QED BY <2>1, <2>2 DEF D!DirFdsExact
<1>4. D!EntriesOnce
  <2> SUFFICES ASSUME NEW c \in Carriers, dir[c].st = "open"
               PROVE  /\ \/ D!IsPrefix(got[c], <<".", "..">>)
                         \/ D!IsStrictPrefix(<<".", "..">>, got[c])
                      /\ D!IsInjective(got[c])
                      /\ dir[c].end => must[c] = {}
    BY DEF D!EntriesOnce, D!Dot, D!DotDot
  <2> DEFINE T == Names \cup DotNames  g == got[c]  dots == <<".", "..">>
  <2>1. DotsFirst(c) /\ Once(c) /\ AllAlong(c)
    BY <1>1 DEF Reading
  <2>2. g \in Seq(T) /\ Len(g) \in Nat /\ DOMAIN g = 1 .. Len(g)
    BY <1>1, LenProperties DEF DirTables
  <2>3. dots \in Seq(T) /\ Len(dots) = 2 /\ dots[1] = "." /\ dots[2] = ".."
    BY DEF DotNames
  <2>4. (Len(g) > 0 => g[1] = ".") /\ (Len(g) > 1 => g[2] = "..")
    BY <2>1 DEF DotsFirst
  <2>5. D!IsInjective(g)
    BY <2>1, <2>2 DEF Once, Distinct, D!IsInjective
  <2> HIDE DEF T, g, dots
  <2>6. CASE Len(g) <= 2
    <3>1. \A i \in 1 .. Len(g) : g[i] = dots[i]
      <4> SUFFICES ASSUME NEW i \in 1 .. Len(g) PROVE g[i] = dots[i]
        OBVIOUS
      <4>1. i = 1 \/ (i = 2 /\ Len(g) > 1)
        BY <2>2, <2>6
      <4> QED BY <2>2, <2>3, <2>4, <4>1
    <3>2. D!IsPrefix(g, dots)
      BY <2>2, <2>3, <2>6, <3>1, PrefixIs
    <3> QED BY <2>1, <2>5, <3>2 DEF AllAlong, g, dots
  <2>7. CASE Len(g) > 2
    <3>1. \A i \in 1 .. Len(dots) : dots[i] = g[i]
      <4> SUFFICES ASSUME NEW i \in 1 .. 2 PROVE dots[i] = g[i]
        BY <2>3
      <4>1. i = 1 \/ i = 2
        OBVIOUS
      <4> QED BY <2>2, <2>3, <2>4, <2>7, <4>1
    <3>2. D!IsPrefix(dots, g)
      BY <2>2, <2>3, <2>7, <3>1, PrefixIs
    <3>3. dots # g
      <4> SUFFICES ASSUME dots = g PROVE FALSE
        OBVIOUS
      <4>1. Len(g) = 2
        BY <2>3
      <4> QED BY <2>7, <4>1
    <3>4. D!IsStrictPrefix(dots, g)
      BY <3>2, <3>3 DEF D!IsStrictPrefix
    <3> QED BY <2>1, <2>5, <3>4 DEF AllAlong, g, dots
  <2> QED BY <2>2, <2>6, <2>7
<1> QED BY <1>2, <1>3, <1>4

LEMMA DirInvariance == MCSpec => []DirInv
<1>1. MCInit => DirInv
  BY DirStarts
<1>2. DirInv /\ [MCNext]_allVars => DirInv'
  BY DirKeeps DEF MCNext, allVars
<1> QED BY <1>1, <1>2, PTL DEF MCSpec

LEMMA StreamsShow == DirInv => StreamsSafe
  BY DirShows DEF StreamsSafe

\* A descriptor below a DIR has that DIR as its only owner, and readdir returns
\* ".", ".." and then every name that was there all along, none twice: whatever
\* opendir, fdopendir, readdir, rewinddir, closedir, the finalizer and the other
\* users of the directory do in between, and however small a batch is
\* (internal/posixdir/dir.go).
THEOREM StreamsCorrect == MCSpec => []StreamsSafe
<1>1. DirInv => StreamsSafe
  BY StreamsShow
<1> QED BY <1>1, DirInvariance, PTL

\* Every open number has one owner, of descriptors and of directory streams
\* alike, and is closed once by that owner.
THEOREM OneOwnerCorrect == MCSpec => []OneOwner
<1>1. DescriptorsSafe /\ StreamsSafe => OneOwner
  BY DEF OneOwner
<1> QED BY <1>1, DescriptorsCorrect, StreamsCorrect, PTL
-----------------------------------------------------------------------------
(* FILEs: the inductive invariant.                                         *)

FileEntry == [node : Nodes, cloexec : BOOLEAN]
High == F!Fds \ F!Std

\* The standard FILEs are on their numbers, which are open; C opens none there.
StdFiles ==
  /\ \A i \in F!Std : fd[i] = i /\ map[i] # Closed /\ node[i] # Closed
  /\ ownF \cap F!Std = {}

\* What a call has in hand: freopen's f stays open to the end, and f2 owns its
\* descriptor until dup3 finds that the two are on one number.
AtCall(p) ==
  /\ pcF[p] = "idle" => f[p] = NoFile /\ f2[p] = NoFile
  /\ pcF[p] = "fdopen" => tfd[p] \in High /\ f2[p] = NoFile
  /\ pcF[p] # "fdopen" => tfd[p] = Closed
  /\ pcF[p] \in {"dup3", "fclose", "fclose both"} =>
       /\ f[p] # NoFile /\ f2[p] \in Blocks /\ node[f2[p]] # Closed
       /\ fd[f2[p]] \in High \/ (fd[f2[p]] = -1 /\ pcF[p] = "fclose")
  /\ pcF[p] \in {"fclose", "fclose both"} => node[f[p]] # Closed
  /\ pcF[p] = "fclose f" => f[p] # NoFile /\ f2[p] = NoFile
  /\ f[p] # NoFile => fd[f[p]] \in F!Fds

\* A FILE is in the hands of one call, as its f or as its f2.
WorksOn(p, x) == x = f[p] \/ x = f2[p]
OneCaller(x) ==
  /\ \A p, q \in Procs : WorksOn(p, x) /\ WorksOn(q, x) => p = q
  /\ \A p \in Procs : ~(x = f[p] /\ x = f2[p])

\* A FILE whose number C closed: there is one, no call works on another, and
\* its number is closed or in the hands of the freopen of that FILE.
AloneUnder(x) ==
  F!ClosedUnder(x) =>
    /\ x \in Blocks /\ fd[x] \in High /\ fd[x] \notin ownF
    /\ \A y \in F!Files : F!ClosedUnder(y) => y = x
    /\ \A p \in Procs : pcF[p] # "idle" => f[p] = x
    /\ \A y \in Blocks \ {x} : fd[y] = fd[x] => \E p \in Procs : f2[p] = y

RightFile(x) ==
  /\ fd[x] \in F!Fds /\ node[x] # Closed => map[fd[x]] # Closed /\ map[fd[x]].node = node[x]
  /\ fd[x] = -1 => \E p \in Procs : f2[p] = x /\ pcF[p] = "fclose"

\* A number above 2 is open if and only if it has a user, and has one at most.
OfFile(x, n) == fd[x] = n /\ node[x] # Closed
OneUser(n) ==
  /\ map[n] # Closed <=> \/ \E x \in Blocks : OfFile(x, n)
                         \/ \E p \in Procs : tfd[p] = n
                         \/ n \in ownF
  /\ \A x, y \in Blocks : OfFile(x, n) /\ OfFile(y, n) => x = y
  /\ \A p, q \in Procs : tfd[p] = n /\ tfd[q] = n => p = q
  /\ \A x \in Blocks, p \in Procs : ~(OfFile(x, n) /\ tfd[p] = n)
  /\ n \in ownF => (\A x \in Blocks : ~OfFile(x, n)) /\ (\A p \in Procs : tfd[p] # n)

FileInv ==
  /\ F!TypeOK
  /\ StdFiles
  /\ \A p \in Procs : AtCall(p)
  /\ \A x \in F!Files : OneCaller(x) /\ AloneUnder(x) /\ RightFile(x)
  /\ \A n \in High : OneUser(n)

LEMMA FileFacts ==
  /\ F!Std \subseteq F!Fds /\ F!Std = {0, 1, 2} /\ F!Files = F!Std \cup Blocks
  /\ High \subseteq F!Fds /\ High = {n \in F!Fds : n > 2} /\ F!Fds \subseteq Nat
  /\ Blocks \cap F!Std = {} /\ NoFile \notin F!Files
  /\ Closed \notin F!Fds /\ -1 \notin F!Fds /\ Closed # -1
  /\ Closed \notin Nodes /\ Closed \notin FileEntry
  /\ F!M!Entry = FileEntry
  /\ \A k \in Nodes : F!File(k) \in FileEntry /\ F!File(k).node = k
  /\ \A e \in FileEntry : e.node \in Nodes /\ e.node # Closed
  /\ Used \subseteq F!Std /\ HostNode \in Nodes /\ Terminal \in Nodes
<1>1. FileMaxFd \in Nat /\ FileMaxFd > 2
  BY FileConstants DEF F!FileLifeConstants
<1>2. F!Fds = 0 .. FileMaxFd /\ F!Std = 0 .. 2 /\ F!Std = {0, 1, 2}
  BY DEF F!Fds, F!Std
<1>3. F!Std \subseteq F!Fds /\ High = {n \in F!Fds : n > 2} /\ F!Fds \subseteq Nat /\ -1 \notin F!Fds
  BY <1>1, <1>2 DEF High
<1>4. Closed \notin F!Fds /\ Closed # -1
  <2>1. Closed \notin -1 .. FileMaxFd
    BY FileConstants DEF F!FileLifeConstants
  <2>2. 0 .. FileMaxFd \subseteq -1 .. FileMaxFd /\ -1 \in -1 .. FileMaxFd
    BY <1>1
  <2> QED BY <1>2, <2>1, <2>2
<1>5. Blocks \cap F!Std = {} /\ NoFile \notin F!Files /\ F!Files = F!Std \cup Blocks
  <2>1. Blocks \cap (Nat \cup {NoFile}) = {} /\ NoFile \notin 0 .. 2
    BY FileConstants DEF F!FileLifeConstants
  <2> QED BY <1>2, <2>1 DEF F!Files
<1>6. /\ Closed \notin Nodes /\ Used \subseteq F!Std /\ HostNode \in Nodes /\ Terminal \in Nodes
      /\ Closed \notin FileEntry
  BY <1>2, FileConstants DEF F!FileLifeConstants, FileEntry
<1>7. /\ F!M!Entry = FileEntry
      /\ \A k \in Nodes : F!File(k) \in FileEntry /\ F!File(k).node = k
      /\ \A e \in FileEntry : e.node \in Nodes /\ e.node # Closed
  BY <1>6 DEF F!M!Entry, FileEntry, F!File
<1> QED BY <1>2, <1>3, <1>4, <1>5, <1>6, <1>7 DEF High

LEMMA FileTypes ==
  ASSUME F!TypeOK
  PROVE  /\ map \in [F!Fds -> FileEntry \cup {Closed}]
         /\ saved \in [F!Std -> FileEntry \cup {Closed}]
         /\ fd \in [F!Files -> F!Fds \cup {-1, Closed}]
         /\ node \in [F!Files -> Nodes \cup {Closed}]
         /\ ownF \subseteq F!Fds
         /\ pcF \in [Procs -> {"idle", "fdopen", "dup3", "fclose", "fclose both", "fclose f"}]
         /\ f \in [Procs -> F!Files \cup {NoFile}] /\ f2 \in [Procs -> Blocks \cup {NoFile}]
         /\ tfd \in [Procs -> F!Fds \cup {Closed}]
  BY FileFacts DEF F!TypeOK

LEMMA NewFdIsFree ==
  ASSUME F!FreeFds # {}
  PROVE  F!NewFd \in High /\ map[F!NewFd] = Closed
<1>1. F!FreeFds \subseteq Nat
  BY FileFacts DEF F!FreeFds
<1>2. \E x \in F!FreeFds : \A y \in F!FreeFds : x <= y
  BY <1>1, Least
<1>3. F!NewFd \in F!FreeFds
  BY <1>2 DEF F!NewFd
<1> QED BY <1>3, FileFacts DEF F!FreeFds

\* The users of a number, when a step changes none, or leaves one or none.
LEMMA SameUser ==
  ASSUME NEW n, OneUser(n), map'[n] # Closed <=> map[n] # Closed,
         \A x \in Blocks : OfFile(x, n)' <=> OfFile(x, n),
         \A p \in Procs : tfd'[p] = n <=> tfd[p] = n, n \in ownF' <=> n \in ownF
  PROVE  OneUser(n)'
  BY DEF OneUser

LEMMA Unused ==
  ASSUME NEW n, map'[n] = Closed, \A x \in Blocks : ~OfFile(x, n)',
         \A p \in Procs : tfd'[p] # n, n \notin ownF'
  PROVE  OneUser(n)'
  BY DEF OneUser

LEMMA UsedByFile ==
  ASSUME NEW n, map'[n] # Closed, NEW b \in Blocks,
         \A x \in Blocks : OfFile(x, n)' <=> x = b,
         \A p \in Procs : tfd'[p] # n, n \notin ownF'
  PROVE  OneUser(n)'
  BY DEF OneUser

LEMMA UsedByCall ==
  ASSUME NEW n, map'[n] # Closed, NEW p \in Procs, \A x \in Blocks : ~OfFile(x, n)',
         \A q \in Procs : tfd'[q] = n <=> q = p, n \notin ownF'
  PROVE  OneUser(n)'
  BY DEF OneUser

LEMMA UsedByC ==
  ASSUME NEW n, map'[n] # Closed, \A x \in Blocks : ~OfFile(x, n)',
         \A q \in Procs : tfd'[q] # n, n \in ownF'
  PROVE  OneUser(n)'
  BY DEF OneUser

\* A call another thread is at, when its FILEs stay as they are.
LEMMA CallStays ==
  ASSUME NEW q \in Procs, AtCall(q), pcF'[q] = pcF[q], f'[q] = f[q], f2'[q] = f2[q],
         tfd'[q] = tfd[q],
         f[q] # NoFile => fd'[f[q]] = fd[f[q]] /\ (node[f[q]] # Closed => node'[f[q]] # Closed),
         f2[q] # NoFile => fd'[f2[q]] = fd[f2[q]] /\ (node[f2[q]] # Closed => node'[f2[q]] # Closed)
  PROVE  AtCall(q)'
<1> PICK a : a = f[q]
  OBVIOUS
<1> PICK b : b = f2[q]
  OBVIOUS
<1>1. f'[q] = a /\ f2'[q] = b /\ pcF'[q] = pcF[q] /\ tfd'[q] = tfd[q]
  OBVIOUS
<1>2. NoFile \notin Blocks
  BY FileFacts
<1> QED BY <1>1, <1>2 DEF AtCall, High, F!Fds, F!Std

LEMMA CallersStay ==
  ASSUME NEW x \in F!Files, OneCaller(x),
         \A q \in Procs : f'[q] \in {f[q], NoFile} /\ f2'[q] \in {f2[q], NoFile}
  PROVE  OneCaller(x)'
<1>1. x # NoFile
  BY FileFacts
<1>2. \A q \in Procs : (x = f'[q] => x = f[q]) /\ (x = f2'[q] => x = f2[q])
  BY <1>1
<1> QED BY <1>2 DEF OneCaller, WorksOn

LEMMA FopenOpenKeeps ==
  ASSUME FileInv, NEW p \in Procs, NEW x \in Used \cup Blocks \cup {NoFile},
         NEW n \in Nodes, F!FopenOpen(p, x, n)
  PROVE  FileInv'
<1>1. F!FreeFds # {} /\ pcF[p] = "idle"
  BY DEF F!FopenOpen
<1>2. PICK k \in High : k = F!NewFd /\ map[k] = Closed
  BY <1>1, NewFdIsFree
<1>3. PICK e \in FileEntry : e = F!File(n)
  BY FileFacts
<1>4. /\ map' = [map EXCEPT ![k] = e] /\ tfd' = [tfd EXCEPT ![p] = k]
      /\ f' = [f EXCEPT ![p] = x] /\ pcF' = [pcF EXCEPT ![p] = "fdopen"]
      /\ saved' = saved /\ fd' = fd /\ node' = node /\ ownF' = ownF /\ f2' = f2
  BY <1>2, <1>3 DEF F!FopenOpen, F!At
<1>5. /\ x = NoFile => F!NoneUnder
      /\ x # NoFile => F!Resting(x) /\ (F!NoneUnder \/ F!ClosedUnder(x))
  BY DEF F!FopenOpen
<1>6. /\ F!TypeOK /\ StdFiles /\ (\A q \in Procs : AtCall(q))
      /\ (\A y \in F!Files : OneCaller(y) /\ AloneUnder(y) /\ RightFile(y))
      /\ \A i \in High : OneUser(i)
  BY DEF FileInv
<1>7. x \in F!Files \cup {NoFile} /\ k \in F!Fds /\ k # Closed /\ k \notin F!Std
  BY FileFacts DEF High
<1>8. /\ map'[k] = e /\ e # Closed /\ \A i \in F!Fds \ {k} : map'[i] = map[i]
      /\ pcF'[p] = "fdopen" /\ f'[p] = x /\ tfd'[p] = k /\ f2[p] = NoFile /\ f[p] = NoFile
      /\ tfd[p] = Closed
      /\ \A q \in Procs \ {p} : pcF'[q] = pcF[q] /\ f'[q] = f[q] /\ tfd'[q] = tfd[q]
  <2>1. f2[p] = NoFile /\ f[p] = NoFile /\ tfd[p] = Closed
    BY <1>1, <1>6 DEF AtCall
  <2>2. map'[k] = e /\ e # Closed /\ \A i \in F!Fds \ {k} : map'[i] = map[i]
    BY <1>4, <1>6, <1>7, FileTypes, FileFacts
  <2>3. /\ pcF'[p] = "fdopen" /\ f'[p] = x /\ tfd'[p] = k
        /\ \A q \in Procs \ {p} : pcF'[q] = pcF[q] /\ f'[q] = f[q] /\ tfd'[q] = tfd[q]
    BY <1>4, <1>6, FileTypes
  <2> QED BY <2>1, <2>2, <2>3
<1>9. F!TypeOK'
  <2>1. /\ map' \in [F!Fds -> FileEntry \cup {Closed}] /\ tfd' \in [Procs -> F!Fds \cup {Closed}]
        /\ f' \in [Procs -> F!Files \cup {NoFile}]
        /\ pcF' \in [Procs -> {"idle", "fdopen", "dup3", "fclose", "fclose both", "fclose f"}]
    BY <1>4, <1>6, <1>7, FileTypes
  <2> QED BY <1>4, <1>6, <2>1, FileFacts DEF F!TypeOK
<1>10. StdFiles'
  BY <1>4, <1>6, <1>7, <1>8, FileFacts DEF StdFiles
<1>11. ASSUME NEW q \in Procs PROVE AtCall(q)'
  <2>1. CASE q # p
    BY <1>4, <1>6, <1>8, <2>1, CallStays
  <2>2. CASE q = p
    <3>1. x # NoFile => fd[x] \in F!Fds
      <4> SUFFICES ASSUME x # NoFile PROVE fd[x] \in F!Fds
        OBVIOUS
      <4>1. x \in F!Files /\ F!Resting(x)
        BY <1>5, <1>7
      <4>2. fd[x] # Closed /\ fd[x] # -1
        BY <1>6, <4>1 DEF F!Resting, RightFile
      <4> QED BY <1>6, <4>1, <4>2, FileTypes
    <3> QED BY <1>4, <1>8, <2>2, <3>1 DEF AtCall
  <2> QED BY <2>1, <2>2
<1>12. ASSUME NEW y \in F!Files PROVE OneCaller(y)'
  <2>1. y # NoFile
    BY FileFacts
  <2>2. CASE y # x
    <3>1. \A q \in Procs : (y = f'[q] <=> y = f[q]) /\ (y = f2'[q] <=> y = f2[q])
      BY <1>4, <1>8, <2>1, <2>2
    <3> QED BY <1>6, <3>1 DEF OneCaller, WorksOn
  <2>3. CASE y = x
    <3>1. \A q \in Procs : y # f[q] /\ y # f2[q]
      BY <1>5, <2>1, <2>3 DEF F!Resting
    <3> QED BY <1>4, <1>8, <3>1 DEF OneCaller, WorksOn
  <2> QED BY <2>2, <2>3
<1>13. ASSUME NEW y \in F!Files PROVE AloneUnder(y)'
  <2> SUFFICES ASSUME F!ClosedUnder(y)' PROVE AloneUnder(y)'
    BY DEF AloneUnder
  <2>1. F!ClosedUnder(y) /\ \A z \in F!Files : F!ClosedUnder(z)' <=> F!ClosedUnder(z)
    BY <1>4 DEF F!ClosedUnder
  <2>2. x = y
    <3>1. ~F!NoneUnder
      BY <2>1 DEF F!NoneUnder
    <3>2. x \in F!Files /\ F!ClosedUnder(x)
      BY <1>5, <1>7, <3>1
    <3> QED BY <1>6, <2>1, <3>2 DEF AloneUnder
  <2> QED BY <1>4, <1>6, <1>8, <2>1, <2>2 DEF AloneUnder
<1>14. ASSUME NEW y \in F!Files PROVE RightFile(y)'
  <2>1. fd[y] \in F!Fds /\ node[y] # Closed => map'[fd[y]] = map[fd[y]]
    BY <1>2, <1>6, <1>8 DEF RightFile
  <2> QED BY <1>1, <1>4, <1>6, <1>8, <2>1 DEF RightFile
<1>15. ASSUME NEW i \in High PROVE OneUser(i)'
  <2>1. OneUser(i) /\ \A z \in Blocks : OfFile(z, i)' <=> OfFile(z, i)
    BY <1>4, <1>6 DEF OfFile
  <2>2. CASE i = k
    BY <1>2, <1>4, <1>8, <2>1, <2>2, UsedByCall DEF OneUser
  <2>3. CASE i # k
    <3>1. map'[i] = map[i]
      BY <1>8, <2>3 DEF High
    <3>2. \A q \in Procs : tfd'[q] = i <=> tfd[q] = i
      BY <1>8, <2>3, FileFacts
    <3> QED BY <1>4, <2>1, <3>1, <3>2, SameUser
  <2> QED BY <2>2, <2>3
<1> QED BY <1>9, <1>10, <1>11, <1>12, <1>13, <1>14, <1>15 DEF FileInv

LEMMA FileInvIs ==
  ASSUME FileInv
  PROVE  /\ F!TypeOK /\ StdFiles /\ (\A q \in Procs : AtCall(q))
         /\ (\A x \in F!Files : OneCaller(x) /\ AloneUnder(x) /\ RightFile(x))
         /\ \A n \in High : OneUser(n)
  BY DEF FileInv

LEMMA LocalsStay ==
  ASSUME FileInv, UNCHANGED F!locals,
         \A q \in Procs, x \in F!Files :
           WorksOn(q, x) => fd'[x] = fd[x] /\ (node[x] # Closed => node'[x] # Closed)
  PROVE  (\A q \in Procs : AtCall(q)') /\ \A x \in F!Files : OneCaller(x)'
<1>1. pcF' = pcF /\ f' = f /\ f2' = f2 /\ tfd' = tfd
  BY DEF F!locals
<1>2. ASSUME NEW q \in Procs PROVE AtCall(q)'
  <2>1. AtCall(q) /\ f[q] \in F!Files \cup {NoFile} /\ f2[q] \in F!Files \cup {NoFile}
    BY FileInvIs, FileTypes, FileFacts
  <2>2. /\ f[q] # NoFile => fd'[f[q]] = fd[f[q]] /\ (node[f[q]] # Closed => node'[f[q]] # Closed)
        /\ f2[q] # NoFile =>
             fd'[f2[q]] = fd[f2[q]] /\ (node[f2[q]] # Closed => node'[f2[q]] # Closed)
    BY <2>1 DEF WorksOn
  <2> QED BY <1>1, <2>1, <2>2, CallStays
<1>3. ASSUME NEW x \in F!Files PROVE OneCaller(x)'
  BY <1>1, <1>3, FileInvIs, CallersStay
<1> QED BY <1>2, <1>3

LEMMA CreateKeeps ==
  ASSUME FileInv, NEW n \in Nodes, F!Open(n)
  PROVE  FileInv'
<1>1. F!FreeFds # {} /\ F!NoneUnder
  BY DEF F!Open
<1>2. PICK k \in High : k = F!NewFd /\ map[k] = Closed
  BY <1>1, NewFdIsFree
<1>3. PICK e \in FileEntry : e = F!File(n)
  BY FileFacts
<1>4. /\ map' = [map EXCEPT ![k] = e] /\ ownF' = ownF \cup {k}
      /\ saved' = saved /\ fd' = fd /\ node' = node
      /\ f' = f /\ f2' = f2 /\ tfd' = tfd /\ pcF' = pcF
  BY <1>2, <1>3 DEF F!Open, F!locals
<1>5. k \in F!Fds /\ k # Closed /\ k \notin F!Std /\ F!TypeOK
  BY FileFacts, FileInvIs DEF High
<1>6. map'[k] = e /\ e # Closed /\ \A i \in F!Fds \ {k} : map'[i] = map[i]
  BY <1>4, <1>5, FileTypes, FileFacts
<1>7. F!TypeOK'
  <2>1. map' \in [F!Fds -> FileEntry \cup {Closed}] /\ ownF' \subseteq F!Fds
    BY <1>4, <1>5, FileTypes
  <2> QED BY <1>4, <1>5, <2>1, FileFacts DEF F!TypeOK
<1>8. StdFiles'
  BY <1>4, <1>5, <1>6, FileFacts, FileInvIs DEF StdFiles
<1>9. (\A q \in Procs : AtCall(q)') /\ \A x \in F!Files : OneCaller(x)'
  BY <1>4, LocalsStay DEF F!locals
<1>10. ASSUME NEW x \in F!Files PROVE AloneUnder(x)'
  BY <1>1, <1>4 DEF AloneUnder, F!NoneUnder, F!ClosedUnder
<1>11. ASSUME NEW x \in F!Files PROVE RightFile(x)'
  <2>1. RightFile(x)
    BY FileInvIs
  <2>2. fd[x] \in F!Fds /\ node[x] # Closed => map'[fd[x]] = map[fd[x]]
    BY <1>2, <1>6, <2>1 DEF RightFile
  <2> QED BY <1>4, <2>1, <2>2 DEF RightFile
<1>12. ASSUME NEW i \in High PROVE OneUser(i)'
  <2>1. OneUser(i) /\ \A z \in Blocks : OfFile(z, i)' <=> OfFile(z, i)
    BY <1>4, FileInvIs DEF OfFile
  <2>2. CASE i = k
    BY <1>2, <1>4, <1>6, <2>1, <2>2, FileFacts, UsedByC DEF OneUser
  <2>3. CASE i # k
    <3>1. map'[i] = map[i]
      BY <1>6, <2>3 DEF High
    <3> QED BY <1>4, <2>1, <2>3, <3>1, SameUser
  <2> QED BY <2>2, <2>3
<1> QED BY <1>7, <1>8, <1>9, <1>10, <1>11, <1>12 DEF FileInv

\* Closing a number nobody else uses: what becomes of the tables.
Lets(n) == map' = [map EXCEPT ![n] = Closed]

LEMMA LetGo ==
  ASSUME F!TypeOK, NEW n \in High, Lets(n)
  PROVE  /\ map' \in [F!Fds -> FileEntry \cup {Closed}] /\ map'[n] = Closed
         /\ \A k \in F!Fds \ {n} : map'[k] = map[k]
         /\ \A i \in F!Std : map'[i] = map[i]
<1>1. n \in F!Fds /\ n \notin F!Std /\ F!Std \subseteq F!Fds
  BY FileFacts DEF High
<1>2. map \in [F!Fds -> FileEntry \cup {Closed}]
  BY FileTypes
<1> QED BY <1>1, <1>2 DEF Lets

LEMMA CloseOfIs ==
  ASSUME NEW n \in F!Fds \cup {-1}
  PROVE  /\ n \in High => F!CloseOf(n) = [map EXCEPT ![n] = Closed]
         /\ n \notin High => F!CloseOf(n) = map
  BY FileFacts DEF F!CloseOf, High

LEMMA CloseFdKept ==
  ASSUME FileInv, NEW n \in F!Fds, F!CloseFd(n)
  PROVE  FileInv'
<1>1. /\ n \in ownF /\ map' = F!CloseOf(n) /\ ownF' = ownF \ {n}
      /\ saved' = saved /\ fd' = fd /\ node' = node
      /\ f' = f /\ f2' = f2 /\ tfd' = tfd /\ pcF' = pcF
  BY DEF F!CloseFd, F!locals
<1>2. F!TypeOK /\ n \in High /\ OneUser(n)
  BY <1>1, FileInvIs DEF StdFiles, High
<1>3. Lets(n)
  BY <1>1, <1>2, CloseOfIs DEF Lets
<1>4. F!TypeOK'
  BY <1>1, <1>2, <1>3, LetGo, FileTypes, FileFacts DEF F!TypeOK
<1>5. StdFiles'
  BY <1>1, <1>2, <1>3, LetGo, FileInvIs DEF StdFiles
<1>6. (\A q \in Procs : AtCall(q)') /\ \A x \in F!Files : OneCaller(x)'
  BY <1>1, LocalsStay DEF F!locals
<1>7. ASSUME NEW x \in F!Files PROVE AloneUnder(x)'
  <2>1. AloneUnder(x)
    BY FileInvIs
  <2> QED BY <1>1, <2>1 DEF AloneUnder, F!ClosedUnder
<1>8. ASSUME NEW x \in F!Files PROVE RightFile(x)'
  <2>1. RightFile(x)
    BY FileInvIs
  <2>2. fd[x] \in F!Fds /\ node[x] # Closed => fd[x] # n
    <3>1. CASE x \in Blocks
      BY <1>1, <1>2, <3>1 DEF OneUser, OfFile
    <3>2. CASE x \in F!Std
      BY <1>2, <3>2, FileInvIs DEF StdFiles, High
    <3> QED BY <3>1, <3>2, FileFacts
  <2>3. fd[x] \in F!Fds /\ node[x] # Closed => map'[fd[x]] = map[fd[x]]
    BY <1>2, <1>3, <2>2, LetGo
  <2> QED BY <1>1, <2>1, <2>3 DEF RightFile
<1>9. ASSUME NEW i \in High PROVE OneUser(i)'
  <2>1. OneUser(i) /\ \A z \in Blocks : OfFile(z, i)' <=> OfFile(z, i)
    BY <1>1, FileInvIs DEF OfFile
  <2>2. CASE i = n
    BY <1>1, <1>2, <1>3, <2>1, <2>2, LetGo, Unused DEF OneUser
  <2>3. CASE i # n
    <3>1. map'[i] = map[i]
      BY <1>2, <1>3, <2>3, LetGo DEF High
    <3> QED BY <1>1, <2>1, <2>3, <3>1, SameUser
  <2> QED BY <2>2, <2>3
<1> QED BY <1>4, <1>5, <1>6, <1>7, <1>8, <1>9 DEF FileInv

LEMMA InHandIsOpen ==
  ASSUME FileInv, NEW q \in Procs, NEW x \in F!Files, WorksOn(q, x)
  PROVE  fd[x] # Closed /\ pcF[q] # "idle"
<1>1. AtCall(q) /\ x # NoFile
  BY FileInvIs, FileFacts
<1>2. pcF[q] \in {"idle", "fdopen", "dup3", "fclose", "fclose both", "fclose f"}
  BY FileInvIs, FileTypes
<1>3. CASE x = f[q]
  BY <1>1, <1>3, FileFacts DEF AtCall
<1>4. CASE x = f2[q]
  <2>1. pcF[q] \in {"dup3", "fclose", "fclose both"}
    BY <1>1, <1>2, <1>4 DEF AtCall
  <2>2. fd[x] \in High \/ fd[x] = -1
    BY <1>1, <1>4, <2>1 DEF AtCall
  <2> QED BY <2>1, <2>2, FileFacts
<1> QED BY <1>3, <1>4 DEF WorksOn

LEMMA FopenAllocKeeps ==
  ASSUME FileInv, NEW p \in Procs, NEW b \in Blocks, F!FopenAlloc(p, b)
  PROVE  FileInv'
<1>1. pcF[p] = "fdopen" /\ fd[b] = Closed /\ F!TypeOK /\ b \in F!Files /\ b # NoFile
  BY FileInvIs, FileFacts DEF F!FopenAlloc
<1>2. PICK k \in High : k = tfd[p] /\ f2[p] = NoFile
  BY <1>1, FileInvIs DEF AtCall
<1>3. OneUser(k) /\ map[k] # Closed /\ k \in F!Fds /\ k # Closed
  BY <1>2, FileInvIs, FileFacts DEF OneUser, High
<1>4. PICK m \in Nodes : m = map[k].node /\ m # Closed
  <2>1. map[k] \in FileEntry
    BY <1>1, <1>3, FileTypes
  <2>2. map[k].node \in Nodes
    BY <2>1 DEF FileEntry
  <2> QED BY <2>2, FileFacts
<1>5. \A q \in Procs : ~WorksOn(q, b)
  BY <1>1, InHandIsOpen
<1>6. /\ fd' = [fd EXCEPT ![b] = k] /\ node' = [node EXCEPT ![b] = m]
      /\ map' = map /\ saved' = saved /\ ownF' = ownF
      /\ tfd' = [tfd EXCEPT ![p] = Closed]
  BY <1>2, <1>4 DEF F!FopenAlloc, F!Done
<1>7. \/ /\ f[p] = NoFile /\ pcF' = [pcF EXCEPT ![p] = "idle"]
         /\ f' = [f EXCEPT ![p] = NoFile] /\ f2' = [f2 EXCEPT ![p] = NoFile]
      \/ /\ f[p] # NoFile /\ pcF' = [pcF EXCEPT ![p] = "dup3"]
         /\ f' = f /\ f2' = [f2 EXCEPT ![p] = b]
  BY DEF F!FopenAlloc, F!Done, F!At
<1>8. /\ fd'[b] = k /\ node'[b] = m
      /\ \A x \in F!Files \ {b} : fd'[x] = fd[x] /\ node'[x] = node[x]
  BY <1>1, <1>6, FileTypes
<1>9. tfd'[p] = Closed /\ \A q \in Procs \ {p} : tfd'[q] = tfd[q]
  BY <1>1, <1>6, FileTypes
<1>10. /\ f' \in [Procs -> F!Files \cup {NoFile}] /\ f2' \in [Procs -> Blocks \cup {NoFile}]
       /\ pcF' \in [Procs -> {"idle", "fdopen", "dup3", "fclose", "fclose both", "fclose f"}]
       /\ \A q \in Procs \ {p} : f'[q] = f[q] /\ f2'[q] = f2[q] /\ pcF'[q] = pcF[q]
  BY <1>1, <1>7, FileTypes, ZenonT(60)
<1>11. f'[p] = f[p] /\ (f[p] = NoFile => pcF'[p] = "idle" /\ f2'[p] = NoFile)
       /\ (f[p] # NoFile => pcF'[p] = "dup3" /\ f2'[p] = b)
  BY <1>1, <1>7, FileTypes
<1>12. F!TypeOK'
  <2>1. /\ fd' \in [F!Files -> F!Fds \cup {-1, Closed}] /\ node' \in [F!Files -> Nodes \cup {Closed}]
        /\ tfd' \in [Procs -> F!Fds \cup {Closed}]
    BY <1>1, <1>3, <1>6, FileTypes
  <2> QED BY <1>1, <1>6, <1>10, <2>1, FileFacts DEF F!TypeOK
<1>13. StdFiles'
  <2>1. \A i \in F!Std : i \in F!Files \ {b}
    BY FileFacts
  <2> QED BY <1>6, <1>8, <2>1, FileInvIs DEF StdFiles
<1>14. ASSUME NEW q \in Procs PROVE AtCall(q)'
  <2>1. CASE q # p
    <3>1. AtCall(q) /\ f[q] \in F!Files \cup {NoFile} /\ f2[q] \in F!Files \cup {NoFile}
      BY <1>1, FileInvIs, FileTypes, FileFacts
    <3>2. f[q] # b /\ f2[q] # b
      BY <1>5 DEF WorksOn
    <3> QED BY <1>8, <1>9, <1>10, <2>1, <3>1, <3>2, CallStays
  <2>2. CASE q = p
    <3>1. f[p] # NoFile => fd'[f[p]] \in F!Fds
      <4>1. AtCall(p) /\ f[p] \in F!Files \cup {NoFile} /\ f[p] # b
        BY <1>1, <1>5, FileInvIs, FileTypes DEF WorksOn
      <4> QED BY <1>8, <4>1 DEF AtCall
    <3> PICK a : a = f[p]
      OBVIOUS
    <3>2. f'[p] = a /\ (a = NoFile => pcF'[p] = "idle" /\ f2'[p] = NoFile)
          /\ (a # NoFile => pcF'[p] = "dup3" /\ f2'[p] = b /\ fd'[a] \in F!Fds)
      BY <1>11, <3>1
    <3>3. m # Closed /\ fd'[b] \in High /\ node'[b] = m /\ tfd'[p] = Closed
      BY <1>4, <1>8, <1>9
    <3>4. AtCall(p)'
      BY <1>1, <3>2, <3>3, FileFacts DEF AtCall, High, F!Fds, F!Std
    <3> QED BY <2>2, <3>4
  <2> QED BY <2>1, <2>2
<1>15. ASSUME NEW x \in F!Files PROVE OneCaller(x)'
  <2>1. x # NoFile /\ OneCaller(x)
    BY FileInvIs, FileFacts
  <2>2. CASE x # b
    <3>1. \A q \in Procs : (x = f'[q] <=> x = f[q]) /\ (x = f2'[q] <=> x = f2[q])
      BY <1>2, <1>10, <1>11, <2>1, <2>2
    <3> QED BY <2>1, <3>1 DEF OneCaller, WorksOn
  <2>3. CASE x = b
    <3>1. \A q \in Procs : x # f[q] /\ x # f2[q]
      BY <1>5, <2>3 DEF WorksOn
    <3>2. \A q \in Procs : x # f'[q] /\ (x = f2'[q] => q = p)
      BY <1>10, <1>11, <3>1
    <3> QED BY <3>2 DEF OneCaller, WorksOn
  <2> QED BY <2>2, <2>3
<1>16. \A x \in F!Files : F!ClosedUnder(x)' => x # b /\ F!ClosedUnder(x)
  BY <1>4, <1>8 DEF F!ClosedUnder
<1>17. ASSUME NEW x \in F!Files PROVE AloneUnder(x)'
  <2> SUFFICES ASSUME F!ClosedUnder(x)' PROVE AloneUnder(x)'
    BY DEF AloneUnder
  <2>1. F!ClosedUnder(x) /\ x # b /\ AloneUnder(x)
    BY <1>16, FileInvIs
  <2>2. f[p] = x /\ x # NoFile
    BY <1>1, <2>1, FileFacts DEF AloneUnder
  <2>3. ASSUME NEW z \in Blocks \ {x}, fd'[z] = fd'[x] PROVE \E q \in Procs : f2'[q] = z
    <3>1. CASE z = b
      BY <1>11, <2>2, <3>1
    <3>2. CASE z # b
      <4>1. fd[z] = fd[x] /\ z # NoFile
        BY <1>8, <2>1, <2>3, <3>2, FileFacts
      <4>2. PICK q \in Procs : f2[q] = z
        BY <2>1, <2>3, <4>1 DEF AloneUnder
      <4>3. q # p
        BY <1>2, <4>1, <4>2
      <4> QED BY <1>10, <4>2, <4>3
    <3> QED BY <3>1, <3>2
  <2>4. fd'[x] = fd[x] /\ \A q \in Procs : pcF'[q] # "idle" => f'[q] = x
    BY <1>1, <1>8, <1>10, <1>11, <2>1, <2>2 DEF AloneUnder
  <2> QED BY <1>6, <1>16, <2>1, <2>3, <2>4 DEF AloneUnder
<1>18. ASSUME NEW x \in F!Files PROVE RightFile(x)'
  <2>1. CASE x = b
    BY <1>3, <1>4, <1>6, <1>8, <2>1, FileFacts DEF RightFile
  <2>2. CASE x # b
    <3>1. RightFile(x) /\ fd'[x] = fd[x] /\ node'[x] = node[x]
      BY <1>8, <2>2, FileInvIs
    <3>2. fd[x] = -1 => \E q \in Procs : f2'[q] = x /\ pcF'[q] = "fclose"
      BY <1>1, <1>10, <3>1 DEF RightFile
    <3>3. map' = map
      BY <1>6
    <3> QED BY <3>1, <3>2, <3>3 DEF RightFile, F!Fds
  <2> QED BY <2>1, <2>2
<1>19. ASSUME NEW i \in High PROVE OneUser(i)'
  <2>1. OneUser(i)
    BY FileInvIs
  <2>2. \A z \in Blocks : z # b => (OfFile(z, i)' <=> OfFile(z, i))
    BY <1>8, FileFacts DEF OfFile
  <2>3. OfFile(b, i)' <=> i = k
    BY <1>4, <1>8 DEF OfFile
  <2>4. ~OfFile(b, i)
    BY <1>1, FileFacts DEF OfFile
  <2>5. CASE i = k
    BY <1>2, <1>3, <1>6, <1>9, <2>1, <2>2, <2>3, <2>5, UsedByFile DEF OneUser
  <2>6. CASE i # k
    <3>1. \A q \in Procs : tfd'[q] = i <=> tfd[q] = i
      BY <1>2, <1>9, <2>6, FileFacts
    <3> QED BY <1>6, <2>1, <2>2, <2>3, <2>4, <2>6, <3>1, SameUser
  <2> QED BY <2>5, <2>6
<1> QED BY <1>12, <1>13, <1>14, <1>15, <1>17, <1>18, <1>19 DEF FileInv

LEMMA FopenNoMemKeeps ==
  ASSUME FileInv, NEW p \in Procs, F!FopenNoMem(p)
  PROVE  FileInv'
<1>1. pcF[p] = "fdopen" /\ F!TypeOK
  BY FileInvIs DEF F!FopenNoMem
<1>2. PICK k \in High : k = tfd[p] /\ f2[p] = NoFile
  BY <1>1, FileInvIs DEF AtCall
<1>3. OneUser(k) /\ k \in F!Fds /\ k # Closed
  BY <1>2, FileInvIs, FileFacts
<1>4. /\ Lets(k) /\ tfd' = [tfd EXCEPT ![p] = Closed]
      /\ saved' = saved /\ fd' = fd /\ node' = node /\ ownF' = ownF
  BY <1>2, <1>3, CloseOfIs DEF F!FopenNoMem, F!Done, Lets
<1>5. \/ /\ f[p] = NoFile /\ pcF' = [pcF EXCEPT ![p] = "idle"]
         /\ f' = [f EXCEPT ![p] = NoFile] /\ f2' = [f2 EXCEPT ![p] = NoFile]
      \/ /\ f[p] # NoFile /\ pcF' = [pcF EXCEPT ![p] = "fclose f"]
         /\ f' = f /\ f2' = f2
  BY DEF F!FopenNoMem, F!Done, F!At
<1>6. tfd'[p] = Closed /\ \A q \in Procs \ {p} : tfd'[q] = tfd[q]
  BY <1>1, <1>4, FileTypes
<1>7. /\ pcF' \in [Procs -> {"idle", "fdopen", "dup3", "fclose", "fclose both", "fclose f"}]
      /\ \A q \in Procs \ {p} : pcF'[q] = pcF[q]
      /\ (f[p] = NoFile => pcF'[p] = "idle") /\ (f[p] # NoFile => pcF'[p] = "fclose f")
  BY <1>1, <1>5, FileTypes
<1>8. f' = f /\ f2' = f2
  <2>1. f \in [Procs -> F!Files \cup {NoFile}] /\ f2 \in [Procs -> Blocks \cup {NoFile}]
    BY <1>1, FileTypes
  <2>2. f[p] = NoFile => [f EXCEPT ![p] = NoFile] = f
    BY <2>1
  <2>3. [f2 EXCEPT ![p] = NoFile] = f2
    BY <1>2, <2>1
  <2> QED BY <1>5, <2>2, <2>3
<1>9. F!TypeOK'
  <2>1. map' \in [F!Fds -> FileEntry \cup {Closed}] /\ tfd' \in [Procs -> F!Fds \cup {Closed}]
    BY <1>1, <1>4, LetGo, FileTypes
  <2> QED BY <1>1, <1>4, <1>7, <1>8, <2>1, FileFacts DEF F!TypeOK
<1>10. StdFiles'
  BY <1>1, <1>4, LetGo, FileInvIs DEF StdFiles
<1>11. ASSUME NEW q \in Procs PROVE AtCall(q)'
  <2>1. AtCall(q)
    BY FileInvIs
  <2>2. CASE q # p
    BY <1>4, <1>6, <1>7, <1>8, <2>1, <2>2, CallStays
  <2>3. CASE q = p
    <3> PICK a : a = f[p]
      OBVIOUS
    <3>1. /\ f'[p] = a /\ f2'[p] = NoFile /\ tfd'[p] = Closed
          /\ (a # NoFile => fd'[a] \in F!Fds)
          /\ (a = NoFile => pcF'[p] = "idle") /\ (a # NoFile => pcF'[p] = "fclose f")
      BY <1>2, <1>4, <1>6, <1>7, <1>8, <2>1, <2>3 DEF AtCall
    <3>2. AtCall(p)'
      BY <3>1 DEF AtCall, High, F!Fds, F!Std
    <3> QED BY <2>3, <3>2
  <2> QED BY <2>2, <2>3
<1>12. ASSUME NEW x \in F!Files PROVE OneCaller(x)'
  BY <1>8, <1>12, FileInvIs, CallersStay
<1>13. ASSUME NEW x \in F!Files PROVE AloneUnder(x)'
  <2>1. AloneUnder(x) /\ x # NoFile
    BY FileInvIs, FileFacts
  <2>2. AloneUnder(x) /\ F!ClosedUnder(x) => \A q \in Procs : pcF'[q] # "idle" => f'[q] = x
    BY <1>1, <1>7, <1>8 DEF AloneUnder
  <2> QED BY <1>4, <1>8, <2>1, <2>2 DEF AloneUnder, F!ClosedUnder
<1>14. ASSUME NEW x \in F!Files PROVE RightFile(x)'
  <2>1. RightFile(x)
    BY FileInvIs
  <2>2. fd[x] \in F!Fds /\ node[x] # Closed => fd[x] # k
    <3>1. CASE x \in Blocks
      BY <1>2, <1>3, <3>1 DEF OneUser, OfFile
    <3>2. CASE x \in F!Std
      BY <1>2, <3>2, FileInvIs DEF StdFiles, High
    <3> QED BY <3>1, <3>2, FileFacts
  <2>3. fd[x] \in F!Fds /\ node[x] # Closed => map'[fd[x]] = map[fd[x]]
    BY <1>1, <1>4, <2>2, LetGo
  <2>4. fd[x] = -1 => \E q \in Procs : f2'[q] = x /\ pcF'[q] = "fclose"
    BY <1>1, <1>7, <1>8, <2>1 DEF RightFile
  <2> QED BY <1>4, <2>1, <2>3, <2>4 DEF RightFile
<1>15. ASSUME NEW i \in High PROVE OneUser(i)'
  <2>1. OneUser(i) /\ \A z \in Blocks : OfFile(z, i)' <=> OfFile(z, i)
    BY <1>4, FileInvIs DEF OfFile
  <2>2. CASE i = k
    <3>1. map'[k] = Closed
      BY <1>1, <1>4, LetGo
    <3> QED BY <1>2, <1>3, <1>4, <1>6, <2>1, <2>2, <3>1, Unused DEF OneUser
  <2>3. CASE i # k
    <3>1. map'[i] = map[i]
      BY <1>1, <1>4, <2>3, LetGo DEF High
    <3>2. \A q \in Procs : tfd'[q] = i <=> tfd[q] = i
      BY <1>2, <1>6, <2>3, FileFacts
    <3> QED BY <1>4, <2>1, <2>3, <3>1, <3>2, SameUser
  <2> QED BY <2>2, <2>3
<1> QED BY <1>9, <1>10, <1>11, <1>12, <1>13, <1>14, <1>15 DEF FileInv

\* fclose of a FILE that is the only user of its number.
LEMMA IsSole ==
  ASSUME FileInv, NEW x \in F!Files, fd[x] \in High,
         F!ClosedUnder(x) => \A q \in Procs : f2[q] = NoFile /\ tfd[q] = Closed
  PROVE  /\ x \in Blocks /\ fd[x] \notin ownF
         /\ \A q \in Procs : tfd[q] # fd[x]
         /\ \A y \in Blocks : OfFile(y, fd[x]) => y = x
<1> PICK n \in High : n = fd[x]
  OBVIOUS
<1>1. x \in Blocks /\ n # Closed
  BY FileInvIs, FileFacts DEF StdFiles, High
<1>2. OneUser(n) /\ AloneUnder(x)
  BY FileInvIs
<1>3. CASE node[x] # Closed
  BY <1>1, <1>2, <1>3 DEF OneUser, OfFile
<1>4. CASE node[x] = Closed
  <2>1. F!ClosedUnder(x) /\ \A y \in Blocks : y # NoFile
    BY <1>1, <1>4, FileFacts DEF F!ClosedUnder
  <2> QED BY <1>1, <1>2, <2>1 DEF AloneUnder, OfFile
<1> QED BY <1>1, <1>3, <1>4

LEMMA Shut ==
  ASSUME FileInv, NEW x \in F!Files, F!FcloseOf(x), fd[x] # Closed,
         F!ClosedUnder(x) => \A q \in Procs : f2[q] = NoFile /\ tfd[q] = Closed,
         saved' = saved, ownF' = ownF, tfd' = tfd
  PROVE  /\ map' \in [F!Fds -> FileEntry \cup {Closed}]
         /\ fd' \in [F!Files -> F!Fds \cup {-1, Closed}]
         /\ node' \in [F!Files -> Nodes \cup {Closed}]
         /\ \A y \in F!Files : y # x \/ x \in F!Std => fd'[y] = fd[y] /\ node'[y] = node[y]
         /\ x \in Blocks => fd'[x] = Closed /\ node'[x] = Closed
         /\ StdFiles'
         /\ \A y \in F!Files : fd'[y] \in F!Fds /\ node'[y] # Closed =>
              map'[fd'[y]] # Closed /\ map'[fd'[y]].node = node'[y]
         /\ \A n \in High : OneUser(n)'
<1>1. F!TypeOK /\ StdFiles /\ (\A y \in F!Files : RightFile(y)) /\ \A n \in High : OneUser(n)
  BY FileInvIs
<1>2. CASE x \in F!Std
  <2>1. map' = map /\ fd' = fd /\ node' = node
    BY <1>2 DEF F!FcloseOf
  <2>2. StdFiles'
    BY <1>1, <2>1 DEF StdFiles
  <2>3. \A n \in High : OneUser(n)'
    BY <1>1, <2>1, SameUser DEF OfFile
  <2> QED BY <1>1, <1>2, <2>1, <2>2, <2>3, FileTypes, FileFacts DEF RightFile
<1>3. CASE x \in Blocks
  <2>1. x \notin F!Std /\ fd[x] \in F!Fds \cup {-1}
    <3>1. fd[x] \in F!Fds \cup {-1, Closed}
      BY <1>1, FileTypes
    <3> QED BY <1>3, <3>1, FileFacts
  <2>2. /\ fd' = [fd EXCEPT ![x] = Closed] /\ node' = [node EXCEPT ![x] = Closed]
        /\ map' = F!CloseOf(fd[x])
    BY <2>1 DEF F!FcloseOf
  <2>3. /\ fd'[x] = Closed /\ node'[x] = Closed
        /\ \A y \in F!Files \ {x} : fd'[y] = fd[y] /\ node'[y] = node[y]
        /\ fd' \in [F!Files -> F!Fds \cup {-1, Closed}]
        /\ node' \in [F!Files -> Nodes \cup {Closed}]
    BY <1>1, <2>2, FileTypes
  <2>4. \A n : \A y \in Blocks : OfFile(y, n)' <=> y # x /\ OfFile(y, n)
    BY <2>3, FileFacts DEF OfFile
  <2>5. CASE fd[x] \notin High
    <3>1. map' = map
      BY <2>1, <2>2, <2>5, CloseOfIs
    <3>2. StdFiles'
      BY <1>1, <2>1, <2>3, <3>1, FileFacts DEF StdFiles
    <3>3. \A n \in High : ~OfFile(x, n)
      BY <2>5 DEF OfFile
    <3>4. \A n \in High : OneUser(n)'
      BY <1>1, <2>4, <3>1, <3>3, SameUser
    <3>5. \A y \in F!Files : fd'[y] \in F!Fds /\ node'[y] # Closed =>
            map'[fd'[y]] # Closed /\ map'[fd'[y]].node = node'[y]
      BY <1>1, <2>3, <3>1 DEF RightFile
    <3>6. map' \in [F!Fds -> FileEntry \cup {Closed}]
      BY <1>1, <3>1, FileTypes
    <3> QED BY <1>3, <2>1, <2>3, <3>2, <3>4, <3>5, <3>6
  <2>6. CASE fd[x] \in High
    <3> PICK k \in High : k = fd[x]
      BY <2>6
    <3>1. Lets(k)
      BY <2>2, <2>1, CloseOfIs DEF Lets
    <3>2. k \notin ownF /\ (\A q \in Procs : tfd[q] # k) /\ \A y \in Blocks : OfFile(y, k) => y = x
      BY IsSole
    <3>3. StdFiles'
      BY <1>1, <2>1, <2>3, <3>1, LetGo, FileFacts DEF StdFiles
    <3>4. ASSUME NEW n \in High PROVE OneUser(n)'
      <4>1. CASE n = k
        BY <1>1, <2>4, <3>1, <3>2, <4>1, LetGo, Unused
      <4>2. CASE n # k
        <5>1. map'[n] = map[n] /\ ~OfFile(x, n)
          BY <1>1, <3>1, <4>2, LetGo DEF High, OfFile
        <5> QED BY <1>1, <2>4, <5>1, SameUser
      <4> QED BY <4>1, <4>2
    <3>5. ASSUME NEW y \in F!Files, fd'[y] \in F!Fds, node'[y] # Closed
          PROVE  map'[fd'[y]] # Closed /\ map'[fd'[y]].node = node'[y]
      <4>1. y # x /\ fd'[y] = fd[y] /\ node'[y] = node[y]
        BY <2>3, <3>5
      <4>2. fd[y] # k
        <5>1. CASE y \in Blocks
          BY <3>2, <3>5, <4>1, <5>1 DEF OfFile
        <5>2. CASE y \in F!Std
          BY <1>1, <5>2 DEF StdFiles, High
        <5> QED BY <5>1, <5>2, FileFacts
      <4>3. map'[fd[y]] = map[fd[y]]
        BY <1>1, <3>1, <3>5, <4>1, <4>2, LetGo
      <4> QED BY <1>1, <3>5, <4>1, <4>3 DEF RightFile
    <3>6. map' \in [F!Fds -> FileEntry \cup {Closed}]
      BY <1>1, <3>1, LetGo
    <3> QED BY <1>3, <2>1, <2>3, <3>3, <3>4, <3>5, <3>6
  <2> QED BY <2>5, <2>6
<1> QED BY <1>2, <1>3, FileFacts

\* A FILE that is closed under C's feet stays so, or is gone.
LEMMA StillUnder ==
  ASSUME FileInv, NEW x \in F!Files,
         \A y \in F!Files : y # x \/ x \in F!Std => fd'[y] = fd[y] /\ node'[y] = node[y],
         x \in Blocks => fd'[x] = Closed /\ node'[x] = Closed
  PROVE  \A y \in F!Files : F!ClosedUnder(y)' =>
           F!ClosedUnder(y) /\ fd'[y] = fd[y] /\ (y # x \/ x \in F!Std)
<1>1. ASSUME NEW y \in F!Files, F!ClosedUnder(y)'
      PROVE  F!ClosedUnder(y) /\ fd'[y] = fd[y] /\ (y # x \/ x \in F!Std)
  <2>1. y # x \/ x \in F!Std
    BY <1>1, FileFacts DEF F!ClosedUnder
  <2> QED BY <1>1, <2>1 DEF F!ClosedUnder
<1> QED BY <1>1

LEMMA AtRestShut ==
  ASSUME FileInv, NEW x \in F!Files, F!Resting(x), F!FcloseOf(x),
         saved' = saved, ownF' = ownF, UNCHANGED F!locals
  PROVE  FileInv'
<1>1. f' = f /\ f2' = f2 /\ tfd' = tfd /\ pcF' = pcF
  BY DEF F!locals
<1>2. F!ClosedUnder(x) => \A q \in Procs : f2[q] = NoFile /\ tfd[q] = Closed
  <2> SUFFICES ASSUME F!ClosedUnder(x), NEW q \in Procs PROVE f2[q] = NoFile /\ tfd[q] = Closed
    OBVIOUS
  <2>1. AloneUnder(x) /\ AtCall(q)
    BY FileInvIs
  <2>2. pcF[q] = "idle"
    BY <2>1 DEF AloneUnder, F!Resting
  <2> QED BY <2>1, <2>2 DEF AtCall
<1>3. fd[x] # Closed /\ (\A q \in Procs : ~WorksOn(q, x)) /\ F!TypeOK
  BY FileInvIs DEF F!Resting, WorksOn
<1>4. /\ map' \in [F!Fds -> FileEntry \cup {Closed}]
      /\ fd' \in [F!Files -> F!Fds \cup {-1, Closed}]
      /\ node' \in [F!Files -> Nodes \cup {Closed}]
      /\ StdFiles' /\ \A n \in High : OneUser(n)'
  BY <1>1, <1>2, <1>3, Shut
<1>5. /\ \A y \in F!Files : y # x \/ x \in F!Std => fd'[y] = fd[y] /\ node'[y] = node[y]
      /\ x \in Blocks => fd'[x] = Closed /\ node'[x] = Closed
      /\ \A y \in F!Files : fd'[y] \in F!Fds /\ node'[y] # Closed =>
           map'[fd'[y]] # Closed /\ map'[fd'[y]].node = node'[y]
  BY <1>1, <1>2, <1>3, Shut
<1>6. F!TypeOK'
  BY <1>1, <1>3, <1>4, FileFacts DEF F!TypeOK
<1>7. (\A q \in Procs : AtCall(q)') /\ \A y \in F!Files : OneCaller(y)'
  BY <1>3, <1>5, LocalsStay
<1>8. ASSUME NEW y \in F!Files PROVE AloneUnder(y)'
  <2> SUFFICES ASSUME F!ClosedUnder(y)' PROVE AloneUnder(y)'
    BY DEF AloneUnder
  <2>1. /\ \A z \in F!Files : F!ClosedUnder(z)' => F!ClosedUnder(z)
        /\ F!ClosedUnder(y) /\ fd'[y] = fd[y] /\ fd[y] # Closed
    BY <1>5, StillUnder DEF F!ClosedUnder
  <2>2. AloneUnder(y)
    BY FileInvIs
  <2>3. \A z \in Blocks : fd'[z] = fd[y] => fd[z] = fd[y]
    BY <1>5, <2>1, FileFacts
  <2> QED BY <1>1, <2>1, <2>2, <2>3 DEF AloneUnder
<1>9. ASSUME NEW y \in F!Files PROVE RightFile(y)'
  <2>1. fd'[y] = -1 => fd[y] = -1
    BY <1>5, FileFacts
  <2> QED BY <1>1, <1>5, <2>1, FileInvIs DEF RightFile, F!Fds
<1> QED BY <1>4, <1>6, <1>7, <1>8, <1>9 DEF FileInv

LEMMA FreopenNoFileKeeps ==
  ASSUME FileInv, NEW p \in Procs, NEW x \in Used \cup Blocks, F!FreopenNoFile(p, x)
  PROVE  FileInv'
  BY AtRestShut, FileFacts DEF F!FreopenNoFile

LEMMA FcloseKeeps ==
  ASSUME FileInv, NEW x \in Used \cup Blocks, F!Fclose(x)
  PROVE  FileInv'
  BY AtRestShut, FileFacts DEF F!Fclose

LEMMA FreopenCloseKeeps ==
  ASSUME FileInv, NEW p \in Procs, F!FreopenClose(p)
  PROVE  FileInv'
<1> PICK x : x = f2[p]
  OBVIOUS
<1> PICK a : a = f[p]
  OBVIOUS
<1>1. /\ pcF[p] \in {"fclose", "fclose both"} /\ F!FcloseOf(x)
      /\ saved' = saved /\ ownF' = ownF
  BY DEF F!FreopenClose
<1>2. /\ F!TypeOK /\ AtCall(p) /\ x \in Blocks /\ x \in F!Files /\ x # NoFile
      /\ a # NoFile /\ a \in F!Files /\ node[a] # Closed /\ node[x] # Closed
      /\ fd[x] # Closed /\ fd[a] \in F!Fds /\ tfd[p] = Closed
  <2>1. F!TypeOK /\ AtCall(p) /\ a \in F!Files \cup {NoFile}
    BY FileInvIs, FileTypes
  <2> QED BY <1>1, <2>1, FileFacts DEF AtCall
<1>3. \A y \in F!Files : ~F!ClosedUnder(y)
  BY <1>1, <1>2, FileInvIs DEF AloneUnder, F!ClosedUnder
<1>4. a # x /\ \A q \in Procs \ {p} : f[q] # x /\ f2[q] # x
  BY <1>2, FileInvIs DEF OneCaller, WorksOn
<1>5. tfd' = tfd
  <2>1. [tfd EXCEPT ![p] = Closed] = tfd
    BY <1>2, FileTypes
  <2> QED BY <2>1 DEF F!FreopenClose, F!Done
<1>6. /\ f' \in [Procs -> F!Files \cup {NoFile}] /\ f2' \in [Procs -> Blocks \cup {NoFile}]
      /\ pcF' \in [Procs -> {"idle", "fdopen", "dup3", "fclose", "fclose both", "fclose f"}]
      /\ \A q \in Procs \ {p} : f'[q] = f[q] /\ f2'[q] = f2[q] /\ pcF'[q] = pcF[q]
      /\ f2'[p] = NoFile
      /\ (pcF'[p] = "idle" /\ f'[p] = NoFile) \/ (pcF'[p] = "fclose f" /\ f'[p] = a)
  <2>1. /\ f2' = [f2 EXCEPT ![p] = NoFile]
        /\ \/ pcF' = [pcF EXCEPT ![p] = "idle"] /\ f' = [f EXCEPT ![p] = NoFile]
           \/ pcF' = [pcF EXCEPT ![p] = "fclose f"] /\ f' = f
    BY DEF F!FreopenClose, F!Done, F!At
  <2> QED BY <1>2, <2>1, FileTypes
<1>7. /\ map' \in [F!Fds -> FileEntry \cup {Closed}]
      /\ fd' \in [F!Files -> F!Fds \cup {-1, Closed}]
      /\ node' \in [F!Files -> Nodes \cup {Closed}]
      /\ StdFiles' /\ \A n \in High : OneUser(n)'
  BY <1>1, <1>2, <1>3, <1>5, Shut
<1>8. /\ \A y \in F!Files : y # x => fd'[y] = fd[y] /\ node'[y] = node[y]
      /\ fd'[x] = Closed /\ node'[x] = Closed
      /\ \A y \in F!Files : fd'[y] \in F!Fds /\ node'[y] # Closed =>
           map'[fd'[y]] # Closed /\ map'[fd'[y]].node = node'[y]
  BY <1>1, <1>2, <1>3, <1>5, Shut
<1>9. F!TypeOK'
  BY <1>1, <1>2, <1>5, <1>6, <1>7, FileFacts DEF F!TypeOK
<1>10. ASSUME NEW q \in Procs PROVE AtCall(q)'
  <2>1. CASE q # p
    <3>1. AtCall(q) /\ f[q] \in F!Files \cup {NoFile} /\ f2[q] \in F!Files \cup {NoFile}
      BY <1>2, FileInvIs, FileTypes, FileFacts
    <3> QED BY <1>4, <1>5, <1>6, <1>8, <2>1, <3>1, CallStays, ZenonT(60)
  <2>2. CASE q = p
    <3>1. fd'[a] \in F!Fds /\ tfd'[p] = Closed /\ a # NoFile
      BY <1>2, <1>4, <1>5, <1>8
    <3>2. AtCall(p)'
      BY <1>6, <3>1 DEF AtCall, High, F!Fds, F!Std
    <3> QED BY <2>2, <3>2
  <2> QED BY <2>1, <2>2
<1>11. ASSUME NEW y \in F!Files PROVE OneCaller(y)'
  <2>1. \A q \in Procs : f'[q] \in {f[q], NoFile} /\ f2'[q] \in {f2[q], NoFile}
    BY <1>6
  <2> QED BY <2>1, FileInvIs, CallersStay
<1>12. ASSUME NEW y \in F!Files PROVE AloneUnder(y)'
  BY <1>3, <1>8 DEF AloneUnder, F!ClosedUnder
<1>13. ASSUME NEW y \in F!Files PROVE RightFile(y)'
  <2>1. fd'[y] = -1 => y # x /\ fd[y] = -1
    BY <1>8, FileFacts
  <2>2. fd[y] = -1 => \E q \in Procs : f2[q] = y /\ pcF[q] = "fclose"
    BY FileInvIs DEF RightFile
  <2>3. fd'[y] = -1 => \E q \in Procs : f2'[q] = y /\ pcF'[q] = "fclose"
    BY <1>6, <2>1, <2>2
  <2> QED BY <1>8, <2>3 DEF RightFile, F!Fds
<1> QED BY <1>7, <1>9, <1>10, <1>11, <1>12, <1>13 DEF FileInv

LEMMA FreopenFailKeeps ==
  ASSUME FileInv, NEW p \in Procs, F!FreopenFail(p)
  PROVE  FileInv'
<1> PICK x : x = f[p]
  OBVIOUS
<1>1. pcF[p] = "fclose f" /\ F!FcloseOf(x) /\ saved' = saved /\ ownF' = ownF
  BY DEF F!FreopenFail
<1>2. /\ F!TypeOK /\ x \in F!Files /\ x # NoFile /\ fd[x] \in F!Fds
      /\ fd[x] # Closed /\ f2[p] = NoFile /\ tfd[p] = Closed
  <2>1. F!TypeOK /\ AtCall(p) /\ x \in F!Files \cup {NoFile}
    BY FileInvIs, FileTypes
  <2> QED BY <1>1, <2>1, FileFacts DEF AtCall
<1>3. F!ClosedUnder(x) => \A q \in Procs : f2[q] = NoFile /\ tfd[q] = Closed
  <2> SUFFICES ASSUME F!ClosedUnder(x), NEW q \in Procs PROVE f2[q] = NoFile /\ tfd[q] = Closed
    OBVIOUS
  <2>1. AloneUnder(x) /\ AtCall(q) /\ OneCaller(x)
    BY <1>2, FileInvIs
  <2>2. q # p => pcF[q] = "idle"
    BY <2>1 DEF AloneUnder, OneCaller, WorksOn
  <2> QED BY <1>2, <2>1, <2>2 DEF AtCall
<1>4. \A q \in Procs \ {p} : f[q] # x /\ f2[q] # x
  BY <1>2, FileInvIs DEF OneCaller, WorksOn
<1>5. tfd' = tfd /\ f2' = f2
  <2>1. [tfd EXCEPT ![p] = Closed] = tfd /\ [f2 EXCEPT ![p] = NoFile] = f2
    BY <1>2, FileTypes
  <2> QED BY <2>1 DEF F!FreopenFail, F!Done
<1>6. /\ f' \in [Procs -> F!Files \cup {NoFile}]
      /\ pcF' \in [Procs -> {"idle", "fdopen", "dup3", "fclose", "fclose both", "fclose f"}]
      /\ \A q \in Procs \ {p} : f'[q] = f[q] /\ pcF'[q] = pcF[q]
      /\ f'[p] = NoFile /\ pcF'[p] = "idle"
  <2>1. pcF' = [pcF EXCEPT ![p] = "idle"] /\ f' = [f EXCEPT ![p] = NoFile]
    BY DEF F!FreopenFail, F!Done, F!At
  <2> QED BY <1>2, <2>1, FileTypes
<1>7. /\ map' \in [F!Fds -> FileEntry \cup {Closed}]
      /\ fd' \in [F!Files -> F!Fds \cup {-1, Closed}]
      /\ node' \in [F!Files -> Nodes \cup {Closed}]
      /\ StdFiles' /\ \A n \in High : OneUser(n)'
  BY <1>1, <1>2, <1>3, <1>5, Shut
<1>8. /\ \A y \in F!Files : y # x \/ x \in F!Std => fd'[y] = fd[y] /\ node'[y] = node[y]
      /\ x \in Blocks => fd'[x] = Closed /\ node'[x] = Closed
      /\ \A y \in F!Files : fd'[y] \in F!Fds /\ node'[y] # Closed =>
           map'[fd'[y]] # Closed /\ map'[fd'[y]].node = node'[y]
  BY <1>1, <1>2, <1>3, <1>5, Shut
<1>9. F!TypeOK'
  BY <1>1, <1>2, <1>5, <1>6, <1>7, FileFacts DEF F!TypeOK
<1>10. ASSUME NEW q \in Procs PROVE AtCall(q)'
  <2>1. CASE q # p
    <3>1. AtCall(q) /\ f[q] \in F!Files \cup {NoFile} /\ f2[q] \in F!Files \cup {NoFile}
      BY <1>2, FileInvIs, FileTypes, FileFacts
    <3> QED BY <1>4, <1>5, <1>6, <1>8, <2>1, <3>1, CallStays
  <2>2. CASE q = p
    <3>1. AtCall(p)'
      BY <1>2, <1>5, <1>6 DEF AtCall, High, F!Fds, F!Std
    <3> QED BY <2>2, <3>1
  <2> QED BY <2>1, <2>2
<1>11. ASSUME NEW y \in F!Files PROVE OneCaller(y)'
  <2>1. \A q \in Procs : f'[q] \in {f[q], NoFile} /\ f2'[q] \in {f2[q], NoFile}
    BY <1>5, <1>6
  <2> QED BY <2>1, FileInvIs, CallersStay
<1>12. ASSUME NEW y \in F!Files PROVE AloneUnder(y)'
  <2> SUFFICES ASSUME F!ClosedUnder(y)' PROVE AloneUnder(y)'
    BY DEF AloneUnder
  <2>1. /\ \A z \in F!Files : F!ClosedUnder(z)' => F!ClosedUnder(z)
        /\ F!ClosedUnder(y) /\ fd'[y] = fd[y] /\ fd[y] # Closed
    BY <1>2, <1>8, StillUnder DEF F!ClosedUnder
  <2>2. AloneUnder(y)
    BY FileInvIs
  <2>3. \A z \in Blocks : fd'[z] = fd[y] => fd[z] = fd[y]
    BY <1>8, <2>1, FileFacts
  <2>4. \A q \in Procs : pcF'[q] # "idle" => f'[q] = y
    BY <1>6, <2>1, <2>2 DEF AloneUnder
  <2> QED BY <1>1, <1>5, <2>1, <2>2, <2>3, <2>4 DEF AloneUnder
<1>13. ASSUME NEW y \in F!Files PROVE RightFile(y)'
  <2>1. fd'[y] = -1 => fd[y] = -1
    BY <1>8, FileFacts
  <2>2. fd[y] = -1 => \E q \in Procs : f2[q] = y /\ pcF[q] = "fclose"
    BY FileInvIs DEF RightFile
  <2>3. fd'[y] = -1 => \E q \in Procs : f2'[q] = y /\ pcF'[q] = "fclose"
    BY <1>1, <1>5, <1>6, <2>1, <2>2
  <2> QED BY <1>8, <2>3 DEF RightFile, F!Fds
<1> QED BY <1>7, <1>9, <1>10, <1>11, <1>12, <1>13 DEF FileInv

LEMMA FreopenRefusedKeeps ==
  ASSUME FileInv, NEW p \in Procs, F!FreopenRefused(p)
  PROVE  FileInv'
<1>1. /\ pcF[p] = "dup3" /\ fd[f[p]] \in F!hosted
      /\ map' = map /\ saved' = saved /\ fd' = fd /\ node' = node /\ ownF' = ownF
      /\ f' = f /\ f2' = f2 /\ tfd' = tfd
      /\ \E step \in {"fclose", "fclose both"} :
           /\ step = "fclose both" => f[p] \notin F!Std
           /\ pcF' = [pcF EXCEPT ![p] = step]
  BY DEF F!FreopenRefused, F!At
<1>2. F!TypeOK /\ AtCall(p) /\ f[p] \in F!Files
  BY <1>1, FileInvIs, FileTypes DEF AtCall
<1>3. /\ pcF'[p] \in {"fclose", "fclose both"} /\ \A q \in Procs \ {p} : pcF'[q] = pcF[q]
      /\ pcF' \in [Procs -> {"idle", "fdopen", "dup3", "fclose", "fclose both", "fclose f"}]
  BY <1>1, <1>2, FileTypes
<1>4. node[f[p]] # Closed
  <2>1. fd[f[p]] \notin High /\ fd[f[p]] # Closed
    BY <1>1, FileFacts DEF F!hosted, High
  <2> QED BY <1>2, <2>1, FileInvIs DEF AloneUnder, F!ClosedUnder
<1>5. fd[f2[p]] \in High
  BY <1>1, <1>2 DEF AtCall
<1>6. F!TypeOK'
  BY <1>1, <1>2, <1>3 DEF F!TypeOK
<1>7. StdFiles' /\ \A n \in High : OneUser(n)'
  BY <1>1, FileInvIs, SameUser DEF StdFiles, OfFile
<1>8. ASSUME NEW q \in Procs PROVE AtCall(q)'
  <2>1. CASE q # p
    BY <1>1, <1>3, <2>1, FileInvIs, CallStays
  <2>2. CASE q = p
    BY <1>1, <1>2, <1>3, <1>4, <1>5, <2>2 DEF AtCall
  <2> QED BY <2>1, <2>2
<1>9. ASSUME NEW y \in F!Files PROVE OneCaller(y)'
  BY <1>1, FileInvIs, CallersStay
<1>10. ASSUME NEW y \in F!Files PROVE AloneUnder(y)'
  <2>1. \A q \in Procs : pcF'[q] # "idle" => pcF[q] # "idle"
    BY <1>1, <1>3
  <2> QED BY <1>1, <2>1, FileInvIs DEF AloneUnder, F!ClosedUnder
<1>11. ASSUME NEW y \in F!Files PROVE RightFile(y)'
  <2>1. \A q \in Procs : pcF[q] = "fclose" => pcF'[q] = "fclose"
    BY <1>1, <1>3
  <2> QED BY <1>1, <2>1, FileInvIs, ZenonT(60) DEF RightFile
<1> QED BY <1>6, <1>7, <1>8, <1>9, <1>10, <1>11 DEF FileInv

\* The file behind a number changes, for all FILEs on it.
LEMMA Repointed ==
  ASSUME FileInv, NEW n \in F!Fds, NEW e \in FileEntry, F!Repoint(n, e),
         fd' = fd, ownF' = ownF, tfd' = tfd,
         \/ n \in F!Std
         \/ n \in ownF /\ \A x \in Blocks : fd[x] # n
         \/ /\ n \notin ownF /\ \A p \in Procs : tfd[p] # n
            /\ \E b \in Blocks : \A x \in Blocks : fd[x] = n <=> x = b
  PROVE  /\ map' \in [F!Fds -> FileEntry \cup {Closed}]
         /\ node' \in [F!Files -> Nodes \cup {Closed}]
         /\ StdFiles'
         /\ \A x \in F!Files : /\ fd[x] = n => node'[x] # Closed
                               /\ fd[x] # n => node'[x] = node[x]
         /\ \A x \in F!Files : fd[x] \in F!Fds /\ node'[x] # Closed =>
              map'[fd[x]] # Closed /\ map'[fd[x]].node = node'[x]
         /\ \A i \in High : OneUser(i)'
<1> PICK m \in Nodes : m = e.node /\ m # Closed
  BY FileFacts
<1>1. /\ map' = [map EXCEPT ![n] = e]
      /\ node' = [x \in F!Files |-> IF fd[x] = n THEN m ELSE node[x]]
  BY DEF F!Repoint
<1>2. F!TypeOK /\ StdFiles /\ (\A x \in F!Files : RightFile(x)) /\ \A i \in High : OneUser(i)
  BY FileInvIs
<1>3. /\ map'[n] = e /\ e # Closed /\ \A i \in F!Fds \ {n} : map'[i] = map[i]
      /\ map' \in [F!Fds -> FileEntry \cup {Closed}]
  BY <1>1, <1>2, FileTypes, FileFacts
<1>4. /\ \A x \in F!Files : node'[x] = IF fd[x] = n THEN m ELSE node[x]
      /\ node' \in [F!Files -> Nodes \cup {Closed}]
  BY <1>1, <1>2, FileTypes
<1>5. StdFiles'
  <2>1. \A i \in F!Std : i \in F!Files /\ i \in F!Fds
    BY FileFacts
  <2> QED BY <1>2, <1>3, <1>4, <2>1 DEF StdFiles
<1>6. ASSUME NEW x \in F!Files, fd[x] \in F!Fds, node'[x] # Closed
      PROVE  map'[fd[x]] # Closed /\ map'[fd[x]].node = node'[x]
  <2>1. CASE fd[x] = n
    BY <1>3, <1>4, <2>1
  <2>2. CASE fd[x] # n
    BY <1>2, <1>3, <1>4, <1>6, <2>2 DEF RightFile
  <2> QED BY <2>1, <2>2
<1>7. ASSUME NEW i \in High PROVE OneUser(i)'
  <2>1. CASE i # n
    <3>1. map'[i] = map[i]
      BY <1>3, <2>1 DEF High
    <3>2. \A x \in Blocks : OfFile(x, i)' <=> OfFile(x, i)
      BY <1>4, <2>1, FileFacts DEF OfFile
    <3> QED BY <1>2, <3>1, <3>2, SameUser
  <2>2. CASE i = n
    <3>1. n \notin F!Std
      BY <2>2 DEF High
    <3>2. map'[n] # Closed
      BY <1>3
    <3>3. \A x \in Blocks : OfFile(x, n)' <=> fd[x] = n
      BY <1>4, FileFacts DEF OfFile
    <3>4. CASE n \in ownF /\ \A x \in Blocks : fd[x] # n
      <4>1. \A q \in Procs : tfd[q] # n
        BY <1>2, <2>2, <3>4 DEF OneUser
      <4> QED BY <2>2, <3>2, <3>3, <3>4, <4>1, UsedByC
    <3>5. CASE /\ n \notin ownF /\ \A p \in Procs : tfd[p] # n
               /\ \E b \in Blocks : \A x \in Blocks : fd[x] = n <=> x = b
      BY <2>2, <3>2, <3>3, <3>5, UsedByFile
    <3> QED BY <3>1, <3>4, <3>5
  <2> QED BY <2>1, <2>2
<1> QED BY <1>3, <1>4, <1>5, <1>6, <1>7

\* Where nobody is under a number, its change leaves the others as they are.
LEMMA RepointKeeps ==
  ASSUME FileInv, NEW n \in F!Fds, NEW e \in FileEntry, F!Repoint(n, e),
         fd' = fd, ownF' = ownF, UNCHANGED F!locals,
         saved' \in [F!Std -> FileEntry \cup {Closed}],
         \/ n \in F!Std
         \/ n \in ownF /\ \A x \in Blocks : fd[x] # n
         \/ /\ n \notin ownF /\ \A p \in Procs : tfd[p] # n
            /\ \E b \in Blocks : \A x \in Blocks : fd[x] = n <=> x = b
  PROVE  FileInv'
<1>1. f' = f /\ f2' = f2 /\ tfd' = tfd /\ pcF' = pcF /\ F!TypeOK
  BY FileInvIs DEF F!locals
<1>2. /\ map' \in [F!Fds -> FileEntry \cup {Closed}]
      /\ node' \in [F!Files -> Nodes \cup {Closed}]
      /\ StdFiles' /\ \A i \in High : OneUser(i)'
  BY <1>1, Repointed
<1>3. /\ \A x \in F!Files : /\ fd[x] = n => node'[x] # Closed
                            /\ fd[x] # n => node'[x] = node[x]
      /\ \A x \in F!Files : fd[x] \in F!Fds /\ node'[x] # Closed =>
           map'[fd[x]] # Closed /\ map'[fd[x]].node = node'[x]
  BY <1>1, Repointed
<1>4. F!TypeOK'
  BY <1>1, <1>2, FileFacts DEF F!TypeOK
<1>5. (\A q \in Procs : AtCall(q)') /\ \A x \in F!Files : OneCaller(x)'
  BY <1>3, LocalsStay
<1>6. ASSUME NEW x \in F!Files PROVE AloneUnder(x)'
  <2>1. \A y \in F!Files : F!ClosedUnder(y)' => F!ClosedUnder(y)
    BY <1>3 DEF F!ClosedUnder
  <2> QED BY <1>1, <2>1, FileInvIs DEF AloneUnder
<1>7. ASSUME NEW x \in F!Files PROVE RightFile(x)'
  BY <1>1, <1>3, FileInvIs DEF RightFile, F!Fds
<1> QED BY <1>2, <1>4, <1>5, <1>6, <1>7 DEF FileInv

LEMMA SwapStdKeeps ==
  ASSUME FileInv, NEW i \in F!Std, F!Swap(i)
  PROVE  FileInv'
<1>1. F!TypeOK /\ i \in F!Fds /\ map[i] \in FileEntry
  <2>1. F!TypeOK /\ i \in F!Fds /\ map[i] # Closed
    BY FileInvIs, FileFacts DEF StdFiles
  <2> QED BY <2>1, FileTypes
<1>2. fd' = fd /\ ownF' = ownF /\ UNCHANGED F!locals
  BY DEF F!Swap
<1>3. CASE saved[i] = Closed
  <2>1. PICK e \in FileEntry : e = F!File(HostNode)
    BY FileFacts
  <2>2. F!Repoint(i, e) /\ saved' = [saved EXCEPT ![i] = map[i]]
    BY <1>3, <2>1 DEF F!Swap
  <2>3. saved' \in [F!Std -> FileEntry \cup {Closed}]
    BY <1>1, <2>2, FileTypes
  <2> QED BY <1>1, <1>2, <2>2, <2>3, RepointKeeps
<1>4. CASE saved[i] # Closed
  <2>1. PICK e \in FileEntry : e = saved[i]
    BY <1>1, <1>4, FileTypes
  <2>2. F!Repoint(i, e) /\ saved' = [saved EXCEPT ![i] = Closed]
    BY <1>4, <2>1 DEF F!Swap
  <2>3. saved' \in [F!Std -> FileEntry \cup {Closed}]
    BY <1>1, <2>2, FileTypes
  <2> QED BY <1>1, <1>2, <2>2, <2>3, RepointKeeps
<1> QED BY <1>3, <1>4

LEMMA OwnIsOpen ==
  ASSUME FileInv, NEW n \in ownF
  PROVE  n \in High /\ map[n] \in FileEntry
<1>1. n \in High /\ F!TypeOK
  BY FileInvIs, FileTypes DEF StdFiles, High
<1>2. map[n] # Closed /\ n \in F!Fds
  BY <1>1, FileInvIs DEF OneUser, High
<1> QED BY <1>1, <1>2, FileTypes

\* C's own number is below no FILE, not even one that C closed the number of.
LEMMA OwnIsApart ==
  ASSUME FileInv, NEW n \in ownF
  PROVE  \A x \in Blocks : fd[x] # n
<1> SUFFICES ASSUME NEW x \in Blocks, fd[x] = n PROVE FALSE
  OBVIOUS
<1>1. n \in High /\ x \in F!Files /\ n # Closed
  BY OwnIsOpen, FileFacts
<1>2. OneUser(n) /\ AloneUnder(x)
  BY <1>1, FileInvIs
<1> QED BY <1>1, <1>2 DEF OneUser, OfFile, AloneUnder, F!ClosedUnder

\* The number of a FILE at rest is below no other.
LEMMA RestIsApart ==
  ASSUME FileInv, NEW b \in Blocks, NEW n \in High, fd[b] = n, F!Resting(b), ~F!ClosedUnder(b)
  PROVE  /\ n \notin ownF /\ \A p \in Procs : tfd[p] # n
         /\ \A x \in Blocks : fd[x] = n <=> x = b
<1>1. n # Closed /\ Blocks \subseteq F!Files
  BY FileFacts DEF High
<1>2. OneUser(n) /\ OfFile(b, n)
  BY <1>1, FileInvIs DEF OfFile, F!ClosedUnder
<1>3. ASSUME NEW x \in Blocks, fd[x] = n PROVE x = b
  <2>1. CASE node[x] # Closed
    BY <1>2, <1>3, <2>1 DEF OneUser, OfFile
  <2>2. CASE node[x] = Closed
    <3>1. F!ClosedUnder(x) /\ AloneUnder(x)
      BY <1>1, <1>3, <2>2, FileInvIs DEF F!ClosedUnder
    <3> QED BY <1>3, <3>1 DEF AloneUnder, F!Resting
  <2> QED BY <2>1, <2>2
<1> QED BY <1>2, <1>3 DEF OneUser

LEMMA Dup2FdKeeps ==
  ASSUME FileInv, NEW m \in F!Fds, NEW n \in F!Fds, F!Dup2(m, n)
  PROVE  FileInv'
<1>1. /\ m \in ownF /\ F!Repoint(n, map[m])
      /\ saved' = saved /\ fd' = fd /\ ownF' = ownF /\ UNCHANGED F!locals
  BY DEF F!Dup2
<1>2. PICK e \in FileEntry : e = map[m]
  BY <1>1, OwnIsOpen
<1>3. \/ n \in F!Std
      \/ n \in ownF /\ \A x \in Blocks : fd[x] # n
      \/ /\ n \notin ownF /\ \A p \in Procs : tfd[p] # n
         /\ \E b \in Blocks : \A x \in Blocks : fd[x] = n <=> x = b
  <2>1. CASE n \in ownF
    BY <2>1, OwnIsApart
  <2>2. CASE n \in Used
    BY <2>2, FileFacts
  <2>3. CASE n \in High /\ \E b \in Blocks : fd[b] = n /\ F!Resting(b) /\ ~F!ClosedUnder(b)
    BY <2>3, RestIsApart
  <2> QED BY <2>1, <2>2, <2>3 DEF F!Dup2, High
<1>4. F!Repoint(n, e) /\ saved' \in [F!Std -> FileEntry \cup {Closed}]
  BY <1>1, <1>2, FileInvIs, FileTypes
<1>5. fd' = fd /\ ownF' = ownF /\ UNCHANGED F!locals
  BY <1>1
<1> QED BY <1>3, <1>4, <1>5, RepointKeeps

LEMMA FreopenDupKeeps ==
  ASSUME FileInv, NEW p \in Procs, F!FreopenDup(p)
  PROVE  FileInv'
<1> PICK x : x = f2[p]
  OBVIOUS
<1> PICK a : a = f[p]
  OBVIOUS
<1>1. /\ pcF[p] = "dup3" /\ saved' = saved /\ ownF' = ownF
      /\ f' = f /\ f2' = f2 /\ tfd' = tfd /\ pcF' = [pcF EXCEPT ![p] = "fclose"]
      /\ IF fd[x] = fd[a]
         THEN /\ fd' = [fd EXCEPT ![x] = -1] /\ node' = [node EXCEPT ![a] = node[x]]
              /\ map' = map
         ELSE F!Repoint(fd[a], map[fd[x]]) /\ fd' = fd
  BY DEF F!FreopenDup, F!At
<1>2. /\ F!TypeOK /\ x \in Blocks /\ a \in F!Files /\ node[x] # Closed /\ tfd[p] = Closed
      /\ fd[x] \in High /\ fd[a] \in F!Fds /\ x \in F!Files
  <2>1. F!TypeOK /\ AtCall(p) /\ a \in F!Files \cup {NoFile}
    BY FileInvIs, FileTypes
  <2> QED BY <1>1, <2>1, FileFacts DEF AtCall
<1>3. a # NoFile /\ x # NoFile /\ a # x
      /\ \A q \in Procs \ {p} : f[q] # x /\ f2[q] # x /\ f[q] # a /\ f2[q] # a
  BY <1>2, FileInvIs, FileFacts DEF OneCaller, WorksOn
<1> PICK n \in F!Fds : n = fd[a]
  BY <1>2
<1> PICK k \in High : k = fd[x]
  BY <1>2
<1>4. n # Closed /\ k # Closed /\ k # -1 /\ k \in F!Fds /\ (n \notin F!Std => n \in High)
  BY FileFacts DEF High
<1>5. \A y \in F!Files : F!ClosedUnder(y) => y = a
  BY <1>1, FileInvIs DEF AloneUnder
<1>6. /\ pcF'[p] = "fclose" /\ \A q \in Procs \ {p} : pcF'[q] = pcF[q]
      /\ pcF' \in [Procs -> {"idle", "fdopen", "dup3", "fclose", "fclose both", "fclose f"}]
  BY <1>1, <1>2, FileTypes
<1>7. OneUser(k) /\ OfFile(x, k)
  BY <1>2, FileInvIs DEF OfFile
<1>8. a \in Blocks \/ n \in F!Std
  BY <1>2, FileInvIs, FileFacts DEF StdFiles
<1>9. ASSUME NEW y \in F!Files PROVE OneCaller(y)'
  BY <1>1, FileInvIs, CallersStay
<1>10. CASE k = n
  <2>1. /\ fd'[x] = -1 /\ \A y \in F!Files \ {x} : fd'[y] = fd[y]
        /\ fd' \in [F!Files -> F!Fds \cup {-1, Closed}]
    BY <1>1, <1>2, <1>10, FileTypes
  <2>2. /\ node'[a] = node[x] /\ \A y \in F!Files \ {a} : node'[y] = node[y]
        /\ node' \in [F!Files -> Nodes \cup {Closed}]
    BY <1>1, <1>2, <1>10, FileTypes
  <2>3. map' = map
    BY <1>1, <1>10
  <2>4. a \in Blocks /\ a \notin F!Std /\ x \notin F!Std
    BY <1>2, <1>8, <1>10, FileFacts DEF High
  <2>5. F!TypeOK'
    BY <1>1, <1>2, <1>6, <2>1, <2>2, <2>3, FileFacts DEF F!TypeOK
  <2>6. StdFiles'
    <3>1. \A i \in F!Std : i \in F!Files /\ i # a /\ i # x
      BY <2>4, FileFacts
    <3> QED BY <1>1, <2>1, <2>2, <2>3, <3>1, FileInvIs DEF StdFiles
  <2>7. ASSUME NEW q \in Procs PROVE AtCall(q)'
    <3>1. CASE q # p
      <4>1. AtCall(q) /\ f[q] \in F!Files \cup {NoFile} /\ f2[q] \in F!Files \cup {NoFile}
        BY <1>2, FileInvIs, FileTypes, FileFacts
      <4> QED BY <1>1, <1>3, <1>6, <2>1, <2>2, <3>1, <4>1, CallStays
    <3>2. CASE q = p
      <4>1. fd'[a] \in F!Fds /\ fd'[x] = -1 /\ node'[a] # Closed /\ node'[x] # Closed
        BY <1>2, <1>3, <2>1, <2>2
      <4>2. f'[p] = a /\ f2'[p] = x /\ tfd'[p] = Closed
        BY <1>1, <1>2
      <4>3. AtCall(p)'
        BY <1>2, <1>3, <1>6, <4>1, <4>2 DEF AtCall, High, F!Fds, F!Std
      <4> QED BY <3>2, <4>3
    <3> QED BY <3>1, <3>2
  <2>8. ASSUME NEW y \in F!Files PROVE ~F!ClosedUnder(y)'
    <3>1. CASE y = a
      BY <1>2, <2>2, <3>1 DEF F!ClosedUnder
    <3>2. CASE y = x
      BY <1>2, <1>3, <2>2, <3>2 DEF F!ClosedUnder
    <3>3. CASE y # a /\ y # x
      BY <1>5, <2>1, <2>2, <3>3 DEF F!ClosedUnder
    <3> QED BY <3>1, <3>2, <3>3
  <2>9. ASSUME NEW y \in F!Files PROVE RightFile(y)'
    <3>1. RightFile(x) /\ RightFile(y)
      BY <1>2, FileInvIs
    <3>2. CASE y = x
      BY <1>1, <1>6, <2>1, <3>2, FileFacts DEF RightFile, F!Fds
    <3>3. CASE y = a
      <4>1. fd'[a] = n /\ n # -1 /\ map[n] # Closed /\ map[n].node = node[x]
        BY <1>2, <1>3, <1>4, <1>10, <2>1, <3>1 DEF RightFile
      <4> QED BY <2>2, <2>3, <3>3, <4>1 DEF RightFile
    <3>4. CASE y # x /\ y # a
      <4>1. fd'[y] = fd[y] /\ node'[y] = node[y]
        BY <2>1, <2>2, <3>4
      <4>2. fd[y] = -1 => \E q \in Procs : f2'[q] = y /\ pcF'[q] = "fclose"
        BY <1>1, <1>6, <3>1 DEF RightFile
      <4> QED BY <2>3, <3>1, <4>1, <4>2 DEF RightFile, F!Fds
    <3> QED BY <3>2, <3>3, <3>4
  <2>10. ASSUME NEW i \in High PROVE OneUser(i)'
    <3>1. OneUser(i) /\ i # -1
      BY FileInvIs, FileFacts DEF High
    <3>2. \A z \in Blocks : z # a /\ z # x => (OfFile(z, i)' <=> OfFile(z, i))
      BY <2>1, <2>2, FileFacts DEF OfFile
    <3>3. ~OfFile(x, i)' /\ (OfFile(a, i)' <=> i = k) /\ (OfFile(a, i) => i = k) /\ (OfFile(x, i) <=> i = k)
      BY <1>2, <1>3, <1>7, <1>10, <2>1, <2>2, <3>1 DEF OfFile
    <3>4. CASE i = k
      <4>1. \A z \in Blocks : OfFile(z, k)' <=> z = a
        BY <1>2, <1>3, <1>7, <2>4, <3>2, <3>3, <3>4 DEF OneUser
      <4>2. map'[k] # Closed /\ (\A q \in Procs : tfd'[q] # k) /\ k \notin ownF'
        BY <1>1, <1>2, <1>7, <2>3 DEF OneUser
      <4> QED BY <2>4, <3>4, <4>1, <4>2, UsedByFile
    <3>5. CASE i # k
      BY <1>1, <2>3, <3>1, <3>2, <3>3, <3>5, SameUser
    <3> QED BY <3>4, <3>5
  <2> QED BY <1>9, <2>5, <2>6, <2>7, <2>8, <2>9, <2>10 DEF FileInv, AloneUnder
<1>11. CASE k # n
  <2>1. PICK e \in FileEntry : e = map[k]
    BY <1>2, <1>4, <1>7, FileTypes DEF OneUser
  <2>2. F!Repoint(n, e) /\ fd' = fd
    BY <1>1, <1>11, <2>1
  <2>3. \/ n \in F!Std
        \/ /\ n \notin ownF /\ \A q \in Procs : tfd[q] # n
           /\ \E b \in Blocks : \A y \in Blocks : fd[y] = n <=> y = b
    <3> SUFFICES ASSUME n \notin F!Std
                 PROVE  /\ n \notin ownF /\ \A q \in Procs : tfd[q] # n
                        /\ \A y \in Blocks : fd[y] = n <=> y = a
      BY <1>8
    <3>1. n \in High /\ a \in Blocks /\ Blocks \subseteq F!Files
      BY <1>4, <1>8, FileFacts
    <3>2. CASE node[a] # Closed
      <4>1. \A y \in Blocks : fd[y] = n => node[y] # Closed
        BY <1>4, <1>5, <3>1, <3>2 DEF F!ClosedUnder
      <4>2. OneUser(n) /\ OfFile(a, n)
        BY <3>1, <3>2, FileInvIs DEF OfFile
      <4> QED BY <3>1, <4>1, <4>2 DEF OneUser, OfFile
    <3>3. CASE node[a] = Closed
      <4>1. F!ClosedUnder(a) /\ AloneUnder(a)
        BY <1>2, <1>4, <3>3, FileInvIs DEF F!ClosedUnder
      <4>2. \A q \in Procs \ {p} : pcF[q] = "idle"
        BY <1>3, <4>1 DEF AloneUnder
      <4>3. \A q \in Procs \ {p} : f2[q] = NoFile /\ tfd[q] = Closed
        BY <4>2, FileInvIs DEF AtCall
      <4>4. \A y \in Blocks : fd[y] = n => y = a
        <5> SUFFICES ASSUME NEW y \in Blocks, fd[y] = n, y # a PROVE FALSE
          OBVIOUS
        <5>1. PICK q \in Procs : f2[q] = y
          BY <4>1 DEF AloneUnder
        <5>2. y # NoFile /\ y # x
          BY <1>11, <3>1, FileFacts
        <5> QED BY <4>3, <5>1, <5>2
      <4> QED BY <1>2, <1>4, <4>1, <4>3, <4>4 DEF AloneUnder
    <3> QED BY <3>2, <3>3
  <2>4. /\ map' \in [F!Fds -> FileEntry \cup {Closed}]
        /\ node' \in [F!Files -> Nodes \cup {Closed}]
        /\ StdFiles' /\ \A i \in High : OneUser(i)'
    BY <1>1, <2>2, <2>3, Repointed
  <2>5. /\ \A y \in F!Files : /\ fd[y] = n => node'[y] # Closed
                              /\ fd[y] # n => node'[y] = node[y]
        /\ \A y \in F!Files : fd[y] \in F!Fds /\ node'[y] # Closed =>
             map'[fd[y]] # Closed /\ map'[fd[y]].node = node'[y]
    BY <1>1, <2>2, <2>3, Repointed
  <2>6. F!TypeOK'
    BY <1>1, <1>2, <1>6, <2>2, <2>4, FileFacts DEF F!TypeOK
  <2>7. ASSUME NEW q \in Procs PROVE AtCall(q)'
    <3>1. CASE q # p
      <4>1. AtCall(q) /\ f[q] \in F!Files \cup {NoFile} /\ f2[q] \in F!Files \cup {NoFile}
        BY <1>2, FileInvIs, FileTypes, FileFacts
      <4> QED BY <1>1, <1>6, <2>2, <2>5, <3>1, <4>1, CallStays
    <3>2. CASE q = p
      <4>1. fd'[a] \in F!Fds /\ fd'[x] \in High /\ node'[a] # Closed /\ node'[x] # Closed
        BY <1>2, <2>2, <2>5
      <4>2. f'[p] = a /\ f2'[p] = x /\ tfd'[p] = Closed
        BY <1>1, <1>2
      <4>3. AtCall(p)'
        BY <1>2, <1>3, <1>6, <4>1, <4>2 DEF AtCall, High, F!Fds, F!Std
      <4> QED BY <3>2, <4>3
    <3> QED BY <3>1, <3>2
  <2>8. ASSUME NEW y \in F!Files PROVE ~F!ClosedUnder(y)'
    BY <1>5, <2>2, <2>5 DEF F!ClosedUnder
  <2>9. ASSUME NEW y \in F!Files PROVE RightFile(y)'
    <3>1. fd[y] = -1 => \E q \in Procs : f2'[q] = y /\ pcF'[q] = "fclose"
      BY <1>1, <1>6, FileInvIs DEF RightFile
    <3> QED BY <2>2, <2>5, <3>1 DEF RightFile, F!Fds
  <2> QED BY <1>9, <2>4, <2>6, <2>7, <2>8, <2>9 DEF FileInv, AloneUnder
<1> QED BY <1>10, <1>11

LEMMA FdopenKeeps ==
  ASSUME FileInv, NEW n \in F!Fds, NEW b \in Blocks, F!Fdopen(n, b)
  PROVE  FileInv'
<1>1. /\ n \in ownF \cup F!Std /\ fd[b] = Closed /\ F!TypeOK /\ b \in F!Files /\ b \notin F!Std
      /\ ownF' = ownF \ {n} /\ map' = map /\ saved' = saved
      /\ f' = f /\ f2' = f2 /\ tfd' = tfd /\ pcF' = pcF
  BY FileInvIs, FileFacts DEF F!Fdopen, F!locals
<1>2. map[n] \in FileEntry
  <2>1. CASE n \in ownF
    BY <2>1, OwnIsOpen
  <2>2. CASE n \in F!Std
    <3>1. map[n] # Closed
      BY <2>2, FileInvIs DEF StdFiles
    <3> QED BY <1>1, <3>1, FileTypes
  <2> QED BY <1>1, <2>1, <2>2
<1>3. PICK m \in Nodes : m = map[n].node /\ m # Closed
  BY <1>2, FileFacts
<1>4. /\ fd' = [fd EXCEPT ![b] = n] /\ node' = [node EXCEPT ![b] = m]
  BY <1>3 DEF F!Fdopen
<1>5. /\ fd'[b] = n /\ node'[b] = m
      /\ \A x \in F!Files \ {b} : fd'[x] = fd[x] /\ node'[x] = node[x]
      /\ fd' \in [F!Files -> F!Fds \cup {-1, Closed}]
      /\ node' \in [F!Files -> Nodes \cup {Closed}]
  BY <1>1, <1>4, FileTypes
<1>6. \A q \in Procs : ~WorksOn(q, b)
  BY <1>1, InHandIsOpen
<1>7. F!TypeOK'
  BY <1>1, <1>5, FileFacts DEF F!TypeOK
<1>8. StdFiles'
  <2>1. \A i \in F!Std : i \in F!Files \ {b}
    BY <1>1, FileFacts
  <2> QED BY <1>1, <1>5, <2>1, FileInvIs DEF StdFiles
<1>9. (\A q \in Procs : AtCall(q)') /\ \A x \in F!Files : OneCaller(x)'
  <2>1. \A q \in Procs, x \in F!Files : WorksOn(q, x) => x # b
    BY <1>6
  <2> QED BY <1>1, <1>5, <2>1, LocalsStay DEF F!locals
<1>10. ASSUME NEW x \in F!Files PROVE AloneUnder(x)'
  <2> SUFFICES ASSUME F!ClosedUnder(x)' PROVE AloneUnder(x)'
    BY DEF AloneUnder
  <2>1. x # b /\ F!ClosedUnder(x) /\ \A y \in F!Files : F!ClosedUnder(y)' => F!ClosedUnder(y)
    BY <1>3, <1>5 DEF F!ClosedUnder
  <2>2. AloneUnder(x) /\ fd'[x] = fd[x]
    BY <1>5, <2>1, FileInvIs
  <2>3. fd'[b] # fd[x]
    BY <1>1, <1>5, <2>1, <2>2 DEF AloneUnder, High
  <2>4. \A y \in Blocks \ {x} : fd'[y] = fd[x] => fd[y] = fd[x]
    BY <1>5, <2>3, FileFacts
  <2> QED BY <1>1, <2>1, <2>2, <2>4 DEF AloneUnder
<1>11. ASSUME NEW x \in F!Files PROVE RightFile(x)'
  <2>1. CASE x = b
    <3>1. map[n] # Closed /\ n # -1
      BY <1>2, FileFacts
    <3> QED BY <1>1, <1>3, <1>5, <2>1, <3>1 DEF RightFile
  <2>2. CASE x # b
    BY <1>1, <1>5, <2>2, FileInvIs DEF RightFile, F!Fds
  <2> QED BY <2>1, <2>2
<1>12. ASSUME NEW i \in High PROVE OneUser(i)'
  <2>1. OneUser(i)
    BY FileInvIs
  <2>2. \A z \in Blocks : z # b => (OfFile(z, i)' <=> OfFile(z, i))
    BY <1>5, FileFacts DEF OfFile
  <2>3. (OfFile(b, i)' <=> i = n) /\ ~OfFile(b, i)
    BY <1>1, <1>3, <1>5, FileFacts DEF OfFile, High
  <2>4. CASE i = n
    <3>1. i \in ownF
      BY <1>1, <2>4 DEF High
    <3> QED BY <1>1, <2>1, <2>2, <2>3, <2>4, <3>1, UsedByFile DEF OneUser
  <2>5. CASE i # n
    BY <1>1, <2>1, <2>2, <2>3, <2>5, SameUser
  <2> QED BY <2>4, <2>5
<1> QED BY <1>7, <1>8, <1>9, <1>10, <1>11, <1>12 DEF FileInv

LEMMA CloseUnderKeeps ==
  ASSUME FileInv, NEW x \in Used \cup Blocks, F!CloseUnder(x)
  PROVE  FileInv'
<1>1. /\ x \in Blocks /\ x \in F!Files /\ F!TypeOK
      /\ F!Resting(x) /\ fd[x] \notin F!Std /\ F!NoneUnder
      /\ \A q \in Procs : pcF[q] = "idle"
      /\ map' = F!CloseOf(fd[x]) /\ node' = [node EXCEPT ![x] = Closed]
      /\ saved' = saved /\ fd' = fd /\ ownF' = ownF
      /\ f' = f /\ f2' = f2 /\ tfd' = tfd /\ pcF' = pcF
  BY FileInvIs, FileFacts DEF F!CloseUnder, F!locals
<1>2. fd[x] \in High
  <2>1. RightFile(x) /\ fd[x] \in F!Fds \cup {-1, Closed}
    BY <1>1, FileInvIs, FileTypes
  <2> QED BY <1>1, <2>1 DEF F!Resting, RightFile, High
<1> PICK n \in High : n = fd[x]
  BY <1>2
<1>3. Lets(n) /\ n \in F!Fds /\ n # Closed
  BY <1>1, CloseOfIs, FileFacts DEF Lets, High
<1>4. /\ node'[x] = Closed /\ \A y \in F!Files \ {x} : node'[y] = node[y]
      /\ node' \in [F!Files -> Nodes \cup {Closed}]
  BY <1>1, FileTypes
<1>5. OneUser(n) /\ OfFile(x, n)
  BY <1>1, <1>3, FileInvIs DEF OfFile, F!NoneUnder, F!ClosedUnder
<1>6. /\ n \notin ownF /\ (\A q \in Procs : tfd[q] # n)
      /\ \A y \in Blocks : fd[y] = n => y = x
  <2>1. \A y \in Blocks : fd[y] = n => node[y] # Closed
    BY <1>1, <1>3, FileFacts DEF F!NoneUnder, F!ClosedUnder
  <2> QED BY <1>1, <1>5, <2>1 DEF OneUser, OfFile
<1>7. \A q \in Procs : ~WorksOn(q, x)
  BY <1>1 DEF F!Resting, WorksOn
<1>8. F!TypeOK'
  BY <1>1, <1>3, <1>4, LetGo, FileFacts DEF F!TypeOK
<1>9. StdFiles'
  <2>1. \A i \in F!Std : i \in F!Files \ {x}
    BY <1>1, FileFacts
  <2> QED BY <1>1, <1>3, <1>4, <2>1, LetGo, FileInvIs DEF StdFiles
<1>10. (\A q \in Procs : AtCall(q)') /\ \A y \in F!Files : OneCaller(y)'
  <2>1. \A q \in Procs, y \in F!Files : WorksOn(q, y) => y # x
    BY <1>7
  <2> QED BY <1>1, <1>4, <2>1, LocalsStay DEF F!locals
<1>11. ASSUME NEW y \in F!Files PROVE AloneUnder(y)'
  <2> SUFFICES ASSUME F!ClosedUnder(y)' PROVE AloneUnder(y)'
    BY DEF AloneUnder
  <2>1. \A z \in F!Files : F!ClosedUnder(z)' => z = x
    BY <1>1, <1>4 DEF F!ClosedUnder, F!NoneUnder
  <2>2. y = x
    BY <2>1
  <2> QED BY <1>1, <1>6, <2>1, <2>2 DEF AloneUnder
<1>12. ASSUME NEW y \in F!Files PROVE RightFile(y)'
  <2>1. RightFile(y)
    BY FileInvIs
  <2>2. y # x => fd[y] # n
    BY <1>6, FileInvIs, FileFacts DEF StdFiles, High
  <2>3. fd[y] \in F!Fds /\ y # x => map'[fd[y]] = map[fd[y]]
    BY <1>1, <1>3, <2>2, LetGo
  <2> QED BY <1>1, <1>4, <2>1, <2>3 DEF RightFile, F!Fds
<1>13. ASSUME NEW i \in High PROVE OneUser(i)'
  <2>1. OneUser(i)
    BY FileInvIs
  <2>2. ~OfFile(x, i)' /\ \A z \in Blocks : z # x => (OfFile(z, i)' <=> OfFile(z, i))
    BY <1>1, <1>4, FileFacts DEF OfFile
  <2>3. CASE i = n
    <3>1. map'[n] = Closed
      BY <1>1, <1>3, LetGo
    <3> QED BY <1>1, <1>5, <1>6, <2>2, <2>3, <3>1, Unused DEF OneUser, OfFile
  <2>4. CASE i # n
    <3>1. map'[i] = map[i]
      BY <1>1, <1>3, <2>4, LetGo DEF High
    <3>2. ~OfFile(x, i)
      BY <2>4 DEF OfFile
    <3> QED BY <1>1, <2>1, <2>2, <3>1, <3>2, SameUser
  <2> QED BY <2>3, <2>4
<1> QED BY <1>8, <1>9, <1>10, <1>11, <1>12, <1>13 DEF FileInv

LEMMA FilesStart == MCInit => FileInv
<1> SUFFICES ASSUME MCInit PROVE FileInv
  OBVIOUS
<1>1. F!Init
  BY DEF MCInit
<1>2. PICK e \in FileEntry : e = F!File(Terminal) /\ e.node = Terminal /\ e # Closed
  BY FileFacts
<1>3. /\ map = [n \in F!Fds |-> IF n \in F!Std THEN e ELSE Closed]
      /\ saved = [i \in F!Std |-> Closed]
      /\ fd = [x \in F!Files |-> IF x \in F!Std THEN x ELSE Closed]
      /\ node = [x \in F!Files |-> IF x \in F!Std THEN Terminal ELSE Closed]
      /\ ownF = {} /\ pcF = [p \in Procs |-> "idle"]
      /\ f = [p \in Procs |-> NoFile] /\ f2 = [p \in Procs |-> NoFile]
      /\ tfd = [p \in Procs |-> Closed]
  BY <1>1, <1>2 DEF F!Init
<1>4. F!TypeOK
  <2>1. /\ map \in [F!Fds -> FileEntry \cup {Closed}]
        /\ fd \in [F!Files -> F!Fds \cup {-1, Closed}]
        /\ node \in [F!Files -> Nodes \cup {Closed}]
    BY <1>3, FileFacts
  <2> QED BY <1>3, <2>1, FileFacts DEF F!TypeOK
<1>5. StdFiles
  BY <1>2, <1>3, FileFacts DEF StdFiles
<1>6. ASSUME NEW q \in Procs PROVE AtCall(q)
  BY <1>3 DEF AtCall
<1>7. ASSUME NEW x \in F!Files PROVE OneCaller(x) /\ AloneUnder(x) /\ RightFile(x)
  <2>1. x # NoFile /\ (fd[x] # Closed => x \in F!Std /\ fd[x] = x /\ node[x] = Terminal)
    BY <1>3, FileFacts
  <2>2. ~F!ClosedUnder(x)
    BY <2>1, FileFacts DEF F!ClosedUnder
  <2>3. OneCaller(x)
    BY <1>3, <2>1 DEF OneCaller, WorksOn
  <2>4. RightFile(x)
    <3>1. x \in F!Std => map[x] = e /\ x # -1
      BY <1>3, FileFacts
    <3> QED BY <1>2, <2>1, <3>1, FileFacts DEF RightFile
  <2> QED BY <2>2, <2>3, <2>4 DEF AloneUnder
<1>8. ASSUME NEW n \in High PROVE OneUser(n)
  <2>1. map[n] = Closed /\ n # Closed
    BY <1>3, FileFacts DEF High
  <2>2. \A x \in Blocks : ~OfFile(x, n)
    BY <1>3, <2>1, FileFacts DEF OfFile
  <2> QED BY <1>3, <2>1, <2>2 DEF OneUser
<1> QED BY <1>4, <1>5, <1>6, <1>7, <1>8 DEF FileInv

LEMMA FileStays == FileInv /\ UNCHANGED fileVars => FileInv'
<1> SUFFICES ASSUME FileInv, UNCHANGED fileVars PROVE FileInv'
  OBVIOUS
<1>1. /\ map' = map /\ saved' = saved /\ fd' = fd /\ node' = node /\ ownF' = ownF
      /\ pcF' = pcF /\ f' = f /\ f2' = f2 /\ tfd' = tfd
  BY DEF fileVars
<1>2. F!TypeOK'
  BY <1>1, FileInvIs DEF F!TypeOK
<1>3. StdFiles' /\ \A q \in Procs : AtCall(q)'
  BY <1>1, FileInvIs DEF StdFiles, AtCall
<1>4. \A x \in F!Files : OneCaller(x)' /\ AloneUnder(x)' /\ RightFile(x)'
  BY <1>1, FileInvIs DEF OneCaller, WorksOn, AloneUnder, F!ClosedUnder, RightFile
<1>5. \A n \in High : OneUser(n)'
  BY <1>1, FileInvIs, SameUser DEF OfFile
<1> QED BY <1>2, <1>3, <1>4, <1>5 DEF FileInv

LEMMA FileKeeps == FileInv /\ [F!Next]_fileVars => FileInv'
<1> SUFFICES ASSUME FileInv, [F!Next]_fileVars PROVE FileInv'
  OBVIOUS
<1>1. ASSUME NEW p \in Procs, F!OnFiles(p) PROVE FileInv'
  BY <1>1, FopenOpenKeeps, FreopenNoFileKeeps, FopenAllocKeeps, FopenNoMemKeeps,
     FreopenRefusedKeeps, FreopenDupKeeps, FreopenCloseKeeps, FreopenFailKeeps DEF F!OnFiles
<1>2. CASE UNCHANGED fileVars
  BY <1>2, FileStays
<1> QED BY <1>1, <1>2, FdopenKeeps, FcloseKeeps, CloseUnderKeeps, CreateKeeps, Dup2FdKeeps,
     CloseFdKept, SwapStdKeeps DEF F!Next

LEMMA FileInvariance == MCSpec => []FileInv
<1>1. MCInit => FileInv
  BY FilesStart
<1>2. FileInv /\ [MCNext]_allVars => FileInv'
  BY FileKeeps DEF MCNext, allVars
<1> QED BY <1>1, <1>2, PTL DEF MCSpec

-----------------------------------------------------------------------------
(* FILEs: what the invariant shows, and the calls of the descriptor layer. *)

LEMMA OneFileHolder ==
  ASSUME FileInv, NEW n \in High
  PROVE  F!Cardinality(F!FileHolders(n)) = IF map[n] = Closed THEN 0 ELSE 1
<1> DEFINE H == F!FileHolders(n)
<1>1. OneUser(n) /\ n # Closed
  BY FileInvIs, FileFacts DEF High
<1>2. \A x \in Blocks : fd[x] = n /\ ~F!ClosedUnder(x) <=> OfFile(x, n)
  BY <1>1 DEF OfFile, F!ClosedUnder
<1>3. H = {<<"file", x>> : x \in {y \in Blocks : OfFile(y, n)}}
            \cup {<<"fopen", p>> : p \in {q \in Procs : tfd[q] = n}}
            \cup {<<"C", m>> : m \in ownF \cap {n}}
  BY <1>2 DEF F!FileHolders
<1>4. F!Cardinality(H) = Cardinality(H)
  BY DEF F!Cardinality, Cardinality
<1> HIDE DEF H
<1>5. CASE map[n] = Closed
  <2>1. H = {}
    BY <1>1, <1>3, <1>5 DEF OneUser
  <2>2. Cardinality({}) = 0
    BY FS_EmptySet
  <2> QED BY <1>4, <1>5, <2>1, <2>2 DEF H
<1>6. CASE map[n] # Closed
  <2>1. \E h : H = {h}
    <3>1. CASE \E x \in Blocks : OfFile(x, n)
      <4>1. PICK x \in Blocks : OfFile(x, n)
        BY <3>1
      <4>2. {y \in Blocks : OfFile(y, n)} = {x}
        BY <1>1, <4>1 DEF OneUser
      <4>3. {q \in Procs : tfd[q] = n} = {} /\ ownF \cap {n} = {}
        BY <1>1, <4>1 DEF OneUser
      <4>4. H = {<<"file", x>>}
        BY <1>3, <4>2, <4>3
      <4> QED BY <4>4
    <3>2. CASE \E p \in Procs : tfd[p] = n
      <4>1. PICK p \in Procs : tfd[p] = n
        BY <3>2
      <4>2. {q \in Procs : tfd[q] = n} = {p}
        BY <1>1, <4>1 DEF OneUser
      <4>3. {y \in Blocks : OfFile(y, n)} = {} /\ ownF \cap {n} = {}
        BY <1>1, <4>1 DEF OneUser
      <4>4. H = {<<"fopen", p>>}
        BY <1>3, <4>2, <4>3
      <4> QED BY <4>4
    <3>3. CASE n \in ownF
      <4>1. {y \in Blocks : OfFile(y, n)} = {} /\ {q \in Procs : tfd[q] = n} = {}
        BY <1>1, <3>3 DEF OneUser
      <4>2. ownF \cap {n} = {n}
        BY <3>3
      <4>3. H = {<<"C", n>>}
        BY <1>3, <4>1, <4>2
      <4> QED BY <4>3
    <3> QED BY <1>1, <1>6, <3>1, <3>2, <3>3 DEF OneUser
  <2>2. PICK h : H = {h}
    BY <2>1
  <2>3. Cardinality({h}) = 1
    BY FS_Singleton
  <2> QED BY <1>4, <1>6, <2>2, <2>3 DEF H
<1> QED BY <1>5, <1>6

LEMMA FilesShow == FileInv => F!TypeOK /\ F!FilesExact
<1> SUFFICES ASSUME FileInv PROVE F!TypeOK /\ F!FilesExact
  OBVIOUS
<1>1. \A n \in F!Fds \ F!Std : F!Cardinality(F!FileHolders(n)) = IF map[n] = Closed THEN 0 ELSE 1
  BY OneFileHolder DEF High
<1>2. \A x \in F!Files : fd[x] \in F!Fds /\ ~F!ClosedUnder(x) => map[fd[x]].node = node[x]
  BY FileInvIs, FileFacts DEF RightFile, F!ClosedUnder
<1>3. \A i \in F!Std : fd[i] = i
  BY FileInvIs DEF StdFiles
<1> QED BY <1>1, <1>2, <1>3, FileInvIs DEF F!FilesExact

LEMMA TableNames ==
  /\ F!M!Numbers = F!Fds /\ F!M!Reserved = F!Std /\ F!M!hosted = F!hosted
  BY DEF F!M!Numbers, F!M!Reserved, F!M!hosted, F!hosted, F!Fds, F!Std

LEMMA NoCall == map' = map /\ saved' = saved => [F!OneCall]_<<map, saved>>
  OBVIOUS

\* One number changes: the step is a call if its new file fits one.
LEMMA OneNumber ==
  ASSUME F!TypeOK, NEW n \in F!Fds, NEW e, map' = [map EXCEPT ![n] = e], saved' = saved,
         \/ n \in High /\ map[n] = Closed /\ e \in FileEntry
         \/ n \in High /\ e = Closed
         \/ /\ n \notin F!hosted /\ e \in FileEntry
            /\ \E m \in F!Fds : map[m] # Closed /\ map[m].node = e.node
  PROVE  [F!OneCall]_<<map, saved>>
<1>1. map'[n] = e /\ \A k \in F!Fds \ {n} : map'[k] = map[k]
  BY FileTypes
<1>2. CASE map[n] = e
  <2>1. map' = map
    BY <1>2, FileTypes
  <2> QED BY <2>1
<1>3. CASE map[n] # e
  <2> DEFINE T == F!M!Touched
  <2>1. T = {n}
    BY <1>1, <1>3, TableNames DEF F!M!Touched
  <2>2. F!M!Cardinality({n}) = 1
    <3>1. F!M!Cardinality({n}) = Cardinality({n})
      BY DEF F!M!Cardinality, Cardinality
    <3> QED BY <3>1, FS_Singleton
  <2>3. n \in High => n \notin F!M!Reserved
    BY TableNames DEF High
  <2>4. CASE n \in High /\ map[n] = Closed /\ e \in FileEntry
    <3>1. F!M!Create({n})
      BY <1>1, <2>2, <2>3, <2>4, FileFacts DEF F!M!Create
    <3> QED BY <2>1, <3>1 DEF F!OneCall, F!M!Next
  <2>5. CASE n \in High /\ e = Closed
    <3>1. F!M!Close(n)
      BY <1>1, <2>3, <2>5 DEF F!M!Close
    <3> QED BY <2>1, <3>1 DEF F!OneCall, F!M!Next
  <2>6. CASE /\ n \notin F!hosted /\ e \in FileEntry
             /\ \E m \in F!Fds : map[m] # Closed /\ map[m].node = e.node
    <3>1. F!M!Redirect(n)
      BY <1>1, <2>6, TableNames, FileFacts DEF F!M!Redirect
    <3> QED BY <2>1, <3>1 DEF F!OneCall, F!M!Next
  <2> QED BY <2>4, <2>5, <2>6
<1> QED BY <1>2, <1>3

LEMMA CreateIsCall ==
  ASSUME FileInv, F!FreeFds # {}, NEW k \in Nodes,
         map' = [map EXCEPT ![F!NewFd] = F!File(k)], saved' = saved
  PROVE  [F!OneCall]_<<map, saved>>
<1>1. PICK n \in High : n = F!NewFd /\ map[n] = Closed
  BY NewFdIsFree
<1>2. PICK e \in FileEntry : e = F!File(k)
  BY FileFacts
<1> QED BY <1>1, <1>2, FileInvIs, FileFacts, OneNumber

LEMMA CloseIsCall ==
  ASSUME FileInv, NEW n \in F!Fds \cup {-1}, map' = F!CloseOf(n), saved' = saved
  PROVE  [F!OneCall]_<<map, saved>>
<1>1. CASE n \in High
  BY <1>1, CloseOfIs, FileInvIs, FileFacts, OneNumber
<1>2. CASE n \notin High
  BY <1>2, CloseOfIs
<1> QED BY <1>1, <1>2

LEMMA FcloseIsCall ==
  ASSUME FileInv, NEW x \in F!Files, fd[x] # Closed, F!FcloseOf(x), saved' = saved
  PROVE  [F!OneCall]_<<map, saved>>
<1>1. fd[x] \in F!Fds \cup {-1}
  <2>1. fd[x] \in F!Fds \cup {-1, Closed}
    BY FileInvIs, FileTypes
  <2> QED BY <2>1
<1>2. CASE x \in F!Std
  BY <1>2 DEF F!FcloseOf
<1>3. CASE x \notin F!Std
  BY <1>1, <1>3, CloseIsCall DEF F!FcloseOf
<1> QED BY <1>2, <1>3

LEMMA DupIsCall ==
  ASSUME FileInv, NEW n \in F!Fds, NEW m \in F!Fds, map[m] # Closed, n \notin F!hosted,
         F!Repoint(n, map[m]), saved' = saved
  PROVE  [F!OneCall]_<<map, saved>>
<1>1. PICK e \in FileEntry : e = map[m]
  BY FileInvIs, FileTypes
<1>2. map' = [map EXCEPT ![n] = e]
  BY <1>1 DEF F!Repoint
<1> QED BY <1>1, <1>2, FileInvIs, OneNumber

LEMMA SwapIsCall ==
  ASSUME FileInv, NEW i \in F!Std, F!Swap(i)
  PROVE  F!OneCall
<1>1. i \in F!Fds /\ F!TypeOK /\ i \in F!M!Reserved
  BY FileInvIs, FileFacts, TableNames
<1>2. CASE saved[i] = Closed
  <2>1. PICK e \in FileEntry : e = F!File(HostNode)
    BY FileFacts
  <2>2. saved' = [saved EXCEPT ![i] = map[i]] /\ map' = [map EXCEPT ![i] = e]
    BY <1>2, <2>1 DEF F!Swap, F!Repoint
  <2>3. map'[i] = e /\ \A n \in F!Fds \ {i} : map'[n] = map[n]
    BY <1>1, <2>2, FileTypes
  <2>4. F!M!HostSwaps(i)
    BY <1>2, <2>2, <2>3, TableNames, FileFacts DEF F!M!HostSwaps
  <2> QED BY <1>1, <2>4 DEF F!OneCall, F!M!Next
<1>3. CASE saved[i] # Closed
  <2>1. saved' = [saved EXCEPT ![i] = Closed] /\ map' = [map EXCEPT ![i] = saved[i]]
    BY <1>3 DEF F!Swap, F!Repoint
  <2>2. map'[i] = saved[i] /\ \A n \in F!Fds \ {i} : map'[n] = map[n]
    BY <1>1, <2>1, FileTypes
  <2>3. F!M!HostSwaps(i)
    BY <1>3, <2>1, <2>2, TableNames DEF F!M!HostSwaps
  <2> QED BY <1>1, <2>3 DEF F!OneCall, F!M!Next
<1> QED BY <1>2, <1>3

LEMMA FreopenDupIsCall ==
  ASSUME FileInv, NEW p \in Procs, F!FreopenDup(p)
  PROVE  [F!OneCall]_<<map, saved>>
<1> PICK x : x = f2[p]
  OBVIOUS
<1> PICK a : a = f[p]
  OBVIOUS
<1>1. /\ pcF[p] = "dup3" /\ saved' = saved /\ fd[a] \notin F!hosted
      /\ IF fd[x] = fd[a] THEN map' = map ELSE F!Repoint(fd[a], map[fd[x]])
  BY DEF F!FreopenDup
<1>2. x \in F!Files /\ fd[x] \in High /\ fd[x] \in F!Fds /\ fd[a] \in F!Fds /\ node[x] # Closed
  <2>1. AtCall(p)
    BY FileInvIs
  <2> QED BY <1>1, <2>1, FileFacts DEF AtCall
<1>3. map[fd[x]] # Closed
  BY <1>2, FileInvIs DEF RightFile
<1> QED BY <1>1, <1>2, <1>3, DupIsCall

LEMMA FileCall ==
  ASSUME FileInv, NEW p \in Procs, F!OnFiles(p)
  PROVE  [F!OneCall]_<<map, saved>>
<1>1. AtCall(p) /\ F!TypeOK
  BY FileInvIs
<1>2. ASSUME NEW x \in Used \cup Blocks \cup {NoFile}, NEW k \in Nodes, F!FopenOpen(p, x, k)
      PROVE  [F!OneCall]_<<map, saved>>
  BY <1>2, CreateIsCall DEF F!FopenOpen
<1>3. ASSUME NEW x \in Used \cup Blocks, F!FreopenNoFile(p, x)
      PROVE  [F!OneCall]_<<map, saved>>
  BY <1>3, FcloseIsCall, FileFacts DEF F!FreopenNoFile, F!Resting
<1>4. ASSUME NEW b \in Blocks, F!FopenAlloc(p, b) PROVE [F!OneCall]_<<map, saved>>
  BY <1>4, NoCall DEF F!FopenAlloc
<1>5. CASE F!FopenNoMem(p)
  <2>1. tfd[p] \in F!Fds \cup {-1}
    BY <1>1, <1>5, FileFacts DEF F!FopenNoMem, AtCall
  <2> QED BY <1>5, <2>1, CloseIsCall DEF F!FopenNoMem
<1>6. CASE F!FreopenRefused(p)
  BY <1>6, NoCall DEF F!FreopenRefused
<1>7. CASE F!FreopenClose(p)
  <2>1. f2[p] \in F!Files /\ fd[f2[p]] # Closed
    BY <1>1, <1>7, FileFacts DEF F!FreopenClose, AtCall
  <2> QED BY <1>7, <2>1, FcloseIsCall DEF F!FreopenClose
<1>8. CASE F!FreopenFail(p)
  <2>1. f[p] # NoFile /\ f[p] \in F!Files \cup {NoFile} /\ fd[f[p]] \in F!Fds
    BY <1>1, <1>8, FileTypes DEF F!FreopenFail, AtCall
  <2>2. f[p] \in F!Files /\ fd[f[p]] # Closed
    BY <2>1, FileFacts
  <2> QED BY <1>8, <2>2, FcloseIsCall DEF F!FreopenFail
<1> QED BY <1>2, <1>3, <1>4, <1>5, <1>6, <1>7, <1>8, FreopenDupIsCall DEF F!OnFiles

LEMMA FileCalls == FileInv /\ [F!Next]_fileVars => [F!OneCall]_<<map, saved>>
<1> SUFFICES ASSUME FileInv, [F!Next]_fileVars PROVE [F!OneCall]_<<map, saved>>
  OBVIOUS
<1>1. ASSUME NEW n \in F!Fds, NEW b \in Blocks, F!Fdopen(n, b) PROVE [F!OneCall]_<<map, saved>>
  BY <1>1, NoCall DEF F!Fdopen
<1>2. ASSUME NEW x \in Used \cup Blocks, F!Fclose(x) PROVE [F!OneCall]_<<map, saved>>
  BY <1>2, FcloseIsCall, FileFacts DEF F!Fclose, F!Resting
<1>3. ASSUME NEW x \in Used \cup Blocks, F!CloseUnder(x) PROVE [F!OneCall]_<<map, saved>>
  <2>1. fd[x] \in F!Fds \cup {-1}
    <3>1. fd[x] \in F!Fds \cup {-1, Closed} /\ fd[x] # Closed
      BY <1>3, FileInvIs, FileTypes, FileFacts DEF F!CloseUnder, F!Resting
    <3> QED BY <3>1
  <2> QED BY <1>3, <2>1, CloseIsCall DEF F!CloseUnder
<1>4. ASSUME NEW k \in Nodes, F!Open(k) PROVE [F!OneCall]_<<map, saved>>
  BY <1>4, CreateIsCall DEF F!Open
<1>5. ASSUME NEW m \in F!Fds, NEW n \in F!Fds, F!Dup2(m, n) PROVE [F!OneCall]_<<map, saved>>
  <2>1. map[m] # Closed
    BY <1>5, OwnIsOpen, FileFacts DEF F!Dup2
  <2> QED BY <1>5, <2>1, DupIsCall DEF F!Dup2
<1>6. ASSUME NEW n \in F!Fds, F!CloseFd(n) PROVE [F!OneCall]_<<map, saved>>
  BY <1>6, CloseIsCall DEF F!CloseFd
<1>7. ASSUME NEW i \in F!Std, F!Swap(i) PROVE [F!OneCall]_<<map, saved>>
  BY <1>7, SwapIsCall
<1>8. CASE UNCHANGED fileVars
  BY <1>8, NoCall DEF fileVars
<1> QED BY <1>1, <1>2, <1>3, <1>4, <1>5, <1>6, <1>7, <1>8, FileCall DEF F!Next

\* Every descriptor above 2 is C's, fopen's in passing, or one FILE's, and every
\* FILE has the file it was opened on, wherever fopen and freopen fail; and what
\* a call on FILEs does to descriptors is one call of the descriptor layer at a
\* time, none of them on a stream of the host's (csrc/stdio.c).
THEOREM FilesCorrect == MCSpec => FilesSafe
<1> DEFINE Safe == part = "files" => F!TypeOK /\ F!FilesExact
           Call == part = "files" => F!OneCall
<1>1. FileInv => Safe
  BY FilesShow
<1>2. FileInv /\ [MCNext]_allVars => [Call]_<<map, saved>>
  <2> SUFFICES ASSUME FileInv, [MCNext]_allVars PROVE [Call]_<<map, saved>>
    OBVIOUS
  <2>1. [F!Next]_fileVars
    BY DEF MCNext, allVars
  <2> QED BY <2>1, FileCalls
<1> QED BY <1>1, <1>2, FileInvariance, PTL DEF MCSpec, FilesSafe
=============================================================================
