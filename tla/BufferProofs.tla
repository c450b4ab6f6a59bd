---------------------------- MODULE BufferProofs ----------------------------
(***************************************************************************)
(* Proofs about the buffer of a FILE (FileBuffer), for any bytes, any size *)
(* of buffer and of array, any room to push back, and any way of opening:  *)
(* what every device leaves behind, what reading, writing and seeking make *)
(* of the buffer over it, and what a call's loop has in hand.              *)
(***************************************************************************)
EXTENDS FileBuffer, SequenceTheorems, WellFoundedInduction, TLAPS

-----------------------------------------------------------------------------
(* Numbers and sequences.                                                  *)

LEMMA LeastIs ==
  ASSUME NEW a \in Int, NEW b \in Int
  PROVE  /\ Least(a, b) \in Int /\ Least(a, b) <= a /\ Least(a, b) <= b
         /\ Least(a, b) = a \/ Least(a, b) = b
BY SMT DEF Least

LEMMA MostIs ==
  ASSUME NEW a \in Int, NEW b \in Int
  PROVE  /\ Most(a, b) \in Int /\ Most(a, b) >= a /\ Most(a, b) >= b
         /\ Most(a, b) = a \/ Most(a, b) = b
BY SMT DEF Most

LEMMA LenIs ==
  ASSUME NEW S, NEW c \in Seq(S)
  PROVE  Len(c) \in Nat
BY LenProperties

LEMMA SubSeqIs ==
  ASSUME NEW S, NEW c \in Seq(S), NEW m \in Nat \ {0}, NEW n \in Nat, n <= Len(c)
  PROVE  /\ SubSeq(c, m, n) \in Seq(S)
         /\ Len(SubSeq(c, m, n)) = IF m <= n THEN n - m + 1 ELSE 0
         /\ \A i \in 1..(n - m + 1) : SubSeq(c, m, n)[i] = c[m + i - 1]
<1>1. DEFINE l == IF m <= n THEN n - m + 1 ELSE 0
<1>2. l \in Nat
  BY SMT
<1>3. SubSeq(c, m, n) = [i \in 1..l |-> c[i + m - 1]]
  BY SubSeqProperties, SMT
<1>4. \A i \in 1..l : c[i + m - 1] \in S
  BY SMT
<1> QED BY <1>2, <1>3, <1>4, IsASeq, SMT

\* A concatenation under a name of its own.
Join(a, b) == a \o b

LEMMA JoinIs ==
  ASSUME NEW S, NEW a \in Seq(S), NEW b \in Seq(S)
  PROVE  Join(a, b) \in Seq(S) /\ Len(Join(a, b)) = Len(a) + Len(b)
<1>1. Join(a, b) \in Seq(S)
  BY ConcatProperties DEF Join
<1>2. Len(Join(a, b)) = Len(a) + Len(b)
  BY ConcatProperties DEF Join
<1> QED BY <1>1, <1>2

LEMMA JoinFront ==
  ASSUME NEW S, NEW a \in Seq(S), NEW b \in Seq(S)
  PROVE  \A i \in 1..Len(a) : Join(a, b)[i] = a[i]
BY SMT DEF Join

LEMMA JoinBack ==
  ASSUME NEW S, NEW a \in Seq(S), NEW b \in Seq(S)
  PROVE  \A i \in 1..Len(b) : Join(a, b)[Len(a) + i] = b[i]
BY SMT DEF Join

LEMMA EmptyIs ==
  ASSUME NEW S, NEW c \in Seq(S)
  PROVE  c = <<>> <=> Len(c) = 0
BY EmptySeq

LEMMA OverlayAll ==
  ASSUME NEW S, NEW c \in Seq(S), NEW s \in Seq(S), NEW at \in 0..Len(c)
  PROVE  /\ Overlay(c, at, s) \in Seq(S)
         /\ Len(Overlay(c, at, s)) = Most(Len(c), at + Len(s))
         /\ \A i \in 1..Len(s) : Overlay(c, at, s)[at + i] = s[i]
         /\ \A i \in 1..Len(c) :
              ~(at < i /\ i <= at + Len(s)) => Overlay(c, at, s)[i] = c[i]
<1> DEFINE a == SubSeq(c, 1, at)
           b == SubSeq(c, at + Len(s) + 1, Len(c))
           ab == Join(a, s)
           o == Join(ab, b)
<1>0. at \in Nat /\ Len(c) \in Nat /\ Len(s) \in Nat /\ at <= Len(c)
  BY SMT
<1>1. /\ a \in Seq(S) /\ Len(a) = at
      /\ \A i \in 1..at : a[i] = c[i]
  BY <1>0, SubSeqIs, SMT
<1>2. /\ b \in Seq(S)
      /\ at + Len(s) < Len(c) => Len(b) = Len(c) - at - Len(s)
      /\ Len(c) <= at + Len(s) => Len(b) = 0
      /\ \A i \in 1..(Len(c) - at - Len(s)) : b[i] = c[at + Len(s) + i]
  <2>1. /\ at + Len(s) + 1 \in Nat \ {0} /\ Len(c) \in Nat
    BY <1>0, SMT
  <2>2. /\ b \in Seq(S) /\ Len(b) = IF at + Len(s) + 1 <= Len(c) THEN Len(c) - (at + Len(s) + 1) + 1 ELSE 0
        /\ \A i \in 1..(Len(c) - (at + Len(s) + 1) + 1) : b[i] = c[(at + Len(s) + 1) + i - 1]
    BY <2>1, SubSeqIs
  <2> HIDE DEF b
  <2> QED BY <1>0, <2>2, SMTT(30)
<1>3. Overlay(c, at, s) = o
  BY DEF Overlay, Join
<1> HIDE DEF a, b
<1>5. ab \in Seq(S) /\ Len(ab) = at + Len(s)
  BY <1>1, JoinIs
<1>5a. \A i \in 1..at : ab[i] = a[i]
  BY <1>1, JoinFront
<1>5b. \A i \in 1..Len(s) : ab[at + i] = s[i]
  BY <1>1, JoinBack, ZenonT(60)
<1> HIDE DEF ab
<1>6. o \in Seq(S) /\ Len(o) = Len(ab) + Len(b)
  BY <1>2, <1>5, JoinIs
<1>6a. \A i \in 1..Len(ab) : o[i] = ab[i]
  BY <1>2, <1>5, JoinFront
<1>6b. \A i \in 1..Len(b) : o[Len(ab) + i] = b[i]
  <2>1. b \in Seq(S) /\ ab \in Seq(S)
    BY <1>2, <1>5
  <2> QED BY <2>1, JoinBack
<1> HIDE DEF o
<1>7. Len(o) = Most(Len(c), at + Len(s))
  <2>1. at + Len(s) < Len(c) => Len(o) = Len(c)
    BY <1>0, <1>2, <1>5, <1>6, SMT
  <2>2. Len(c) <= at + Len(s) => Len(o) = at + Len(s)
    BY <1>0, <1>2, <1>5, <1>6, SMT
  <2> QED BY <1>0, <2>1, <2>2, SMT DEF Most
<1>8. ASSUME NEW i \in 1..Len(s)
      PROVE  o[at + i] = s[i]
  BY <1>0, <1>5, <1>5b, <1>6a, SMT
<1>9. ASSUME NEW i \in 1..Len(c), ~(at < i /\ i <= at + Len(s))
      PROVE  o[i] = c[i]
  <2>1. CASE i <= at
    <3>1. ab[i] = c[i]
      BY <1>0, <1>1, <1>5a, <2>1, SMT
    <3> QED BY <1>0, <1>5, <1>6a, <2>1, <3>1, SMT
  <2>2. CASE at + Len(s) < i
    <3> DEFINE j == i - (at + Len(s))
    <3>1. j \in 1..Len(b) /\ j \in 1..(Len(c) - at - Len(s)) /\ i = Len(ab) + j /\ i = at + Len(s) + j
      BY <1>0, <1>2, <1>5, <2>2, SMT
    <3> HIDE DEF j
    <3>2. o[i] = b[j] /\ b[j] = c[i]
      BY <1>2, <1>6b, <3>1
    <3> QED BY <3>2
  <2> QED BY <1>0, <1>9, <2>1, <2>2, SMT
<1> QED BY <1>3, <1>6, <1>7, <1>8, <1>9

LEMMA OverlayIs ==
  ASSUME NEW S, NEW c \in Seq(S), NEW s \in Seq(S), NEW at \in 0..Len(c)
  PROVE  /\ Overlay(c, at, s) \in Seq(S)
         /\ Len(Overlay(c, at, s)) = Most(Len(c), at + Len(s))
BY OverlayAll

LEMMA OverlayIn ==
  ASSUME NEW S, NEW c \in Seq(S), NEW s \in Seq(S), NEW at \in 0..Len(c), NEW i \in 1..Len(s)
  PROVE  Overlay(c, at, s)[at + i] = s[i]
<1>1. \A j \in 1..Len(s) : Overlay(c, at, s)[at + j] = s[j]
  BY OverlayAll
<1> QED BY <1>1

LEMMA OverlayOut ==
  ASSUME NEW S, NEW c \in Seq(S), NEW s \in Seq(S), NEW at \in 0..Len(c), NEW i \in 1..Len(c),
         ~(at < i /\ i <= at + Len(s))
  PROVE  Overlay(c, at, s)[i] = c[i]
BY OverlayAll

LEMMA PaddedAll ==
  ASSUME NEW S, NEW c \in Seq(S), NEW n \in Int, NEW z \in S
  PROVE  /\ Padded(c, n, z) \in Seq(S)
         /\ Len(Padded(c, n, z)) = Most(Len(c), n)
         /\ \A i \in 1..Len(c) : Padded(c, n, z)[i] = c[i]
         /\ \A i \in (Len(c) + 1)..n : Padded(c, n, z)[i] = z
         /\ n <= Len(c) => Padded(c, n, z) = c
<1> DEFINE l == Most(0, n - Len(c))
           t == [i \in 1..l |-> z]
           ct == Join(c, t)
<1>1. l \in Nat /\ Len(c) \in Nat
  BY SMT DEF Most
<1>2. t \in Seq(S) /\ Len(t) = l /\ \A i \in 1..l : t[i] = z
  BY <1>1, IsASeq, SMT
<1>3. Padded(c, n, z) = ct
  BY DEF Padded, Join
<1> HIDE DEF t
<1>5. ct \in Seq(S) /\ Len(ct) = Len(c) + l
  BY <1>2, JoinIs
<1>5a. \A i \in 1..Len(c) : ct[i] = c[i]
  BY <1>2, JoinFront
<1>5b. \A i \in 1..l : ct[Len(c) + i] = t[i]
  BY <1>2, JoinBack
<1> HIDE DEF ct
<1>6. /\ Len(c) + l = Most(Len(c), n)
      /\ n > Len(c) => l = n - Len(c)
  BY <1>1, SMT DEF Most
<1>7. ASSUME NEW i \in (Len(c) + 1)..n
      PROVE  ct[i] = z
  <2> DEFINE j == i - Len(c)
  <2>1. j \in 1..l /\ i = Len(c) + j
    BY <1>1, <1>6, SMT
  <2> HIDE DEF j
  <2> QED BY <1>2, <1>5b, <2>1
<1>8. n <= Len(c) => ct = c
  <2> SUFFICES ASSUME n <= Len(c) PROVE ct = c
    OBVIOUS
  <2>1. Len(ct) = Len(c)
    BY <1>1, <1>5, <1>6, SMT DEF Most
  <2> QED BY <1>5, <1>5a, <2>1, SeqEqual
<1> QED BY <1>3, <1>5, <1>5a, <1>6, <1>7, <1>8

LEMMA PaddedIs ==
  ASSUME NEW S, NEW c \in Seq(S), NEW n \in Int, NEW z \in S
  PROVE  /\ Padded(c, n, z) \in Seq(S)
         /\ Len(Padded(c, n, z)) = Most(Len(c), n)
         /\ n <= Len(c) => Padded(c, n, z) = c
BY PaddedAll

LEMMA PaddedIn ==
  ASSUME NEW S, NEW c \in Seq(S), NEW n \in Int, NEW z \in S, NEW i \in 1..Len(c)
  PROVE  Padded(c, n, z)[i] = c[i]
BY PaddedAll

LEMMA PaddedOut ==
  ASSUME NEW S, NEW c \in Seq(S), NEW n \in Int, NEW z \in S, NEW i \in (Len(c) + 1)..n
  PROVE  Padded(c, n, z)[i] = z
BY PaddedAll

\* Writing s and then t is writing both at once.
LEMMA OverlayTwice ==
  ASSUME NEW S, NEW c \in Seq(S), NEW s \in Seq(S), NEW t \in Seq(S), NEW at \in 0..Len(c)
  PROVE  Overlay(Overlay(c, at, s), at + Len(s), t) = Overlay(c, at, s \o t)
<1> DEFINE st == Join(s, t)
           d == Overlay(c, at, s)
           e == Overlay(d, at + Len(s), t)
           f == Overlay(c, at, st)
<1>1. at \in Nat /\ Len(c) \in Nat /\ Len(s) \in Nat /\ Len(t) \in Nat /\ at <= Len(c)
  BY LenIs, SMT
<1>2. st \in Seq(S) /\ Len(st) = Len(s) + Len(t)
  BY JoinIs
<1>3. d \in Seq(S) /\ Len(d) = Most(Len(c), at + Len(s))
  BY OverlayIs
<1>4. f \in Seq(S) /\ Len(f) = Most(Len(c), at + Len(st))
  BY <1>2, OverlayIs
<1>5. Len(d) \in Nat /\ Len(c) <= Len(d) /\ at + Len(s) \in 0..Len(d)
  <2> HIDE DEF d
  <2> QED BY <1>1, <1>3, SMT DEF Most
<1>6. e \in Seq(S) /\ Len(e) = Most(Len(d), at + Len(s) + Len(t))
  BY <1>3, <1>5, OverlayIs
<1> HIDE DEF st, d, e, f
<1>7. Len(e) = Len(f) /\ Len(f) \in Nat /\ (Len(f) = Len(c) \/ Len(f) = at + Len(s) + Len(t))
      /\ at + Len(s) + Len(t) <= Len(f)
  BY <1>1, <1>2, <1>3, <1>4, <1>5, <1>6, SMT DEF Most
<1>8. ASSUME NEW i \in 1..Len(f)
      PROVE  e[i] = f[i]
  <2>1. i \in Nat /\ 1 <= i /\ i <= Len(f)
    BY <1>7, SMT
  <2>2. CASE i <= at \/ at + Len(s) + Len(t) < i
    <3>1. i \in 1..Len(c) /\ i \in 1..Len(d)
      BY <1>1, <1>5, <1>7, <2>1, <2>2, SMT
    <3>2. ~(at < i /\ i <= at + Len(st)) /\ ~(at < i /\ i <= at + Len(s))
          /\ ~(at + Len(s) < i /\ i <= at + Len(s) + Len(t))
      BY <1>1, <1>2, <2>1, <2>2, SMT
    <3>3. f[i] = c[i]
      BY <1>2, <3>1, <3>2, OverlayOut DEF f
    <3>4. d[i] = c[i]
      BY <3>1, <3>2, OverlayOut DEF d
    <3>5. e[i] = d[i]
      BY <1>3, <1>5, <3>1, <3>2, OverlayOut DEF e
    <3> QED BY <3>3, <3>4, <3>5
  <2>3. CASE at < i /\ i <= at + Len(s)
    <3> DEFINE j == i - at
    <3>1. j \in 1..Len(s) /\ j \in 1..Len(st) /\ i = at + j /\ i \in 1..Len(d)
          /\ ~(at + Len(s) < i /\ i <= at + Len(s) + Len(t))
      BY <1>1, <1>2, <1>5, <2>1, <2>3, SMT
    <3> HIDE DEF j
    <3>2. f[i] = st[j]
      <4>1. j \in 1..Len(st) /\ st \in Seq(S)
        BY <1>2, <3>1
      <4>2. f[at + j] = st[j]
        BY <4>1, OverlayIn DEF f
      <4> QED BY <3>1, <4>2
    <3>3. st[j] = s[j]
      BY <3>1, JoinFront DEF st
    <3>4. d[i] = s[j]
      BY <3>1, OverlayIn DEF d
    <3>5. e[i] = d[i]
      BY <1>3, <1>5, <3>1, OverlayOut DEF e
    <3> QED BY <3>2, <3>3, <3>4, <3>5
  <2>4. CASE at + Len(s) < i /\ i <= at + Len(s) + Len(t)
    <3> DEFINE j == i - (at + Len(s))
    <3>1. j \in 1..Len(t) /\ Len(s) + j \in 1..Len(st) /\ i = at + Len(s) + j /\ i = at + (Len(s) + j)
      BY <1>1, <1>2, <2>1, <2>4, SMT
    <3> HIDE DEF j
    <3>2. f[i] = st[Len(s) + j]
      <4>1. Len(s) + j \in 1..Len(st)
        BY <3>1
      <4>2. f[at + (Len(s) + j)] = st[Len(s) + j]
        BY <1>2, <4>1, OverlayIn, SMTT(30) DEF f
      <4> QED BY <3>1, <4>2
    <3>3. st[Len(s) + j] = t[j]
      BY <3>1, JoinBack DEF st
    <3>4. e[i] = t[j]
      BY <1>3, <1>5, <3>1, OverlayIn, SMTT(30) DEF e
    <3> QED BY <3>2, <3>3, <3>4
  <2> QED BY <1>1, <2>1, <2>2, <2>3, <2>4, SMT
<1>9. e = f
  BY <1>4, <1>6, <1>7, <1>8, SeqEqual
<1> QED BY <1>9 DEF e, f, d, st, Join

\* The content, in an array that holds more: writing into the array is
\* writing into the content, made longer with what the array has there.
LEMMA FrontOfOverlay ==
  ASSUME NEW S, NEW file \in Seq(S), NEW arr \in Seq(S), NEW t \in Seq(S), NEW at \in Nat, NEW z \in S,
         Len(file) <= Len(arr), at + Len(t) <= Len(arr),
         \A i \in 1..Len(file) : arr[i] = file[i],
         \A i \in (Len(file) + 1)..at : arr[i] = z
  PROVE  SubSeq(Overlay(arr, at, t), 1, Most(at + Len(t), Len(file)))
           = Overlay(Padded(file, at, z), at, t)
<1> DEFINE m == Most(at + Len(t), Len(file))
           d == Overlay(arr, at, t)
           e == SubSeq(d, 1, m)
           p == Padded(file, at, z)
           f == Overlay(p, at, t)
<1>1. Len(file) \in Nat /\ Len(arr) \in Nat /\ Len(t) \in Nat /\ at \in 0..Len(arr) /\ at \in Int
  <2>1. Len(file) \in Nat /\ Len(arr) \in Nat /\ Len(t) \in Nat
    BY LenIs
  <2> QED BY <2>1, SMT
<1>2. m \in Nat /\ m <= Len(arr) /\ Len(file) <= m /\ at + Len(t) <= m
      /\ (m = at + Len(t) \/ m = Len(file))
  BY <1>1, SMT DEF Most
<1>3. d \in Seq(S) /\ Len(d) = Most(Len(arr), at + Len(t))
  BY <1>1, OverlayIs
<1>4. p \in Seq(S) /\ Len(p) = Most(Len(file), at)
  BY <1>1, PaddedIs
<1> HIDE DEF m, d, p
<1>5. Len(d) = Len(arr) /\ at \in 0..Len(p) /\ Len(p) \in Nat
  BY <1>1, <1>3, <1>4, SMT DEF Most
<1>6. e \in Seq(S) /\ Len(e) = m
  BY <1>2, <1>3, <1>5, SubSeqIs, SMT
<1>6a. \A i \in 1..m : e[i] = d[i]
  BY <1>2, <1>3, <1>5, SubSeqIs, SMT
<1>7. f \in Seq(S) /\ Len(f) = Most(Len(p), at + Len(t))
  BY <1>4, <1>5, OverlayIs
<1> HIDE DEF e, f
<1>8. Len(e) = Len(f)
  BY <1>1, <1>2, <1>4, <1>6, <1>7, SMT DEF Most
<1>9. ASSUME NEW i \in 1..Len(e)
      PROVE  e[i] = f[i]
  <2>1. i \in Nat /\ 1 <= i /\ i <= m /\ i \in 1..Len(arr) /\ e[i] = d[i]
    BY <1>1, <1>2, <1>6, <1>6a, SMT
  <2>2. CASE at < i /\ i <= at + Len(t)
    <3> DEFINE j == i - at
    <3>1. j \in 1..Len(t) /\ i = at + j
      BY <1>1, <2>1, <2>2, SMT
    <3> HIDE DEF j
    <3>2. d[i] = t[j]
      BY <1>1, <3>1, OverlayIn DEF d
    <3>3. f[i] = t[j]
      <4>1. p \in Seq(S) /\ at \in 0..Len(p) /\ j \in 1..Len(t)
        BY <1>4, <1>5, <3>1
      <4>2. f[at + j] = t[j]
        BY <4>1, OverlayIn DEF f
      <4> QED BY <3>1, <4>2
    <3> QED BY <2>1, <3>2, <3>3
  <2>3. CASE ~(at < i /\ i <= at + Len(t))
    <3>1. d[i] = arr[i]
      BY <1>1, <2>1, <2>3, OverlayOut DEF d
    <3>2. i \in 1..Len(p)
      BY <1>1, <1>2, <1>4, <2>1, <2>3, SMT DEF Most
    <3>3. f[i] = p[i]
      BY <1>4, <1>5, <2>3, <3>2, OverlayOut DEF f
    <3>4. CASE i <= Len(file)
      <4>1. i \in 1..Len(file)
        BY <1>1, <2>1, <3>4, SMT
      <4>2. p[i] = file[i]
        BY <1>1, <4>1, PaddedIn DEF p
      <4> QED BY <2>1, <3>1, <3>3, <4>1, <4>2
    <3>5. CASE Len(file) < i
      <4>1. i \in (Len(file) + 1)..at
        BY <1>1, <1>2, <2>1, <2>3, <3>5, SMT
      <4>2. p[i] = z
        BY <1>1, <4>1, PaddedOut DEF p
      <4> QED BY <2>1, <3>1, <3>3, <4>1, <4>2
    <3> QED BY <1>1, <2>1, <3>4, <3>5, SMT
  <2> QED BY <2>2, <2>3
<1>10. e = f
  BY <1>6, <1>7, <1>8, <1>9, SeqEqual
<1> QED BY <1>10 DEF e, f, d, m, p

\* The array begins with the content, and up to position at with z.
Begins(arr, file, at, z) ==
  /\ Len(file) <= Len(arr)
  /\ \A i \in 1..Len(file) : arr[i] = file[i]
  /\ \A i \in (Len(file) + 1)..at : arr[i] = z

LEMMA FrontOf ==
  ASSUME NEW S, NEW file \in Seq(S), NEW arr \in Seq(S), NEW t \in Seq(S), NEW at \in Nat, NEW z \in S,
         Begins(arr, file, at, z), NEW end, end = at + Len(t), end <= Len(arr)
  PROVE  SubSeq(Overlay(arr, at, t), 1, Most(end, Len(file))) = Overlay(Padded(file, at, z), at, t)
<1>1. /\ Len(file) <= Len(arr) /\ at + Len(t) <= Len(arr)
      /\ \A i \in 1..Len(file) : arr[i] = file[i]
      /\ \A i \in (Len(file) + 1)..at : arr[i] = z
  BY DEF Begins
<1>2. SubSeq(Overlay(arr, at, t), 1, Most(at + Len(t), Len(file))) = Overlay(Padded(file, at, z), at, t)
  BY <1>1, FrontOfOverlay, SMTT(30)
<1> QED BY <1>2

-----------------------------------------------------------------------------
(* A FILE, and what its device keeps in order.                             *)

Cell == Byte \cup {Zero}
Devices == {"fd", "mem", "grow", "cookie"}
Acts == {"none", "read", "write"}

FileType ==
  [rd : BOOLEAN, wr : BOOLEAN, app : BOOLEAN, seekable : BOOLEAN, tty : BOOLEAN, probe : BOOLEAN,
   lbf : BOOLEAN, size : Nat, faulty : BOOLEAN, dev : Devices, trunc : BOOLEAN, cap : Nat,
   dumb : BOOLEAN, file : Seq(Cell), tail : Seq(Cell), off : Nat, told : Nat, act : Acts,
   rpos : Int, unread : Seq(Cell), held : Seq(Cell), pushed : Nat, svb : BOOLEAN, eof : BOOLEAN,
   err : BOOLEAN, lost : BOOLEAN]

\* Where the next byte goes.
At(p) == IF p.app THEN Len(p.file) ELSE p.off

DeviceSound(p) ==
  /\ p \in FileType
  /\ Len(p.file) <= MaxContent /\ p.off <= MaxContent /\ p.told <= Len(p.file)
  /\ p.dev # "grow" => p.off <= Len(p.file)
  /\ p.app => p.dev \in {"fd", "mem"}
  /\ p.dev = "mem" => Len(p.file) + Len(p.tail) = p.cap
  /\ p.dev = "grow" => /\ ~p.rd
                       /\ p.told > 0 => p.told < Len(p.file) + Len(p.tail)
                       /\ \A i \in 1..Len(p.tail) : p.tail[i] = Zero
  /\ p.dev = "mem" /\ p.file # <<>> /\ p.tail # <<>> => p.tail[1] = Zero

\* What no transfer changes.  A stream may stop being line-buffered.
Same(p, q) ==
  /\ q.rd = p.rd /\ q.wr = p.wr /\ q.app = p.app /\ q.dev = p.dev /\ q.cap = p.cap
  /\ q.size = p.size /\ (q.lbf => p.lbf)

\* The reader's side is as it was.
SameUnread(p, q) ==
  q.unread = p.unread /\ q.pushed = p.pushed /\ q.rpos = p.rpos /\ q.eof = p.eof

\* The writer's side is as it was.
SameHeld(p, q) ==
  q.held = p.held /\ q.act = p.act /\ q.err = p.err /\ q.lost = p.lost

\* Neither the error flag nor a loss is forgotten.
Flagged(p, q) == (p.err => q.err) /\ (p.lost => q.lost)

LEMMA Types ==
  ASSUME NEW p \in FileType
  PROVE  /\ p.file \in Seq(Cell) /\ p.tail \in Seq(Cell) /\ p.held \in Seq(Cell) /\ p.unread \in Seq(Cell)
         /\ p.off \in Nat /\ p.told \in Nat /\ p.size \in Nat /\ p.cap \in Nat /\ p.pushed \in Nat
         /\ p.rpos \in Int /\ p.act \in Acts /\ p.dev \in Devices
         /\ p.app \in BOOLEAN /\ p.rd \in BOOLEAN /\ p.wr \in BOOLEAN /\ p.err \in BOOLEAN
         /\ p.lost \in BOOLEAN /\ p.eof \in BOOLEAN /\ p.lbf \in BOOLEAN
         /\ p.faulty \in BOOLEAN /\ p.dumb \in BOOLEAN
BY DEF FileType

LEMMA Values ==
  /\ <<>> \in Seq(Cell) /\ TRUE \in BOOLEAN /\ FALSE \in BOOLEAN /\ 0 \in Nat /\ 0 \in Int /\ 1 \in Int
  /\ "none" \in Acts /\ "read" \in Acts /\ "write" \in Acts /\ Zero \in Cell
BY EmptySeq, SMT DEF Acts, Cell

LEMMA AtIs ==
  ASSUME NEW p, DeviceSound(p)
  PROVE  /\ At(p) \in Nat /\ At(p) <= MaxContent
         /\ p.dev # "grow" => At(p) \in 0..Len(p.file)
<1>1. p \in FileType
  BY DEF DeviceSound
<1>2. p.off \in Nat /\ Len(p.file) \in Nat /\ MaxContent \in Nat
  BY <1>1, Types, LenIs, FileBufferAssumption
<1>3. Len(p.file) <= MaxContent /\ p.off <= MaxContent /\ (p.dev # "grow" => p.off <= Len(p.file))
  BY DEF DeviceSound
<1> QED BY <1>2, <1>3, SMT DEF At

-----------------------------------------------------------------------------
(* A descriptor.                                                           *)

LEMMA KernelWriteIs ==
  ASSUME NEW p, DeviceSound(p), p.dev \in {"fd", "cookie"},
         NEW s \in Seq(Cell), At(p) + Len(s) <= MaxContent
  PROVE  LET q == KernelWrite(p, s)
         IN /\ DeviceSound(q) /\ Same(p, q) /\ SameUnread(p, q) /\ SameHeld(p, q)
            /\ q.file = Overlay(p.file, At(p), s) /\ q.off = At(p) + Len(s)
            /\ At(q) = At(p) + Len(s)
<1> DEFINE q == KernelWrite(p, s)
           c == Overlay(p.file, At(p), s)
           n == At(p) + Len(s)
<1>1. q = [p EXCEPT !.file = c, !.off = n]
  BY DEF KernelWrite, At
<1>2. /\ p \in FileType /\ p.file \in Seq(Cell) /\ Len(p.file) \in Nat /\ Len(s) \in Nat
      /\ At(p) \in Nat /\ At(p) \in 0..Len(p.file) /\ n \in Nat
  <2>1. p \in FileType /\ p.file \in Seq(Cell)
    BY Types DEF DeviceSound
  <2>2. At(p) \in Nat /\ At(p) \in 0..Len(p.file)
    BY AtIs
  <2> QED BY <2>1, <2>2, LenIs, SMT
<1>3. c \in Seq(Cell) /\ Len(c) = Most(Len(p.file), n)
  BY <1>2, OverlayIs
<1>4. Len(c) \in Nat /\ n <= Len(c) /\ Len(p.file) <= Len(c) /\ Len(c) <= MaxContent
  <2>1. Len(p.file) <= MaxContent /\ n <= MaxContent
    BY DEF DeviceSound
  <2>2. Len(c) \in Nat
    BY <1>3, LenIs
  <2> HIDE DEF c, n
  <2> QED BY <1>2, <1>3, <2>1, <2>2, SMT DEF Most
<1> HIDE DEF c, n, q
<1>5. q \in FileType
  BY <1>1, <1>2, <1>3 DEF FileType
<1>6. /\ q.file = c /\ q.off = n /\ q.tail = p.tail /\ q.told = p.told
  BY <1>1, <1>2 DEF FileType
<1>7. Same(p, q) /\ SameUnread(p, q) /\ SameHeld(p, q)
  BY <1>1, <1>2 DEF FileType, Same, SameUnread, SameHeld
<1>8. DeviceSound(q)
  <2>1. Len(q.file) <= MaxContent /\ q.off <= MaxContent /\ q.off <= Len(q.file)
    BY <1>4, <1>6 DEF n
  <2>2. q.told <= Len(q.file)
    <3>1. p.told \in Nat /\ p.told <= Len(p.file)
      BY <1>2, Types DEF DeviceSound
    <3> QED BY <1>2, <1>4, <1>6, <3>1, SMT
  <2>3. (q.app => q.dev \in {"fd", "mem"}) /\ q.dev \in {"fd", "cookie"}
    BY <1>7 DEF Same, DeviceSound
  <2> QED BY <1>5, <2>1, <2>2, <2>3 DEF DeviceSound
<1>9. At(q) = n
  <2>1. CASE p.app
    <3> DEFINE fl == Len(p.file)
               sl == Len(s)
    <3>1. n = fl + sl /\ fl \in Nat /\ sl \in Nat /\ Len(c) = Most(fl, n)
      BY <1>2, <1>3, <2>1 DEF n, At
    <3> HIDE DEF fl, sl
    <3>2. Len(c) = n
      BY <3>1, SMT DEF Most
    <3> QED BY <1>6, <1>7, <2>1, <3>2 DEF At, Same
  <2>2. CASE ~p.app
    BY <1>6, <1>7, <2>2 DEF At, Same
  <2> QED BY <2>1, <2>2
<1> QED BY <1>6, <1>7, <1>8, <1>9 DEF q, c, n

\* The content once the unwritten bytes and s are in it.
Written(p, s) == Overlay(Padded(p.file, At(p), Zero), At(p), s)

\* What a transfer of s, after the unwritten bytes, may leave behind: all of
\* it is out, or the error flag or a loss says that it is not.
AllOut(p, s, o) ==
  /\ o.n = Len(s) /\ o.p.held = <<>> /\ o.p.act = "write" /\ o.p.err = p.err /\ o.p.lost = p.lost
  /\ o.p.file = Written(p, p.held \o s) /\ o.p.off = At(p) + Len(p.held \o s)

NotOut(p, o) ==
  \/ o.p.lost
  \/ o.p.err /\ o.p.act = "none"

Wrote(p, s, o) ==
  /\ DeviceSound(o.p) /\ Same(p, o.p) /\ SameUnread(p, o.p) /\ Flagged(p, o.p)
  /\ o.n \in 0..Len(s)
  /\ o.p.act \in {"write", "none"}
  /\ \/ o.p.held = <<>>
     \/ o.p.held = p.held /\ o.p.act = p.act /\ o.p.off = p.off /\ o.p.file = p.file
  /\ At(o.p) + Len(o.p.held) <= At(p) + Len(p.held) + Len(s)
  /\ o.p.act = "write" \/ s = <<>> \/ o.n < Len(s)
  /\ AllOut(p, s, o) \/ NotOut(p, o)

\* The unwritten bytes and s have a place in the file.
Fitting(p, s) ==
  /\ DeviceSound(p) /\ p.act = "write"
  /\ s \in Seq(Cell) /\ At(p) + Len(p.held) + Len(s) <= MaxContent

LEMMA AllIs ==
  ASSUME NEW p, NEW s, Fitting(p, s)
  PROVE  /\ p \in FileType /\ p.held \in Seq(Cell) /\ s \in Seq(Cell) /\ p.held \o s \in Seq(Cell)
         /\ Len(p.held \o s) = Len(p.held) + Len(s) /\ Len(p.held) \in Nat /\ Len(s) \in Nat
         /\ At(p) + Len(p.held \o s) <= MaxContent
<1>1. p \in FileType /\ p.held \in Seq(Cell) /\ s \in Seq(Cell)
  BY Types DEF Fitting, DeviceSound
<1>2. p.held \o s \in Seq(Cell) /\ Len(p.held \o s) = Len(p.held) + Len(s)
  BY <1>1, JoinIs DEF Join
<1>3. Len(p.held) \in Nat /\ Len(s) \in Nat /\ At(p) \in Nat
  BY <1>1, LenIs, AtIs DEF Fitting
<1> DEFINE all == p.held \o s
<1> HIDE DEF all
<1>4. At(p) + Len(all) <= MaxContent
  <2>1. Len(all) = Len(p.held) + Len(s) /\ At(p) + Len(p.held) + Len(s) <= MaxContent
    BY <1>2 DEF all, Fitting
  <2> QED BY <1>3, <2>1, SMT
<1> QED BY <1>1, <1>2, <1>3, <1>4 DEF all

LEMMA WrittenIs ==
  ASSUME NEW p, DeviceSound(p), NEW s \in Seq(Cell)
  PROVE  /\ Written(p, s) \in Seq(Cell)
         /\ Len(Written(p, s)) = Most(Len(p.file), At(p) + Len(s))
         /\ p.dev # "grow" => Written(p, s) = Overlay(p.file, At(p), s)
<1>1. p.file \in Seq(Cell) /\ At(p) \in Nat /\ At(p) \in Int /\ Zero \in Cell /\ Len(p.file) \in Nat /\ Len(s) \in Nat
  <2>1. p \in FileType
    BY DEF DeviceSound
  <2>2. p.file \in Seq(Cell) /\ Zero \in Cell
    BY <2>1, Types DEF Cell
  <2>3. At(p) \in Nat /\ At(p) \in Int
    BY AtIs
  <2> QED BY <2>2, <2>3, LenIs
<1> DEFINE c == Padded(p.file, At(p), Zero)
<1>2. /\ c \in Seq(Cell) /\ Len(c) = Most(Len(p.file), At(p))
      /\ At(p) <= Len(p.file) => c = p.file
  BY <1>1, PaddedIs
<1> HIDE DEF c
<1>3. At(p) \in 0..Len(c)
  BY <1>1, <1>2, SMT DEF Most
<1>4. /\ Overlay(c, At(p), s) \in Seq(Cell)
      /\ Len(Overlay(c, At(p), s)) = Most(Len(c), At(p) + Len(s))
  BY <1>1, <1>2, <1>3, OverlayIs
<1>5. Most(Len(c), At(p) + Len(s)) = Most(Len(p.file), At(p) + Len(s))
  BY <1>1, <1>2, SMT DEF Most
<1>6. p.dev # "grow" => c = p.file
  BY <1>1, <1>2, AtIs, SMT
<1> QED BY <1>4, <1>5, <1>6 DEF Written, c

\* Where the next byte goes is no further than with all of it out.
LEMMA PlaceIs ==
  ASSUME NEW p, NEW s, Fitting(p, s), NEW q, q.held = <<>>,
         NEW k \in 0..(Len(p.held) + Len(s)), At(q) = At(p) + k
  PROVE  At(q) + Len(q.held) <= At(p) + Len(p.held) + Len(s)
<1> DEFINE at == At(p)
           cl == Len(p.held)
           sl == Len(s)
           ql == Len(q.held)
           aq == At(q)
<1>1. cl \in Nat /\ sl \in Nat /\ at \in Nat /\ ql = 0
  BY AllIs, AtIs, EmptySeq DEF Fitting
<1>2. k \in 0..(cl + sl) /\ aq = at + k
  OBVIOUS
<1> HIDE DEF at, cl, sl, ql, aq
<1>3. aq + ql <= at + cl + sl
  BY <1>1, <1>2, SMT
<1> QED BY <1>3 DEF at, cl, sl, ql, aq

LEMMA StdioWriteIs ==
  ASSUME NEW p, NEW s, Fitting(p, s), p.dev = "fd", NEW o \in StdioWrite(p, s)
  PROVE  Wrote(p, s, o)
<1> DEFINE all == p.held \o s
           r == Probed(p)
<1>1. /\ p \in FileType /\ p.held \in Seq(Cell) /\ s \in Seq(Cell) /\ all \in Seq(Cell)
      /\ Len(all) = Len(p.held) + Len(s) /\ Len(p.held) \in Nat /\ Len(s) \in Nat
      /\ At(p) + Len(all) <= MaxContent
  BY AllIs
<1>2. /\ DeviceSound(p) /\ p.act = "write"
  BY DEF Fitting
<1>3. r \in FileType
  <2> DEFINE b == p.lbf /\ (~p.probe \/ p.svb \/ p.tty)
  <2>1. r = [p EXCEPT !.probe = FALSE, !.lbf = b]
    BY DEF Probed
  <2>2. b \in BOOLEAN /\ FALSE \in BOOLEAN
    OBVIOUS
  <2> HIDE DEF b, r
  <2> QED BY <1>1, <2>1, <2>2 DEF FileType
<1>4. /\ Same(p, r) /\ SameUnread(p, r) /\ SameHeld(p, r)
      /\ r.file = p.file /\ r.tail = p.tail /\ r.off = p.off /\ r.told = p.told
  BY <1>1 DEF FileType, Probed, Same, SameUnread, SameHeld
<1> HIDE DEF r, all
<1>5. DeviceSound(r) /\ At(r) = At(p) /\ r.dev = "fd"
  BY <1>2, <1>3, <1>4 DEF DeviceSound, At, Same
<1>6. ASSUME NEW k \in 0..Len(all)
      PROVE  LET q == KernelWrite(r, SubSeq(all, 1, k))
             IN /\ DeviceSound(q) /\ Same(p, q) /\ SameUnread(p, q) /\ SameHeld(p, q)
                /\ q.file = Overlay(p.file, At(p), SubSeq(all, 1, k)) /\ q.off = At(p) + Len(SubSeq(all, 1, k))
                /\ At(q) = At(p) + k
  <2> DEFINE t == SubSeq(all, 1, k)
             q == KernelWrite(r, t)
  <2>1. t \in Seq(Cell) /\ Len(t) = k
    BY <1>1, SubSeqIs, LenIs, SMT
  <2>2. At(r) + Len(t) <= MaxContent
    <3>1. At(p) \in Nat /\ MaxContent \in Nat
      BY <1>2, AtIs, FileBufferAssumption
    <3> QED BY <1>1, <1>5, <2>1, <3>1, SMT
  <2>3. /\ DeviceSound(q) /\ Same(r, q) /\ SameUnread(r, q) /\ SameHeld(r, q)
        /\ q.file = Overlay(r.file, At(r), t) /\ q.off = At(r) + Len(t)
        /\ At(q) = At(r) + Len(t)
    BY <1>5, <2>1, <2>2, KernelWriteIs
  <2>4. Same(p, q) /\ SameUnread(p, q) /\ SameHeld(p, q)
    BY <1>4, <2>3 DEF Same, SameUnread, SameHeld
  <2> QED BY <1>4, <1>5, <2>1, <2>3, <2>4
<1>7. \/ o = [p |-> [KernelWrite(r, SubSeq(all, 1, Len(all))) EXCEPT !.held = <<>>, !.act = "write"], n |-> Len(s)]
      \/ \E k \in 0..(Len(all) - 1) :
            o = [p |-> [NotWriting(KernelWrite(r, SubSeq(all, 1, k))) EXCEPT !.err = TRUE],
                 n |-> Most(0, k - Len(p.held))]
  BY DEF StdioWrite, r, all
<1>8. CASE o = [p |-> [KernelWrite(r, SubSeq(all, 1, Len(all))) EXCEPT !.held = <<>>, !.act = "write"], n |-> Len(s)]
  <2> DEFINE q == KernelWrite(r, SubSeq(all, 1, Len(all)))
  <2>1. Len(all) \in 0..Len(all) /\ SubSeq(all, 1, Len(all)) = all
    BY <1>1, LenIs, SubSeqFull, SMT
  <2>2. /\ DeviceSound(q) /\ Same(p, q) /\ SameUnread(p, q) /\ SameHeld(p, q)
        /\ q.file = Overlay(p.file, At(p), all) /\ q.off = At(p) + Len(all)
        /\ At(q) = At(p) + Len(all)
    BY <1>6, <2>1
  <2>3. o.p = [q EXCEPT !.held = <<>>, !.act = "write"] /\ o.n = Len(s)
    BY <1>8
  <2> HIDE DEF q
  <2>4. q \in FileType
    BY <2>2 DEF DeviceSound
  <2>5. o.p \in FileType
    BY <2>3, <2>4, Values, ZenonT(60) DEF FileType
  <2>6. /\ Same(q, o.p) /\ SameUnread(q, o.p) /\ o.p.held = <<>> /\ o.p.act = "write"
        /\ o.p.err = q.err /\ o.p.lost = q.lost
        /\ o.p.file = q.file /\ o.p.tail = q.tail /\ o.p.off = q.off /\ o.p.told = q.told
    BY <2>3, <2>4 DEF FileType, Same, SameUnread
  <2>7. DeviceSound(o.p)
    BY <2>2, <2>5, <2>6 DEF DeviceSound, Same
  <2>8. Same(p, o.p) /\ SameUnread(p, o.p) /\ Flagged(p, o.p)
    BY <2>2, <2>6 DEF Same, SameUnread, SameHeld, Flagged
  <2>9. AllOut(p, s, o)
    <3>1. Written(p, all) = Overlay(p.file, At(p), all)
      BY <1>1, <1>2, WrittenIs
    <3>2. o.n = Len(s) /\ o.p.held = <<>> /\ o.p.act = "write" /\ o.p.err = p.err /\ o.p.lost = p.lost
      BY <2>2, <2>3, <2>6 DEF SameHeld
    <3>3. o.p.file = Written(p, all) /\ o.p.off = At(p) + Len(all)
      BY <2>2, <2>6, <3>1
    <3> QED BY <3>2, <3>3 DEF AllOut, all
  <2>10. o.n \in 0..Len(s)
    BY <1>1, <2>3, SMT
  <2>11. At(o.p) + Len(o.p.held) <= At(p) + Len(p.held) + Len(s)
    <3>1. At(o.p) = At(q)
      BY <2>6 DEF At, Same
    <3>2. Len(all) \in 0..(Len(p.held) + Len(s))
      BY <1>1, <2>1
    <3> QED BY <2>2, <2>6, <3>1, <3>2, PlaceIs
  <2> QED BY <2>6, <2>7, <2>8, <2>9, <2>10, <2>11 DEF Wrote
<1>9. CASE \E k \in 0..(Len(all) - 1) :
              o = [p |-> [NotWriting(KernelWrite(r, SubSeq(all, 1, k))) EXCEPT !.err = TRUE],
                   n |-> Most(0, k - Len(p.held))]
  <2>1. PICK k \in 0..(Len(all) - 1) :
              o = [p |-> [NotWriting(KernelWrite(r, SubSeq(all, 1, k))) EXCEPT !.err = TRUE],
                   n |-> Most(0, k - Len(p.held))]
    BY <1>9
  <2> DEFINE q == KernelWrite(r, SubSeq(all, 1, k))
  <2>2. k \in 0..Len(all) /\ k \in Nat /\ k < Len(all)
    BY <1>1, LenIs, SMT
  <2>3. /\ DeviceSound(q) /\ Same(p, q) /\ SameUnread(p, q) /\ SameHeld(p, q)
        /\ At(q) = At(p) + k
    BY <1>6, <2>2
  <2>4. o.p = [NotWriting(q) EXCEPT !.err = TRUE] /\ o.n = Most(0, k - Len(p.held))
    BY <2>1
  <2> HIDE DEF q
  <2>5. q \in FileType /\ q.act = "write"
    BY <1>2, <2>3 DEF DeviceSound, SameHeld
  <2>6. NotWriting(q) = [q EXCEPT !.held = <<>>, !.act = "none"]
    BY <2>5 DEF NotWriting
  <2>7. o.p = [q EXCEPT !.held = <<>>, !.act = "none", !.err = TRUE]
    BY <2>4, <2>5, <2>6 DEF FileType
  <2>8. o.p \in FileType
    BY <2>5, <2>7, Values, ZenonT(60) DEF FileType
  <2>9. /\ Same(q, o.p) /\ SameUnread(q, o.p) /\ o.p.held = <<>> /\ o.p.act = "none"
        /\ o.p.err = TRUE /\ o.p.lost = q.lost
        /\ o.p.file = q.file /\ o.p.tail = q.tail /\ o.p.off = q.off /\ o.p.told = q.told
    BY <2>5, <2>7 DEF FileType, Same, SameUnread
  <2>10. DeviceSound(o.p)
    BY <2>3, <2>8, <2>9 DEF DeviceSound, Same
  <2>11. Same(p, o.p) /\ SameUnread(p, o.p) /\ Flagged(p, o.p)
    BY <2>3, <2>9 DEF Same, SameUnread, SameHeld, Flagged
  <2>12. o.n \in 0..Len(s)
    BY <1>1, <2>2, <2>4, SMT DEF Most
  <2>13. NotOut(p, o)
    BY <2>9 DEF NotOut
  <2>14. At(o.p) + Len(o.p.held) <= At(p) + Len(p.held) + Len(s)
    <3>1. At(o.p) = At(q)
      BY <2>9 DEF At, Same
    <3>2. k \in 0..(Len(p.held) + Len(s))
      BY <1>1, <2>2
    <3> QED BY <2>3, <2>9, <3>1, <3>2, PlaceIs
  <2>15. s = <<>> \/ o.n < Len(s)
    <3>1. s # <<>> => Len(s) # 0
      BY <1>1, EmptyIs
    <3> QED BY <1>1, <2>2, <2>4, <3>1, SMT DEF Most
  <2> QED BY <2>9, <2>10, <2>11, <2>12, <2>13, <2>14, <2>15 DEF Wrote
<1> QED BY <1>7, <1>8, <1>9

-----------------------------------------------------------------------------
(* Memory of a fixed size.                                                 *)

LEMMA ArrayIs ==
  ASSUME NEW p \in FileType
  PROVE  /\ Array(p) \in Seq(Cell) /\ Len(Array(p)) = Len(p.file) + Len(p.tail)
         /\ Len(p.file) \in Nat /\ Len(p.tail) \in Nat
BY Types, JoinIs, LenIs DEF Array, Join

LEMMA ArrayFront ==
  ASSUME NEW p \in FileType, NEW i \in 1..Len(p.file)
  PROVE  Array(p)[i] = p.file[i]
BY Types, JoinFront DEF Array, Join

LEMMA ArrayBack ==
  ASSUME NEW p \in FileType, NEW i \in 1..Len(p.tail)
  PROVE  Array(p)[Len(p.file) + i] = p.tail[i]
<1>1. p.file \in Seq(Cell) /\ p.tail \in Seq(Cell)
  BY Types
<1> QED BY <1>1, JoinBack DEF Array, Join

\* mem_write of s alone: n bytes of it are out; only of a full array the last
\* byte is not what was written, and that is a loss.
LEMMA MemPutIs ==
  ASSUME NEW p, DeviceSound(p), p.dev = "mem",
         NEW s \in Seq(Cell), At(p) + Len(s) <= MaxContent
  PROVE  LET o == MemPut(p, s)
             q == o.p
             w == Overlay(p.file, At(p), SubSeq(s, 1, o.n))
         IN /\ DeviceSound(q) /\ Same(p, q) /\ SameUnread(p, q)
            /\ q.held = p.held /\ q.act = p.act /\ q.err = p.err /\ (p.lost => q.lost)
            /\ o.n \in 0..Len(s) /\ q.off = At(p) + o.n /\ At(q) = At(p) + o.n
            /\ o.n < Len(s) => At(p) + o.n = p.cap
            /\ Len(q.file) = Len(w) /\ (\A i \in 1..Len(w) : i # p.cap => q.file[i] = w[i])
            /\ q.lost /\ ~p.lost => Len(q.file) = p.cap
            /\ ~q.lost => q.file = w
<1> DEFINE at == At(p)
           fl == Len(p.file)
           tl == Len(p.tail)
           sl == Len(s)
           cap == Len(Array(p))
           n == Least(sl, cap - at)
           end == at + n
           over == end > fl /\ end = cap /\ ~p.rd
           nul == IF over THEN cap ELSE IF end > fl THEN end + 1 ELSE 0
           t == SubSeq(s, 1, n)
           arr == Overlay(Array(p), at, t)
           ar2 == [i \in 1..cap |-> IF i = nul THEN Zero ELSE arr[i]]
           m == Most(end, fl)
           f == SubSeq(ar2, 1, m)
           g == SubSeq(ar2, m + 1, Len(ar2))
           o == MemPut(p, s)
           q == o.p
           w == Overlay(p.file, at, t)
<1>1. /\ p \in FileType /\ Array(p) \in Seq(Cell) /\ p.file \in Seq(Cell)
      /\ cap = fl + tl /\ cap = p.cap
      /\ fl \in Nat /\ tl \in Nat /\ cap \in Nat /\ fl <= cap
  <2>1. p \in FileType
    BY DEF DeviceSound
  <2>2. cap = fl + tl /\ cap = p.cap
    BY <2>1, ArrayIs DEF DeviceSound, fl, tl, cap
  <2>3. fl \in Nat /\ tl \in Nat /\ Array(p) \in Seq(Cell) /\ p.file \in Seq(Cell)
    BY <2>1, ArrayIs, Types
  <2> HIDE DEF fl, tl, cap
  <2>4. cap \in Nat /\ fl <= cap
    BY <2>2, <2>3, SMT
  <2> QED BY <2>1, <2>2, <2>3, <2>4
<1>2. /\ at \in Nat /\ at \in 0..fl /\ sl \in Nat /\ at <= fl
  BY AtIs, LenIs, <1>1, SMT
<1> HIDE DEF at, cap, fl, tl, sl
<1>3. /\ n \in Nat /\ n <= sl /\ end <= cap /\ end \in Nat /\ (n < sl => end = cap) /\ at <= end
  BY <1>1, <1>2, SMT DEF Least
<1> HIDE DEF n
<1>4. t \in Seq(Cell) /\ Len(t) = n
  BY <1>2, <1>3, SubSeqIs, SMT DEF sl
<1> HIDE DEF t
<1>5. at \in 0..Len(Array(p)) /\ at \in 0..cap
  BY <1>1, <1>2, SMT DEF cap
<1>6. arr \in Seq(Cell) /\ Len(arr) = Most(cap, at + Len(t))
  BY <1>1, <1>4, <1>5, OverlayIs DEF cap
<1>7. /\ m \in Nat /\ m <= cap /\ end <= m /\ fl <= m /\ (m = end \/ m = fl)
      /\ m <= MaxContent
  <2>1. fl <= MaxContent /\ MaxContent \in Nat /\ end <= MaxContent
    <3>1. fl <= MaxContent /\ MaxContent \in Nat /\ at + sl <= MaxContent
      BY FileBufferAssumption DEF DeviceSound, at, fl, sl
    <3> QED BY <1>2, <1>3, <3>1, SMT
  <2> QED BY <1>1, <1>3, <2>1, SMT DEF Most
<1>8. Len(arr) = cap
  BY <1>1, <1>3, <1>4, <1>6, SMT DEF Most
<1> HIDE DEF arr, m
<1>9. ar2 \in Seq(Cell) /\ Len(ar2) = cap
  <2>1. \A i \in 1..cap : (IF i = nul THEN Zero ELSE arr[i]) \in Cell
    BY <1>6, <1>8, ElementOfSeq, Values
  <2> HIDE DEF nul
  <2> QED BY <1>1, <2>1, IsASeq, SMT
<1>10. \A i \in 1..cap : i # nul => ar2[i] = arr[i]
  OBVIOUS
<1>11. \A i \in 1..cap : i = nul => ar2[i] = Zero
  OBVIOUS
<1> HIDE DEF ar2, end
<1>12. /\ f \in Seq(Cell) /\ Len(f) = m /\ \A i \in 1..m : f[i] = ar2[i]
  <2>1. f \in Seq(Cell) /\ Len(f) = IF 1 <= m THEN m - 1 + 1 ELSE 0
    BY <1>7, <1>9, SubSeqIs
  <2>2. \A i \in 1..(m - 1 + 1) : f[i] = ar2[1 + i - 1]
    BY <1>7, <1>9, SubSeqIs
  <2> HIDE DEF f
  <2>3. Len(f) = m
    BY <1>7, <2>1, SMT
  <2>4. \A i \in 1..m : f[i] = ar2[i]
    BY <1>7, <2>2, SMT
  <2> QED BY <2>1, <2>3, <2>4
<1>13. /\ g \in Seq(Cell) /\ Len(g) = cap - m /\ (g # <<>> => m < cap /\ g[1] = ar2[m + 1])
  <2>1. m + 1 \in Nat \ {0} /\ Len(ar2) \in Nat
    BY <1>1, <1>7, <1>9, SMT
  <2>2. g \in Seq(Cell) /\ Len(g) = IF m + 1 <= Len(ar2) THEN Len(ar2) - (m + 1) + 1 ELSE 0
    BY <1>9, <2>1, SubSeqIs
  <2>3. \A i \in 1..(Len(ar2) - (m + 1) + 1) : g[i] = ar2[(m + 1) + i - 1]
    BY <1>9, <2>1, SubSeqIs
  <2> HIDE DEF g
  <2>4. Len(g) = cap - m
    BY <1>1, <1>7, <1>9, <2>2, SMT
  <2>5. ASSUME g # <<>> PROVE m < cap /\ g[1] = ar2[m + 1]
    <3>1. Len(g) # 0
      BY <2>2, <2>5, EmptyIs
    <3>2. m < cap /\ 1 \in 1..(Len(ar2) - (m + 1) + 1)
      BY <1>1, <1>7, <1>9, <2>4, <3>1, SMT
    <3>3. g[1] = ar2[(m + 1) + 1 - 1] /\ (m + 1) + 1 - 1 = m + 1
      BY <1>7, <2>3, <3>2, SMT
    <3> QED BY <3>2, <3>3
  <2> QED BY <2>2, <2>4, <2>5
<1>14. o = [p |-> [Filled(Lost(p, over), ar2, m) EXCEPT !.off = end], n |-> n]
  BY DEF MemPut, ar2, arr, end, n, m, at, cap, t, fl, sl, At
<1>15. q = [p EXCEPT !.lost = p.lost \/ over, !.file = f, !.tail = g, !.off = end] /\ o.n = n
  <2> HIDE DEF over, o
  <2>1. Lost(p, over) = [p EXCEPT !.lost = p.lost \/ over]
    BY DEF Lost
  <2>2. Filled(Lost(p, over), ar2, m) = [Lost(p, over) EXCEPT !.file = f, !.tail = g]
    BY DEF Filled
  <2> HIDE DEF f, g
  <2> QED BY <1>1, <1>14, <2>1, <2>2 DEF FileType
<1> HIDE DEF o, f, g
<1>16. (p.lost \/ over) \in BOOLEAN
  OBVIOUS
<1>17. q \in FileType
  <2> DEFINE b == p.lost \/ over
  <2> HIDE DEF b
  <2>1. q = [p EXCEPT !.lost = b, !.file = f, !.tail = g, !.off = end] /\ b \in BOOLEAN
    BY <1>15, <1>16 DEF b
  <2> HIDE DEF q
  <2> QED BY <1>1, <1>3, <1>12, <1>13, <2>1, ZenonT(60) DEF FileType
<1>18. /\ Same(p, q) /\ SameUnread(p, q) /\ q.held = p.held /\ q.act = p.act /\ q.err = p.err
       /\ q.file = f /\ q.tail = g /\ q.off = end /\ q.told = p.told /\ q.lost = (p.lost \/ over)
  <2> DEFINE b == p.lost \/ over
  <2>1. q = [p EXCEPT !.lost = b, !.file = f, !.tail = g, !.off = end]
    BY <1>15
  <2>2. b = (p.lost \/ over)
    OBVIOUS
  <2> HIDE DEF q, b, over
  <2>3. q.lost = b
    BY <1>1, <2>1 DEF FileType
  <2>4. /\ Same(p, q) /\ SameUnread(p, q) /\ q.held = p.held /\ q.act = p.act /\ q.err = p.err
        /\ q.file = f /\ q.tail = g /\ q.off = end /\ q.told = p.told
    BY <1>1, <2>1 DEF FileType, Same, SameUnread
  <2> QED BY <2>2, <2>3, <2>4
<1> HIDE DEF q
<1>19. /\ w \in Seq(Cell) /\ Len(w) = m
  <2>1. w \in Seq(Cell) /\ Len(w) = Most(fl, at + Len(t))
    BY <1>1, <1>2, <1>4, OverlayIs DEF fl
  <2> HIDE DEF w
  <2>2. at + Len(t) = end
    BY <1>4 DEF end
  <2> QED BY <1>1, <1>3, <2>1, <2>2, SMT DEF m, Most
<1>20. \A i \in 1..m : arr[i] = w[i]
  <2>1. SubSeq(arr, 1, Most(end, fl)) = Overlay(Padded(p.file, at, Zero), at, t)
    <3>1. fl <= Len(Array(p)) /\ end <= Len(Array(p)) /\ end = at + Len(t)
      BY <1>1, <1>3, <1>4 DEF cap, end
    <3>2. \A i \in 1..fl : Array(p)[i] = p.file[i]
      BY <1>1, ArrayFront DEF fl
    <3>3. \A i \in (fl + 1)..at : Array(p)[i] = Zero
      BY <1>1, <1>2, SMT
    <3>4. Begins(Array(p), p.file, at, Zero)
      BY <3>1, <3>2, <3>3 DEF Begins, fl
    <3>5. p.file \in Seq(Cell) /\ Array(p) \in Seq(Cell) /\ t \in Seq(Cell) /\ at \in Nat /\ Zero \in Cell
      BY <1>1, <1>2, <1>4, Values
    <3>6. SubSeq(Overlay(Array(p), at, t), 1, Most(end, Len(p.file))) = Overlay(Padded(p.file, at, Zero), at, t)
      BY <3>1, <3>4, <3>5, FrontOf
    <3> QED BY <3>6 DEF arr, fl
  <2>2. Padded(p.file, at, Zero) = p.file
    <3>1. at \in Int
      BY <1>2
    <3> QED BY <1>1, <1>2, <3>1, Values, PaddedIs DEF fl
  <2>3. Most(end, fl) = m
    BY DEF m
  <2>4. SubSeq(arr, 1, m) = w
    BY <2>1, <2>2, <2>3
  <2>5. \A i \in 1..(m - 1 + 1) : SubSeq(arr, 1, m)[i] = arr[1 + i - 1]
    BY <1>6, <1>7, <1>8, SubSeqIs
  <2> HIDE DEF w
  <2> QED BY <1>7, <2>4, <2>5, SMT
<1> HIDE DEF w
<1>21. \A i \in 1..m : i # cap \/ ~over => i # nul
  BY <1>1, <1>3, <1>7, SMT DEF m, Most
<1>22. \A i \in 1..m : i # nul => f[i] = w[i]
  BY <1>1, <1>7, <1>10, <1>12, <1>20, SMT
<1>23. \A i \in 1..Len(w) : i # p.cap => q.file[i] = w[i]
  BY <1>1, <1>18, <1>19, <1>21, <1>22
<1>24. Len(q.file) = Len(w)
  BY <1>12, <1>18, <1>19
<1>25. ~q.lost => q.file = w
  BY <1>12, <1>18, <1>19, <1>21, <1>22, SeqEqual
<1>26. q.lost /\ ~p.lost => Len(q.file) = p.cap
  <2>1. over => m = cap
    BY <1>1, <1>3, <1>7, SMT DEF m, Most
  <2>2. q.lost /\ ~p.lost => over
    BY <1>18
  <2> QED BY <1>1, <1>12, <1>18, <2>1, <2>2
<1>27. DeviceSound(q)
  <2>1. Len(q.file) <= MaxContent /\ q.off <= Len(q.file) /\ q.off <= MaxContent
    <3>1. MaxContent \in Nat
      BY FileBufferAssumption
    <3> QED BY <1>3, <1>7, <1>12, <1>18, <3>1, SMT
  <2>2. q.told <= Len(q.file)
    <3>1. p.told \in Nat /\ p.told <= fl
      BY <1>1, Types DEF DeviceSound, fl
    <3> QED BY <1>1, <1>7, <1>12, <1>18, <3>1, SMT
  <2>3. q.dev = "mem" /\ Len(q.file) + Len(q.tail) = q.cap
    <3>1. q.dev = "mem" /\ q.cap = cap /\ q.file = f /\ q.tail = g
      BY <1>1, <1>18 DEF Same
    <3>2. m + (cap - m) = cap
      BY <1>1, <1>7, SMT
    <3> QED BY <1>12, <1>13, <3>1, <3>2
  <2>4. ASSUME q.file # <<>>, q.tail # <<>> PROVE q.tail[1] = Zero
    <3>1. m < cap /\ q.tail[1] = ar2[m + 1] /\ m # 0
      BY <1>12, <1>13, <1>18, <2>4, EmptyIs
    <3>2. CASE end > fl
      <4>1. m + 1 = nul /\ m + 1 \in 1..cap
        BY <1>1, <1>3, <1>7, <3>1, <3>2, SMT DEF m, Most
      <4> QED BY <1>11, <3>1, <4>1
    <3>3. CASE end <= fl
      <4>1. m = fl /\ m + 1 \in 1..cap /\ m + 1 # nul /\ 1 \in 1..tl
            /\ ~(at < m + 1 /\ m + 1 <= at + Len(t))
        BY <1>1, <1>2, <1>3, <1>4, <1>7, <3>1, <3>3, SMT DEF m, Most, end
      <4>2. ar2[m + 1] = arr[m + 1]
        BY <1>10, <4>1
      <4>3. arr[m + 1] = Array(p)[m + 1]
        BY <1>1, <1>4, <1>5, <4>1, OverlayOut DEF arr, cap
      <4>4. Array(p)[m + 1] = p.tail[1]
        BY <1>1, <4>1, ArrayBack DEF fl, tl
      <4>5. p.tail[1] = Zero
        <5>1. p.file # <<>> /\ p.tail # <<>>
          BY <1>1, <3>1, <4>1, Types, EmptyIs, SMT DEF fl, tl
        <5> QED BY <5>1 DEF DeviceSound
      <4> QED BY <3>1, <4>2, <4>3, <4>4, <4>5
    <3> QED BY <1>1, <1>3, <3>2, <3>3, SMT
  <2>5. q.app => q.dev \in {"fd", "mem"}
    BY <2>3
  <2> QED BY <1>17, <2>1, <2>2, <2>3, <2>4, <2>5 DEF DeviceSound
<1>28. o.n \in 0..sl /\ q.off = at + o.n /\ (o.n < sl => at + o.n = p.cap) /\ (p.lost => q.lost)
  <2>1. n \in 0..sl /\ (n < sl => end = cap)
    BY <1>2, <1>3, SMT
  <2>2. o.n = n /\ q.off = end /\ p.cap = cap /\ (p.lost => q.lost)
    BY <1>1, <1>15, <1>18
  <2> QED BY <2>1, <2>2 DEF end
<1>29. At(q) = at + o.n
  <2>1. CASE p.app
    <3>1. at = fl /\ m = end
      <4>1. at = fl
        BY <2>1 DEF at, At, fl
      <4> QED BY <1>1, <1>2, <1>3, <4>1, SMT DEF m, Most
    <3> QED BY <1>12, <1>15, <1>18, <2>1, <3>1 DEF At, Same, end
  <2>2. CASE ~p.app
    BY <1>15, <1>18, <2>2 DEF At, Same, end
  <2> QED BY <2>1, <2>2
<1> QED BY <1>29, <1>15, <1>18, <1>23, <1>24, <1>25, <1>26, <1>27, <1>28 DEF q, o, w, t, at, sl

\* A write begins by taking the unwritten bytes out of the buffer.
Emptied(p) == [p EXCEPT !.held = <<>>, !.act = "write"]

LEMMA EmptiedIs ==
  ASSUME NEW p, DeviceSound(p)
  PROVE  LET q == Emptied(p)
         IN /\ DeviceSound(q) /\ Same(p, q) /\ SameUnread(p, q) /\ At(q) = At(p)
            /\ q.held = <<>> /\ q.act = "write" /\ q.err = p.err /\ q.lost = p.lost
            /\ q.file = p.file /\ q.tail = p.tail /\ q.off = p.off /\ q.told = p.told
            /\ q.faulty = p.faulty /\ q.dumb = p.dumb
<1> DEFINE q == Emptied(p)
<1>1. p \in FileType
  BY DEF DeviceSound
<1>2. q = [p EXCEPT !.held = <<>>, !.act = "write"]
  BY DEF Emptied
<1> HIDE DEF q
<1>3. q \in FileType
  BY <1>1, <1>2, Values DEF FileType
<1>4. /\ Same(p, q) /\ SameUnread(p, q)
      /\ q.held = <<>> /\ q.act = "write" /\ q.err = p.err /\ q.lost = p.lost
      /\ q.file = p.file /\ q.tail = p.tail /\ q.off = p.off /\ q.told = p.told
      /\ q.faulty = p.faulty /\ q.dumb = p.dumb
  BY <1>1, <1>2 DEF FileType, Same, SameUnread
<1>5. DeviceSound(q) /\ At(q) = At(p)
  BY <1>3, <1>4 DEF DeviceSound, Same, At
<1> QED BY <1>4, <1>5 DEF q

\* So does one that sets the mark that bytes are gone.
LEMMA LostIs ==
  ASSUME NEW p, DeviceSound(p), NEW b \in BOOLEAN
  PROVE  LET q == Lost(p, b)
         IN /\ DeviceSound(q) /\ Same(p, q) /\ SameUnread(p, q) /\ At(q) = At(p)
            /\ q.held = p.held /\ q.act = p.act /\ q.err = p.err /\ q.lost = (p.lost \/ b)
            /\ q.file = p.file /\ q.tail = p.tail /\ q.off = p.off /\ q.told = p.told
<1> DEFINE q == Lost(p, b)
           l == p.lost \/ b
<1>1. p \in FileType /\ l \in BOOLEAN
  BY DEF DeviceSound
<1>2. q = [p EXCEPT !.lost = l]
  BY DEF Lost
<1>3. l = (p.lost \/ b)
  OBVIOUS
<1> HIDE DEF q, l
<1>4. q \in FileType
  BY <1>1, <1>2 DEF FileType
<1>5. /\ Same(p, q) /\ SameUnread(p, q)
      /\ q.held = p.held /\ q.act = p.act /\ q.err = p.err /\ q.lost = l
      /\ q.file = p.file /\ q.tail = p.tail /\ q.off = p.off /\ q.told = p.told
  BY <1>1, <1>2 DEF FileType, Same, SameUnread
<1>6. DeviceSound(q) /\ At(q) = At(p)
  BY <1>4, <1>5 DEF DeviceSound, Same, At
<1> QED BY <1>3, <1>5, <1>6 DEF q

LEMMA SameTwice ==
  ASSUME NEW p, NEW q, NEW r, Same(p, q), Same(q, r), SameUnread(p, q), SameUnread(q, r)
  PROVE  Same(p, r) /\ SameUnread(p, r)
BY DEF Same, SameUnread

\* Twice mem_write: what is behind the first part of a content is written
\* where that part ended.
LEMMA MemWriteIs ==
  ASSUME NEW p, NEW s, Fitting(p, s), p.dev = "mem", NEW o \in MemWrite(p, s)
  PROVE  Wrote(p, s, o)
<1> DEFINE e == Emptied(p)
           c == p.held
           h == MemPut(e, c)
           hp == h.p
           r == MemPut(hp, s)
           rp == r.p
           at == At(p)
           fl == Len(p.file)
           cl == Len(c)
           sl == Len(s)
           all == p.held \o s
<1>1. /\ DeviceSound(p) /\ p.act = "write" /\ p \in FileType /\ p.file \in Seq(Cell)
      /\ c \in Seq(Cell) /\ s \in Seq(Cell) /\ all \in Seq(Cell) /\ Len(all) = cl + sl
      /\ cl \in Nat /\ sl \in Nat /\ fl \in Nat
      /\ at + cl + sl <= MaxContent
  BY AllIs, Types, LenIs DEF Fitting
<1>2. at \in Nat /\ at \in 0..fl /\ at <= fl /\ MaxContent \in Nat
  <2>1. at \in Nat /\ at \in 0..fl
    BY <1>1, AtIs
  <2> QED BY <1>1, <2>1, FileBufferAssumption, SMT
<1>3. /\ DeviceSound(e) /\ Same(p, e) /\ SameUnread(p, e) /\ At(e) = at
      /\ e.held = <<>> /\ e.act = "write" /\ e.err = p.err /\ e.lost = p.lost
      /\ e.file = p.file
  BY <1>1, EmptiedIs
<1>4. e.dev = "mem" /\ e.app = p.app /\ e.cap = p.cap
  BY <1>3 DEF Same
<1> HIDE DEF at, cl, sl, fl, e
<1>5. At(e) + Len(c) <= MaxContent
  <2>1. at + cl <= MaxContent
    BY <1>1, <1>2, SMT
  <2> QED BY <1>3, <2>1 DEF cl
<1> DEFINE w == Overlay(p.file, at, SubSeq(c, 1, h.n))
<1>6. /\ DeviceSound(hp) /\ Same(e, hp) /\ SameUnread(e, hp)
      /\ hp.held = <<>> /\ hp.act = "write" /\ hp.err = p.err /\ (p.lost => hp.lost)
      /\ h.n \in 0..cl /\ hp.off = at + h.n /\ At(hp) = at + h.n
      /\ ~hp.lost => hp.file = w
  <2>1. e.dev = "mem" /\ c \in Seq(Cell)
    BY <1>1, <1>4
  <2> HIDE DEF c
  <2> QED BY <1>3, <1>5, <2>1, MemPutIs DEF cl
<1>7. hp.dev = "mem" /\ hp.app = p.app /\ Same(p, hp) /\ SameUnread(p, hp)
  BY <1>3, <1>4, <1>6, SameTwice DEF Same
<1>8. o \in IF h.n < Len(p.held) THEN {[p |-> Lost(hp, TRUE), n |-> 0]}
            ELSE {[p |-> Lost(rp, r.n < Len(s)), n |-> r.n]}
  BY DEF MemWrite, h, hp, r, rp, e, Emptied, c
<1> HIDE DEF h, hp
<1> DEFINE b1 == h.n < Len(p.held)
<1>8a. /\ b1 => o.p = Lost(hp, TRUE) /\ o.n = 0
       /\ ~b1 => o.p = Lost(rp, r.n < Len(s)) /\ o.n = r.n
  <2> DEFINE b2 == r.n < Len(s)
             x == Lost(hp, TRUE)
             y == Lost(rp, b2)
             n == r.n
  <2>1. ASSUME b1 PROVE o = [p |-> x, n |-> 0]
    BY <1>8, <2>1
  <2>2. ASSUME ~b1 PROVE o = [p |-> y, n |-> n]
    BY <1>8, <2>2
  <2> HIDE DEF b1, x, y, n
  <2>3. ASSUME b1 PROVE o.p = x /\ o.n = 0
    BY <2>1, <2>3
  <2>4. ASSUME ~b1 PROVE o.p = y /\ o.n = n
    BY <2>2, <2>4
  <2>5. (b1 => o.p = x /\ o.n = 0) /\ (~b1 => o.p = y /\ o.n = n)
    BY <2>3, <2>4
  <2> QED BY <2>5 DEF x, y, n
<1>9. CASE h.n < Len(p.held)
  <2>1. o.p = Lost(hp, TRUE) /\ o.n = 0
    BY <1>8a, <1>9
  <2>2. /\ DeviceSound(o.p) /\ Same(hp, o.p) /\ SameUnread(hp, o.p)
        /\ o.p.held = hp.held /\ o.p.act = hp.act /\ o.p.err = hp.err /\ o.p.lost
        /\ At(o.p) = At(hp)
    <3> DEFINE b == TRUE
    <3>1. b \in BOOLEAN
      OBVIOUS
    <3>1a. b
      OBVIOUS
    <3>2. o.p = Lost(hp, b)
      BY <2>1
    <3> HIDE DEF b
    <3>3. /\ DeviceSound(o.p) /\ Same(hp, o.p) /\ SameUnread(hp, o.p)
          /\ o.p.held = hp.held /\ o.p.act = hp.act /\ o.p.err = hp.err /\ o.p.lost = (hp.lost \/ b)
          /\ At(o.p) = At(hp)
      <4>1. DeviceSound(hp)
        BY <1>6
      <4> QED BY <3>1, <3>2, <4>1, LostIs
    <3> QED BY <3>1a, <3>3
  <2>3. Same(p, o.p) /\ SameUnread(p, o.p)
    BY <1>7, <2>2, SameTwice
  <2>4. o.n \in 0..Len(s)
    BY <1>1, <2>1, SMT DEF sl
  <2>5. At(o.p) + Len(o.p.held) <= At(p) + Len(p.held) + Len(s)
    <3>1. At(o.p) = At(p) + h.n
      BY <1>6, <2>2 DEF at
    <3>2. h.n \in 0..(Len(p.held) + Len(s))
      <4>1. h.n \in 0..(cl + sl)
        BY <1>1, <1>6, SMT
      <4> QED BY <4>1 DEF cl, sl
    <3> QED BY <1>6, <2>2, <3>1, <3>2, PlaceIs
  <2> QED BY <1>6, <2>2, <2>3, <2>4, <2>5 DEF Wrote, Flagged, NotOut
<1>10. CASE ~(h.n < Len(p.held))
  <2>1. h.n = cl
    <3>1. ~(h.n < cl)
      BY <1>10 DEF cl
    <3> QED BY <1>1, <1>6, <3>1, SMT
  <2>2. SubSeq(c, 1, h.n) = c
    BY <1>1, <2>1, SubSeqFull DEF cl
  <2>3. w = Overlay(p.file, at, c)
    BY <2>2
  <2> HIDE DEF w
  <2>4. At(hp) = at + cl
    BY <1>6, <2>1
  <2>5. At(hp) + Len(s) <= MaxContent
    BY <1>1, <2>4 DEF sl
  <2> DEFINE v == Overlay(hp.file, At(hp), SubSeq(s, 1, r.n))
  <2>6. /\ DeviceSound(rp) /\ Same(hp, rp) /\ SameUnread(hp, rp)
        /\ rp.held = <<>> /\ rp.act = "write" /\ rp.err = p.err /\ (hp.lost => rp.lost)
        /\ r.n \in 0..sl /\ rp.off = at + cl + r.n /\ At(rp) = at + cl + r.n
        /\ ~rp.lost => rp.file = v
    <3>1. hp.dev = "mem" /\ s \in Seq(Cell) /\ DeviceSound(hp)
      BY <1>1, <1>6, <1>7
    <3>2. /\ DeviceSound(rp) /\ Same(hp, rp) /\ SameUnread(hp, rp)
          /\ rp.held = hp.held /\ rp.act = hp.act /\ rp.err = hp.err /\ (hp.lost => rp.lost)
          /\ r.n \in 0..Len(s) /\ rp.off = At(hp) + r.n /\ At(rp) = At(hp) + r.n
          /\ ~rp.lost => rp.file = v
      BY <2>5, <3>1, MemPutIs
    <3> QED BY <1>6, <2>4, <3>2 DEF sl
  <2> DEFINE b == r.n < Len(s)
  <2>7. o.p = Lost(rp, b) /\ o.n = r.n
    BY <1>8a, <1>10
  <2>8. b \in BOOLEAN
    OBVIOUS
  <2>8a. b <=> r.n < sl
    BY DEF sl
  <2> HIDE DEF b, r, rp
  <2>9. /\ DeviceSound(o.p) /\ Same(rp, o.p) /\ SameUnread(rp, o.p)
        /\ o.p.held = rp.held /\ o.p.act = rp.act /\ o.p.err = rp.err /\ o.p.lost = (rp.lost \/ b)
        /\ o.p.file = rp.file /\ o.p.off = rp.off
    BY <2>6, <2>7, <2>8, LostIs
  <2>10. Same(p, o.p) /\ SameUnread(p, o.p)
    BY <1>7, <2>6, <2>9, SameTwice
  <2>11. o.n \in 0..Len(s)
    BY <2>6, <2>7 DEF sl
  <2>12. ASSUME ~o.p.lost
         PROVE  AllOut(p, s, o)
    <3>1. ~rp.lost /\ ~hp.lost /\ ~p.lost /\ ~b
      BY <1>6, <2>6, <2>9, <2>12
    <3>2. r.n = sl
      BY <1>1, <2>6, <2>8a, <3>1, SMT
    <3>3. SubSeq(s, 1, r.n) = s
      BY <1>1, <3>2, SubSeqFull DEF sl
    <3>4. rp.file = Overlay(Overlay(p.file, at, c), at + cl, s)
      BY <1>6, <2>3, <2>4, <2>6, <3>1, <3>3
    <3>5. rp.file = Overlay(p.file, at, c \o s)
      BY <1>1, <1>2, <3>4, OverlayTwice DEF cl, fl
    <3>6. Written(p, all) = Overlay(p.file, At(p), all)
      BY <1>1, WrittenIs
    <3>7. rp.off = at + Len(all)
      <4> HIDE DEF all
      <4> QED BY <1>1, <1>2, <2>6, <3>2, SMT
    <3>8. o.p.lost = p.lost
      <4>1. o.p.lost \in BOOLEAN /\ p.lost \in BOOLEAN
        BY <1>1, <2>9, Types DEF DeviceSound
      <4> QED BY <2>12, <3>1, <4>1
    <3>9. o.n = Len(s) /\ o.p.held = <<>> /\ o.p.act = "write" /\ o.p.err = p.err
      BY <2>6, <2>7, <2>9, <3>2 DEF sl
    <3>10. o.p.file = Written(p, all) /\ o.p.off = At(p) + Len(all)
      BY <2>9, <3>5, <3>6, <3>7 DEF at
    <3> HIDE DEF c, sl, at
    <3> QED BY <3>8, <3>9, <3>10 DEF AllOut
  <2>13. Flagged(p, o.p)
    BY <1>6, <2>6, <2>9 DEF Flagged
  <2>14. At(o.p) + Len(o.p.held) <= At(p) + Len(p.held) + Len(s)
    <3> DEFINE k == cl + r.n
    <3>1. k \in 0..(cl + sl) /\ at + cl + r.n = at + k
      BY <1>1, <1>2, <2>6, SMT
    <3> HIDE DEF k
    <3>2. At(o.p) = At(p) + k /\ k \in 0..(Len(p.held) + Len(s))
      BY <2>6, <2>9, <3>1 DEF At, Same, at, cl, sl
    <3> QED BY <2>6, <2>9, <3>2, PlaceIs
  <2> QED BY <2>6, <2>9, <2>10, <2>11, <2>12, <2>13, <2>14 DEF Wrote, NotOut
<1> QED BY <1>9, <1>10

-----------------------------------------------------------------------------
(* Memory that grows.                                                      *)

\* An array of which the rest is zero, and what is in it once s is written.
Roomy(arr, p, s, end) ==
  /\ end = p.off + Len(s) /\ end <= MaxContent
  /\ arr \in Seq(Cell) /\ Len(p.file) <= Len(arr) /\ end < Len(arr)
  /\ \A i \in 1..Len(p.file) : arr[i] = p.file[i]
  /\ \A i \in (Len(p.file) + 1)..Len(arr) : arr[i] = Zero

StoredIn(p, arr, s, end) ==
  [Filled(p, Overlay(arr, p.off, s), Most(end, Len(p.file))) EXCEPT !.off = end, !.told = end]

LEMMA StoredIs ==
  ASSUME NEW p, DeviceSound(p), p.dev = "grow", NEW s \in Seq(Cell),
         NEW end, NEW arr, Roomy(arr, p, s, end)
  PROVE  LET q == StoredIn(p, arr, s, end)
         IN /\ DeviceSound(q) /\ Same(p, q) /\ SameUnread(p, q) /\ SameHeld(p, q)
            /\ q.faulty = p.faulty
            /\ q.file = Written(p, s) /\ q.off = end
<1> DEFINE q == StoredIn(p, arr, s, end)
           off == p.off
           fl == Len(p.file)
           sl == Len(s)
           al == Len(arr)
           m == Most(end, fl)
           d == Overlay(arr, off, s)
           f == SubSeq(d, 1, m)
           g == SubSeq(d, m + 1, Len(d))
<1>1. p \in FileType /\ p.file \in Seq(Cell) /\ off \in Nat /\ fl \in Nat /\ sl \in Nat /\ al \in Nat
      /\ arr \in Seq(Cell) /\ MaxContent \in Nat /\ fl <= MaxContent /\ fl <= al /\ end < al
  <2>1. p \in FileType /\ fl <= MaxContent
    BY DEF DeviceSound
  <2>2. arr \in Seq(Cell) /\ fl <= al /\ end < al
    BY DEF Roomy
  <2> QED BY <2>1, <2>2, Types, LenIs, FileBufferAssumption
<1> HIDE DEF q, off, fl, sl, al
<1>2. end = off + sl /\ end \in Nat /\ off <= end /\ off \in 0..al
  <2>1. end = off + sl
    BY DEF Roomy, off, sl
  <2> QED BY <1>1, <2>1, SMT
<1>2a. end <= MaxContent
  BY DEF Roomy
<1>3. d \in Seq(Cell) /\ Len(d) = al
  <2>1. off \in 0..Len(arr)
    BY <1>2 DEF al
  <2>2. d \in Seq(Cell) /\ Len(d) = Most(al, off + sl)
    BY <1>1, <2>1, OverlayIs DEF al, sl
  <2> HIDE DEF d
  <2> QED BY <1>1, <1>2, <2>2, SMT DEF Most
<1>4. m \in Nat /\ m < al + 1 /\ end <= m /\ fl <= m /\ m <= MaxContent
  BY <1>1, <1>2, <1>2a, SMT DEF Most
<1> HIDE DEF m, d
<1>5. f \in Seq(Cell) /\ Len(f) = m
  <2>1. f \in Seq(Cell) /\ Len(f) = IF 1 <= m THEN m - 1 + 1 ELSE 0
    BY <1>1, <1>3, <1>4, SubSeqIs
  <2> HIDE DEF f
  <2> QED BY <1>4, <2>1, SMT
<1>6. g \in Seq(Cell) /\ Len(g) = al - m /\ \A i \in 1..Len(g) : g[i] = d[m + i]
  <2>1. m + 1 \in Nat \ {0} /\ Len(d) \in Nat
    BY <1>1, <1>3, <1>4, SMT
  <2>2. g \in Seq(Cell) /\ Len(g) = IF m + 1 <= Len(d) THEN Len(d) - (m + 1) + 1 ELSE 0
    BY <1>3, <2>1, SubSeqIs
  <2>3. \A i \in 1..(Len(d) - (m + 1) + 1) : g[i] = d[(m + 1) + i - 1]
    BY <1>3, <2>1, SubSeqIs
  <2> HIDE DEF g
  <2>4. Len(g) = al - m
    BY <1>1, <1>3, <1>4, <2>2, SMT
  <2>5. \A i \in 1..(al - m) : g[i] = d[m + i]
    BY <1>1, <1>3, <1>4, <2>3, SMT
  <2> QED BY <2>2, <2>4, <2>5
<1>7. q = [p EXCEPT !.file = f, !.tail = g, !.off = end, !.told = end]
  <2>1. q = [Filled(p, d, m) EXCEPT !.off = end, !.told = end]
    BY DEF q, StoredIn, d, m, off, fl
  <2>2. Filled(p, d, m) = [p EXCEPT !.file = f, !.tail = g]
    BY DEF Filled
  <2> HIDE DEF f, g
  <2> QED BY <1>1, <2>1, <2>2 DEF FileType
<1>8. f = Written(p, s)
  <2>1. off = At(p) /\ ~p.app
    <3>1. ~p.app
      BY DEF DeviceSound
    <3> QED BY <3>1 DEF At, off
  <2>2. Begins(arr, p.file, off, Zero)
    <3>1. \A i \in 1..fl : arr[i] = p.file[i]
      BY DEF Roomy, fl
    <3>2. \A i \in (fl + 1)..al : arr[i] = Zero
      BY DEF Roomy, fl, al
    <3>3. \A i \in (fl + 1)..off : arr[i] = Zero
      BY <1>1, <1>2, <3>2, SMT
    <3> QED BY <1>1, <3>1, <3>3 DEF Begins, fl, al
  <2>3. end = off + Len(s) /\ end <= Len(arr)
    BY <1>1, <1>2, SMT DEF al, sl
  <2>4. SubSeq(Overlay(arr, off, s), 1, Most(end, Len(p.file))) = Overlay(Padded(p.file, off, Zero), off, s)
    BY <1>1, <2>2, <2>3, Values, FrontOf
  <2> QED BY <2>1, <2>4 DEF f, d, m, fl, Written
<1> HIDE DEF f, g
<1>9. q \in FileType
  BY <1>1, <1>2, <1>5, <1>6, <1>7 DEF FileType
<1>10. /\ Same(p, q) /\ SameUnread(p, q) /\ SameHeld(p, q) /\ q.faulty = p.faulty
       /\ q.file = f /\ q.tail = g /\ q.off = end /\ q.told = end
  BY <1>1, <1>7 DEF FileType, Same, SameUnread, SameHeld
<1>11. DeviceSound(q)
  <2>1. q.dev = "grow" /\ ~q.app /\ ~q.rd
    BY <1>10 DEF Same, DeviceSound
  <2>2. Len(q.file) <= MaxContent /\ q.off <= MaxContent /\ q.told <= Len(q.file)
    BY <1>2a, <1>4, <1>5, <1>10
  <2>3. q.told < Len(q.file) + Len(q.tail)
    <3>1. Len(q.file) = m /\ Len(q.tail) = al - m /\ q.told = end
      BY <1>5, <1>6, <1>10
    <3>2. m + (al - m) = al
      BY <1>1, <1>4, SMT
    <3> QED BY <1>1, <3>1, <3>2
  <2>4. \A i \in 1..Len(q.tail) : q.tail[i] = Zero
    <3>1. ASSUME NEW i \in 1..Len(g) PROVE g[i] = Zero
      <4> DEFINE j == m + i
      <4>1. j \in 1..al /\ j \in (fl + 1)..al /\ ~(off < j /\ j <= end)
        <5>1. i \in 1..(al - m)
          BY <1>6
        <5> QED BY <1>1, <1>2, <1>4, <5>1, SMT
      <4> HIDE DEF j
      <4>2. g[i] = d[j]
        BY <1>6 DEF j
      <4>3. d[j] = arr[j]
        <5>1. j \in 1..Len(arr) /\ off \in 0..Len(arr) /\ ~(off < j /\ j <= off + Len(s))
          BY <1>2, <4>1 DEF al, sl
        <5> QED BY <1>1, <5>1, OverlayOut DEF d
      <4>4. arr[j] = Zero
        BY <4>1 DEF Roomy, fl, al
      <4> QED BY <4>2, <4>3, <4>4
    <3> QED BY <1>10, <3>1
  <2> QED BY <1>9, <2>1, <2>2, <2>3, <2>4 DEF DeviceSound
<1> QED BY <1>8, <1>10, <1>11 DEF q

\* ms_write of s alone: all of it, or no memory and nothing.
LEMMA GrowPutIs ==
  ASSUME NEW p, DeviceSound(p), p.dev = "grow",
         NEW s \in Seq(Cell), At(p) + Len(s) <= MaxContent, NEW o \in GrowPut(p, s)
  PROVE  /\ DeviceSound(o.p) /\ Same(p, o.p) /\ SameUnread(p, o.p)
         /\ o.p.held = p.held /\ o.p.act = p.act /\ o.p.err = p.err
         /\ \/ /\ o.n = Len(s) /\ o.p.lost = p.lost
               /\ o.p.file = Written(p, s) /\ o.p.off = At(p) + Len(s) /\ At(o.p) = At(p) + Len(s)
            \/ o.n = 0 /\ o.p.lost /\ o.p.file = p.file /\ At(o.p) = At(p)
<1> DEFINE space == Len(Array(p))
           off == p.off
           fl == Len(p.file)
           sl == Len(s)
           tl == Len(p.tail)
           end == off + sl
<1>1. p \in FileType /\ p.file \in Seq(Cell) /\ p.tail \in Seq(Cell) /\ off \in Nat /\ fl \in Nat /\ sl \in Nat /\ tl \in Nat
      /\ Array(p) \in Seq(Cell) /\ space = fl + tl
  <2>1. p \in FileType
    BY DEF DeviceSound
  <2> QED BY <2>1, Types, LenIs, ArrayIs
<1>2. off = At(p) /\ ~p.app /\ (\A i \in 1..tl : p.tail[i] = Zero)
  <2>1. ~p.app /\ (\A i \in 1..tl : p.tail[i] = Zero)
    BY DEF DeviceSound
  <2> QED BY <2>1 DEF At, off
<1>3. end <= MaxContent
  BY <1>2 DEF sl, off
<1>4. (\A i \in 1..fl : Array(p)[i] = p.file[i]) /\ (\A i \in 1..tl : Array(p)[fl + i] = Zero)
  BY <1>1, <1>2, ArrayFront, ArrayBack
<1>5. end = p.off + Len(s)
  BY DEF off, sl
<1> HIDE DEF space, off, fl, sl, tl
<1>6. \A i \in (fl + 1)..space : Array(p)[i] = Zero
  <2> DEFINE arr == Array(p)
  <2>1. \A i \in 1..tl : arr[fl + i] = Zero
    BY <1>4
  <2> HIDE DEF arr
  <2>2. ASSUME NEW i \in (fl + 1)..space PROVE arr[i] = Zero
    <3>1. i - fl \in 1..tl /\ fl + (i - fl) = i
      BY <1>1, SMT
    <3> QED BY <2>1, <3>1
  <2> QED BY <2>2 DEF arr
<1>7. end \in Nat /\ space \in Nat
  BY <1>1, SMT
<1> HIDE DEF end
<1>8. ASSUME NEW arr, Roomy(arr, p, s, end), o = [p |-> StoredIn(p, arr, s, end), n |-> Len(s)]
      PROVE  /\ DeviceSound(o.p) /\ Same(p, o.p) /\ SameUnread(p, o.p)
             /\ o.p.held = p.held /\ o.p.act = p.act /\ o.p.err = p.err
             /\ o.n = Len(s) /\ o.p.lost = p.lost
             /\ o.p.file = Written(p, s) /\ o.p.off = At(p) + Len(s) /\ At(o.p) = At(p) + Len(s)
  <2>1. o.p = StoredIn(p, arr, s, end) /\ o.n = Len(s)
    BY <1>8
  <2>2. /\ DeviceSound(o.p) /\ Same(p, o.p) /\ SameUnread(p, o.p) /\ SameHeld(p, o.p)
        /\ o.p.file = Written(p, s) /\ o.p.off = end
    <3>1. Roomy(arr, p, s, end)
      BY <1>8
    <3> DEFINE q == StoredIn(p, arr, s, end)
    <3>2. /\ DeviceSound(q) /\ Same(p, q) /\ SameUnread(p, q) /\ SameHeld(p, q)
          /\ q.file = Written(p, s) /\ q.off = end
      BY <3>1, StoredIs
    <3> HIDE DEF q
    <3>3. o.p = q
      BY <2>1 DEF q
    <3> QED BY <3>2, <3>3
  <2>3. end = At(p) + Len(s)
    BY <1>2, <1>5 DEF off
  <2>4. At(o.p) = end
    BY <1>2, <2>2 DEF At, Same
  <2> QED BY <2>1, <2>2, <2>3, <2>4 DEF SameHeld
<1>9. \/ end < space /\ o = [p |-> StoredIn(p, Array(p), s, end), n |-> Len(s)]
      \/ \E more \in BitOr(2 * space + 1, end + 1) :
           o = [p |-> StoredIn(p, Padded(Array(p), more, Zero), s, end), n |-> Len(s)]
      \/ o = [p |-> Lost(p, TRUE), n |-> 0]
  BY DEF GrowPut, StoredIn, space, end, off, sl, fl
<1>10. CASE end < space /\ o = [p |-> StoredIn(p, Array(p), s, end), n |-> Len(s)]
  <2>1. fl <= space
    BY <1>1, SMT
  <2>2. Roomy(Array(p), p, s, end)
    BY <1>1, <1>3, <1>4, <1>5, <1>6, <1>10, <2>1 DEF Roomy, fl, space
  <2> QED BY <1>8, <1>10, <2>2
<1>11. CASE \E more \in BitOr(2 * space + 1, end + 1) :
             o = [p |-> StoredIn(p, Padded(Array(p), more, Zero), s, end), n |-> Len(s)]
  <2>1. PICK more \in BitOr(2 * space + 1, end + 1) :
             o = [p |-> StoredIn(p, Padded(Array(p), more, Zero), s, end), n |-> Len(s)]
    BY <1>11
  <2>2. more \in Most(2 * space + 1, end + 1)..((2 * space + 1) + (end + 1))
    BY DEF BitOr
  <2>3. more \in Int /\ space < more /\ end < more
    BY <1>7, <2>2, SMT DEF Most
  <2> DEFINE a == Array(p)
             arr == Padded(a, more, Zero)
  <2>4. arr \in Seq(Cell) /\ Len(arr) = Most(space, more)
    BY <1>1, <2>3, Values, PaddedIs DEF space
  <2>5. \A i \in 1..Len(a) : arr[i] = a[i]
    BY <1>1, <2>3, Values, PaddedIn
  <2>6. \A i \in (Len(a) + 1)..more : arr[i] = Zero
    BY <1>1, <2>3, Values, PaddedOut
  <2>7. Len(a) = space /\ (\A i \in 1..fl : a[i] = p.file[i]) /\ (\A i \in (fl + 1)..space : a[i] = Zero)
    BY <1>4, <1>6 DEF space
  <2> HIDE DEF a, arr
  <2>8. Len(arr) = more
    BY <1>7, <2>3, <2>4, SMT DEF Most
  <2>9. fl <= Len(arr) /\ end < Len(arr)
    BY <1>1, <2>3, <2>8, SMT
  <2> DEFINE f == p.file
  <2>10. \A i \in 1..fl : arr[i] = f[i]
    <3>1. \A i \in 1..fl : i \in 1..Len(a)
      BY <1>1, <2>7, SMT
    <3> QED BY <2>5, <2>7, <3>1
  <2>11. \A i \in (fl + 1)..Len(arr) : arr[i] = Zero
    <3>1. ASSUME NEW i \in (fl + 1)..Len(arr) PROVE arr[i] = Zero
      <4>1. (i \in (fl + 1)..space /\ i \in 1..Len(a)) \/ i \in (Len(a) + 1)..more
        BY <1>1, <2>3, <2>7, <2>8, SMT
      <4> QED BY <2>5, <2>6, <2>7, <4>1
    <3> QED BY <3>1
  <2>12. Roomy(arr, p, s, end)
    BY <1>3, <1>5, <2>4, <2>9, <2>10, <2>11 DEF Roomy, fl
  <2> QED BY <1>8, <2>1, <2>12 DEF arr, a
<1>12. CASE o = [p |-> Lost(p, TRUE), n |-> 0]
  <2> DEFINE b == TRUE
  <2>1. b \in BOOLEAN
    OBVIOUS
  <2>2. b
    OBVIOUS
  <2>3. o.p = Lost(p, b) /\ o.n = 0
    BY <1>12
  <2> HIDE DEF b
  <2>4. /\ DeviceSound(o.p) /\ Same(p, o.p) /\ SameUnread(p, o.p)
        /\ o.p.held = p.held /\ o.p.act = p.act /\ o.p.err = p.err /\ o.p.lost = (p.lost \/ b)
        /\ o.p.file = p.file /\ At(o.p) = At(p)
    BY <2>1, <2>3, LostIs
  <2> QED BY <2>2, <2>3, <2>4
<1> QED BY <1>8, <1>9, <1>10, <1>11, <1>12

\* Nothing unwritten: what is written is s alone.
LEMMA NothingHeld ==
  ASSUME NEW s \in Seq(Cell)
  PROVE  <<>> \o s = s
OBVIOUS

\* Writing what follows where the content ends so far.
LEMMA WrittenTwice ==
  ASSUME NEW p, DeviceSound(p), NEW c \in Seq(Cell), NEW s \in Seq(Cell), NEW q, DeviceSound(q),
         q.file = Written(p, c), At(q) = At(p) + Len(c)
  PROVE  Written(q, s) = Written(p, c \o s)
<1> DEFINE at == At(p)
           at2 == At(q)
           cl == Len(c)
           f == p.file
           fl == Len(f)
           d == Padded(f, at, Zero)
           w == Overlay(d, at, c)
           wl == Len(w)
<1>1. f \in Seq(Cell) /\ at \in Nat /\ cl \in Nat /\ Zero \in Cell /\ fl \in Nat
  BY Types, LenIs, AtIs, Values DEF DeviceSound
<1> HIDE DEF f, at
<1>2. d \in Seq(Cell) /\ Len(d) = Most(fl, at)
  BY <1>1, PaddedIs
<1> HIDE DEF d, fl
<1>3. at \in 0..Len(d) /\ Len(d) \in Nat
  BY <1>1, <1>2, SMT DEF Most
<1>4. w \in Seq(Cell) /\ wl = Most(Len(d), at + cl)
  BY <1>2, <1>3, OverlayIs
<1> HIDE DEF w
<1>5. at2 = at + cl
  BY DEF at
<1> HIDE DEF at2, cl, wl
<1>6. at2 \in Int /\ at2 <= wl
  BY <1>1, <1>3, <1>4, <1>5, SMT DEF Most
<1>7. Padded(w, at2, Zero) = w
  <2>1. at2 <= Len(w)
    BY <1>6 DEF wl
  <2> QED BY <1>1, <1>4, <1>6, <2>1, PaddedIs
<1>8. q.file = w
  BY DEF Written, w, d, f, at
<1>9. Written(q, s) = Overlay(w, at2, s)
  BY <1>7, <1>8 DEF Written, at2
<1>10. Overlay(Overlay(d, at, c), at + Len(c), s) = Overlay(d, at, c \o s)
  BY <1>2, <1>3, OverlayTwice
<1>11. Written(p, c \o s) = Overlay(d, at, c \o s)
  BY DEF Written, d, at, f
<1> QED BY <1>5, <1>9, <1>10, <1>11 DEF w, cl

\* What the first of two transfers, that of the unwritten bytes, leaves behind
\* when all of it was taken.
FirstOut(p, q) ==
  /\ DeviceSound(q) /\ Same(p, q) /\ SameUnread(p, q)
  /\ q.held = <<>> /\ q.act = "write" /\ q.err = p.err /\ q.lost = p.lost
  /\ At(q) = At(p) + Len(p.held)
  /\ p.held # <<>> => q.file = Written(p, p.held)
  /\ p.held = <<>> => q.file = p.file

\* Then s has a place behind it, and with s out all is.
LEMMA FirstOutIs ==
  ASSUME NEW p, NEW s, Fitting(p, s), NEW q, FirstOut(p, q)
  PROVE  /\ DeviceSound(q) /\ At(q) + Len(s) <= MaxContent /\ s \in Seq(Cell)
         /\ Written(q, s) = Written(p, p.held \o s)
         /\ At(q) + Len(s) = At(p) + Len(p.held \o s)
<1> DEFINE at == At(p)
           cl == Len(p.held)
           sl == Len(s)
           al == Len(p.held \o s)
<1>1. /\ p.held \in Seq(Cell) /\ s \in Seq(Cell) /\ al = cl + sl /\ cl \in Nat /\ sl \in Nat /\ at \in Nat
      /\ at + al <= MaxContent /\ DeviceSound(p)
  BY AllIs, AtIs DEF Fitting
<1> HIDE DEF at, cl, sl, al
<1>2. At(q) = at + cl /\ DeviceSound(q)
  BY DEF FirstOut, at, cl
<1>3. at + cl + sl = at + al
  BY <1>1, SMT
<1>4. Written(q, s) = Written(p, p.held \o s)
  <2>1. CASE p.held # <<>>
    BY <1>1, <1>2, <2>1, WrittenTwice DEF FirstOut, at, cl
  <2>2. CASE p.held = <<>>
    <3>1. q.file = p.file
      BY <2>2 DEF FirstOut
    <3>2. cl = 0
      BY <1>1, <2>2, EmptyIs DEF cl
    <3>3. At(q) = at
      BY <1>1, <1>2, <3>2, SMT
    <3>4. Written(q, s) = Written(p, s)
      BY <3>1, <3>3 DEF Written, at
    <3>5. p.held \o s = s
      BY <1>1, <2>2, NothingHeld
    <3> QED BY <3>4, <3>5
  <2> QED BY <2>1, <2>2
<1> QED BY <1>1, <1>2, <1>3, <1>4 DEF at, al, sl

LEMMA WithNothingHeld ==
  ASSUME NEW p, DeviceSound(p), p.held = <<>>
  PROVE  FirstOut(p, Emptied(p))
<1> DEFINE q == Emptied(p)
<1>1. /\ DeviceSound(q) /\ Same(p, q) /\ SameUnread(p, q) /\ At(q) = At(p)
      /\ q.held = <<>> /\ q.act = "write" /\ q.err = p.err /\ q.lost = p.lost
      /\ q.file = p.file
  BY EmptiedIs
<1> HIDE DEF q
<1> DEFINE at == At(p)
           cl == Len(p.held)
<1>2. at \in Nat /\ cl = 0
  BY AtIs, EmptySeq
<1>3. at = at + cl
  <2> HIDE DEF at, cl
  <2> QED BY <1>2, SMT
<1>4. At(q) = At(p) + Len(p.held)
  BY <1>1, <1>3
<1> QED BY <1>1, <1>4 DEF FirstOut, q

\* ms_write
LEMMA GrowWriteIs ==
  ASSUME NEW p, NEW s, Fitting(p, s), p.dev = "grow", NEW o \in GrowWrite(p, s)
  PROVE  Wrote(p, s, o)
<1> DEFINE q == Emptied(p)
           c == p.held
           Put == IF c = <<>> THEN {[p |-> q, n |-> 0]} ELSE GrowPut(q, c)
           sl == Len(s)
<1>1. /\ DeviceSound(p) /\ p.act = "write" /\ c \in Seq(Cell) /\ s \in Seq(Cell)
      /\ Len(c) \in Nat /\ Len(s) \in Nat /\ At(p) \in Nat /\ MaxContent \in Nat
      /\ At(p) + Len(c) + Len(s) <= MaxContent
  BY AllIs, AtIs, FileBufferAssumption DEF Fitting
<1>2. PICK h \in Put : o \in IF h.n < Len(c) THEN {h} ELSE GrowPut(h.p, s)
  BY DEF GrowWrite, Emptied
<1>3. /\ DeviceSound(q) /\ Same(p, q) /\ SameUnread(p, q) /\ At(q) = At(p)
      /\ q.held = <<>> /\ q.act = "write" /\ q.err = p.err /\ q.lost = p.lost
      /\ q.file = p.file
  BY <1>1, EmptiedIs
<1>4. q.dev = "grow"
  BY <1>3 DEF Same
<1> HIDE DEF q, c
<1>5. \/ FirstOut(p, h.p) /\ h.n = Len(c)
      \/ /\ c # <<>> /\ h.n = 0 /\ h.p.lost
         /\ DeviceSound(h.p) /\ Same(p, h.p) /\ SameUnread(p, h.p) /\ At(h.p) = At(p)
         /\ h.p.held = <<>> /\ h.p.act = "write" /\ h.p.err = p.err
  <2>1. CASE c = <<>>
    <3>1. h.p = q /\ h.n = 0
      BY <1>2, <2>1
    <3>2. FirstOut(p, q)
      BY <1>1, <2>1, WithNothingHeld DEF q, c
    <3>3. Len(c) = 0
      BY <2>1, EmptySeq
    <3> QED BY <3>1, <3>2, <3>3
  <2>2. CASE c # <<>>
    <3>1. h \in GrowPut(q, c)
      BY <1>2, <2>2
    <3>2. At(q) + Len(c) <= MaxContent
      <4> DEFINE a == At(p)
                 l == Len(c)
                 n == Len(s)
      <4>1. a \in Nat /\ l \in Nat /\ n \in Nat /\ a + l + n <= MaxContent /\ At(q) = a
        BY <1>1, <1>3
      <4> HIDE DEF a, l, n
      <4>2. a + l <= MaxContent
        BY <1>1, <4>1, SMT
      <4> QED BY <4>1, <4>2 DEF l
    <3>3. /\ DeviceSound(h.p) /\ Same(q, h.p) /\ SameUnread(q, h.p)
          /\ h.p.held = q.held /\ h.p.act = q.act /\ h.p.err = q.err
          /\ \/ /\ h.n = Len(c) /\ h.p.lost = q.lost
                /\ h.p.file = Written(q, c) /\ h.p.off = At(q) + Len(c)
             \/ h.n = 0 /\ h.p.lost /\ h.p.file = q.file /\ At(h.p) = At(q)
      BY <1>1, <1>3, <1>4, <3>1, <3>2, GrowPutIs
    <3>4. Same(p, h.p) /\ SameUnread(p, h.p)
      BY <1>3, <3>3, SameTwice
    <3>5. Written(q, c) = Written(p, c)
      BY <1>3 DEF Written
    <3>6. At(h.p) = h.p.off
      <4>1. ~h.p.app
        BY <1>1, <3>4 DEF Same, DeviceSound
      <4> QED BY <4>1 DEF At
    <3> QED BY <1>3, <2>2, <3>3, <3>4, <3>5, <3>6 DEF FirstOut, c
  <2> QED BY <2>1, <2>2
<1>6. CASE h.n < Len(c)
  <2>1. o = h
    BY <1>2, <1>6
  <2>2. ~(h.n = Len(c))
    BY <1>1, <1>6, SMT
  <2>3. 0 \in 0..Len(s)
    <3> DEFINE sn == Len(s)
    <3>1. sn \in Nat
      BY <1>1
    <3> HIDE DEF sn
    <3>2. 0 \in 0..sn
      BY <3>1, SMT
    <3> QED BY <3>2 DEF sn
  <2>4. At(o.p) + Len(o.p.held) <= At(p) + Len(p.held) + Len(s)
    <3> DEFINE at == At(p)
               cl == Len(p.held)
    <3>1. at = at + 0 /\ 0 \in 0..(cl + sl)
      <4>1. cl \in Nat /\ sl \in Nat /\ at \in Nat
        BY <1>1 DEF c
      <4> HIDE DEF cl, sl, at
      <4> QED BY <4>1, SMT
    <3>2. At(o.p) = At(p) + 0 /\ 0 \in 0..(Len(p.held) + Len(s))
      BY <1>5, <2>1, <2>2, <3>1
    <3> QED BY <1>5, <2>1, <2>2, <3>2, PlaceIs
  <2> QED BY <1>3, <1>5, <2>1, <2>2, <2>3, <2>4 DEF Wrote, Flagged, NotOut
<1>7. CASE ~(h.n < Len(c))
  <2> DEFINE hp == h.p
  <2>1. o \in GrowPut(hp, s)
    BY <1>2, <1>7
  <2>2. FirstOut(p, hp)
    <3>1. c # <<>> => Len(c) # 0
      BY <1>1, EmptyIs
    <3>2. ~(c # <<>> /\ h.n = 0)
      BY <1>1, <1>7, <3>1, SMT
    <3> QED BY <1>5, <3>2
  <2> HIDE DEF hp
  <2>3. /\ DeviceSound(hp) /\ At(hp) + Len(s) <= MaxContent
        /\ Written(hp, s) = Written(p, p.held \o s)
        /\ At(hp) + Len(s) = At(p) + Len(p.held \o s)
    BY <2>2, FirstOutIs
  <2>4. /\ Same(p, hp) /\ SameUnread(p, hp) /\ hp.dev = "grow"
        /\ hp.held = <<>> /\ hp.act = "write" /\ hp.err = p.err /\ hp.lost = p.lost
    BY <2>2 DEF FirstOut, Same
  <2>5. /\ DeviceSound(o.p) /\ Same(hp, o.p) /\ SameUnread(hp, o.p)
        /\ o.p.held = hp.held /\ o.p.act = hp.act /\ o.p.err = hp.err
        /\ \/ /\ o.n = Len(s) /\ o.p.lost = hp.lost
              /\ o.p.file = Written(hp, s) /\ o.p.off = At(hp) + Len(s)
           \/ o.n = 0 /\ o.p.lost /\ At(o.p) = At(hp)
    BY <1>1, <2>1, <2>3, <2>4, GrowPutIs
  <2>6. Same(p, o.p) /\ SameUnread(p, o.p)
    BY <2>4, <2>5, SameTwice
  <2>7. o.n \in 0..Len(s)
    <3> DEFINE sn == Len(s)
    <3>1. sn \in Nat
      BY <1>1
    <3> HIDE DEF sn
    <3>2. 0 \in 0..sn /\ sn \in 0..sn
      BY <3>1, SMT
    <3> QED BY <2>5, <3>2 DEF sn
  <2>8. AllOut(p, s, o) \/ o.p.lost
    BY <2>3, <2>4, <2>5 DEF AllOut
  <2>9. Flagged(p, o.p)
    BY <2>4, <2>5 DEF Flagged
  <2>10. At(o.p) + Len(o.p.held) <= At(p) + Len(p.held) + Len(s)
    <3> DEFINE at == At(p)
               cl == Len(p.held)
               k == cl + sl
    <3>1. cl \in Nat /\ sl \in Nat /\ at \in Nat
      BY <1>1 DEF c
    <3>2. At(hp) = at + cl /\ At(hp) + sl = at + cl + sl
      BY <2>2 DEF FirstOut
    <3>3. At(o.p) = At(hp) \/ At(o.p) = At(hp) + sl
      <4>1. ~o.p.app
        BY <2>4, <2>6, <1>1 DEF Same, DeviceSound
      <4>2. At(o.p) = o.p.off
        BY <4>1 DEF At
      <4> QED BY <2>5, <4>2
    <3> DEFINE ao == At(o.p)
    <3>4. ao = at + cl \/ ao = at + cl + sl
      BY <3>2, <3>3
    <3> HIDE DEF cl, sl, at, ao
    <3>5. \E i \in 0..(cl + sl) : ao = at + i
      BY <3>1, <3>4, SMT
    <3>6. PICK i \in 0..(Len(p.held) + Len(s)) : At(o.p) = At(p) + i
      BY <3>5 DEF cl, sl, at, ao
    <3> QED BY <2>4, <2>5, <3>6, PlaceIs
  <2> QED BY <2>4, <2>5, <2>6, <2>7, <2>8, <2>9, <2>10 DEF Wrote, NotOut
<1> QED BY <1>6, <1>7

-----------------------------------------------------------------------------
(* The creator's functions.                                                *)

LEMMA NoWriting ==
  ASSUME NEW p, DeviceSound(p), p.act = "write"
  PROVE  LET q == [NotWriting(p) EXCEPT !.err = TRUE]
         IN /\ DeviceSound(q) /\ Same(p, q) /\ SameUnread(p, q)
            /\ q.held = <<>> /\ q.act = "none" /\ q.err /\ q.lost = p.lost
            /\ q.file = p.file /\ q.off = p.off /\ At(q) = At(p)
<1> DEFINE q == [NotWriting(p) EXCEPT !.err = TRUE]
<1>1. p \in FileType
  BY DEF DeviceSound
<1>2. NotWriting(p) = [p EXCEPT !.held = <<>>, !.act = "none"]
  BY DEF NotWriting
<1>3. q = [p EXCEPT !.held = <<>>, !.act = "none", !.err = TRUE]
  BY <1>1, <1>2 DEF FileType
<1> HIDE DEF q
<1>4. q \in FileType
  BY <1>1, <1>3, Values DEF FileType
<1>5. /\ Same(p, q) /\ SameUnread(p, q) /\ q.held = <<>> /\ q.act = "none" /\ q.err = TRUE
      /\ q.lost = p.lost /\ q.file = p.file /\ q.tail = p.tail /\ q.off = p.off /\ q.told = p.told
  BY <1>1, <1>3 DEF FileType, Same, SameUnread
<1>6. DeviceSound(q)
  BY <1>4, <1>5 DEF DeviceSound, Same
<1>7. At(q) = At(p)
  BY <1>5 DEF At, Same
<1> QED BY <1>5, <1>6, <1>7 DEF q

\* The creator's write function takes some of s, or fails.
PutRight(p, s, o) ==
  /\ DeviceSound(o.p) /\ Same(p, o.p) /\ SameUnread(p, o.p)
  /\ o.p.held = <<>> /\ o.p.lost = p.lost
  /\ \/ /\ o.n \in 0..Len(s) /\ o.p.act = "write" /\ o.p.err = p.err /\ At(o.p) = At(p) + o.n
        /\ o.n = Len(s) => o.p.file = Written(p, s) /\ o.p.off = At(p) + Len(s)
     \/ o.n = -1 /\ o.p.act = "none" /\ o.p.err /\ At(o.p) = At(p)

LEMMA CookiePutIs ==
  ASSUME NEW p, DeviceSound(p), p.dev = "cookie", p.act = "write", p.held = <<>>,
         NEW s \in Seq(Cell), At(p) + Len(s) <= MaxContent, NEW o \in CookiePut(p, s)
  PROVE  PutRight(p, s, o)
<1> DEFINE sl == Len(s)
<1>1. sl \in Nat /\ At(p) \in Nat /\ MaxContent \in Nat /\ At(p) + sl <= MaxContent
  BY LenIs, AtIs, FileBufferAssumption
<1> HIDE DEF sl
<1>2. \/ \E k \in 0..sl : o = [p |-> KernelWrite(p, SubSeq(s, 1, k)), n |-> k]
      \/ o = [p |-> [NotWriting(p) EXCEPT !.err = TRUE], n |-> -1]
  <2>1. sl \in 0..sl
    BY <1>1, SMT
  <2> QED BY <2>1 DEF CookiePut, sl
<1>3. CASE \E k \in 0..sl : o = [p |-> KernelWrite(p, SubSeq(s, 1, k)), n |-> k]
  <2>1. PICK k \in 0..sl : o = [p |-> KernelWrite(p, SubSeq(s, 1, k)), n |-> k]
    BY <1>3
  <2> DEFINE t == SubSeq(s, 1, k)
             q == KernelWrite(p, t)
  <2>2. o.p = q /\ o.n = k
    BY <2>1
  <2>3. k \in Nat /\ k <= sl /\ 1 \in Nat \ {0}
    BY <1>1, SMT
  <2>4. t \in Seq(Cell) /\ Len(t) = k
    <3>1. t \in Seq(Cell) /\ Len(t) = IF 1 <= k THEN k - 1 + 1 ELSE 0
      BY <2>3, SubSeqIs DEF sl
    <3> HIDE DEF t
    <3> QED BY <2>3, <3>1, SMT
  <2>5. k = sl => t = s
    BY SubSeqFull DEF sl
  <2> HIDE DEF q, t
  <2>6. At(p) + Len(t) <= MaxContent
    <3>1. At(p) + k <= MaxContent
      <4> DEFINE a == At(p)
      <4>1. a \in Nat /\ a + sl <= MaxContent
        BY <1>1
      <4> HIDE DEF a
      <4>2. a + k <= MaxContent
        BY <1>1, <2>3, <4>1, SMT
      <4> QED BY <4>2 DEF a
    <3> QED BY <2>4, <3>1
  <2>7. /\ DeviceSound(q) /\ Same(p, q) /\ SameUnread(p, q) /\ SameHeld(p, q)
        /\ q.file = Overlay(p.file, At(p), t) /\ q.off = At(p) + Len(t) /\ At(q) = At(p) + Len(t)
    BY <2>4, <2>6, KernelWriteIs DEF q
  <2>8. Written(p, s) = Overlay(p.file, At(p), s)
    BY WrittenIs
  <2>9. At(q) = At(p) + k
    BY <2>4, <2>7
  <2> QED BY <2>2, <2>5, <2>7, <2>8, <2>9 DEF PutRight, SameHeld, sl
<1>4. CASE o = [p |-> [NotWriting(p) EXCEPT !.err = TRUE], n |-> -1]
  <2>1. o.p = [NotWriting(p) EXCEPT !.err = TRUE] /\ o.n = -1
    BY <1>4
  <2>2. /\ DeviceSound(o.p) /\ Same(p, o.p) /\ SameUnread(p, o.p)
        /\ o.p.held = <<>> /\ o.p.act = "none" /\ o.p.err /\ o.p.lost = p.lost /\ At(o.p) = At(p)
    BY <2>1, NoWriting
  <2> QED BY <2>1, <2>2 DEF PutRight
<1> QED BY <1>2, <1>3, <1>4

\* A transfer of which a part was taken is a loss.
LEMMA ShortIs ==
  ASSUME NEW p, NEW s, NEW o, s \in Seq(Cell), PutRight(p, s, o)
  PROVE  LET q == Short(o, s)
         IN /\ DeviceSound(q) /\ Same(p, q) /\ SameUnread(p, q) /\ q.held = <<>>
            /\ (p.lost => q.lost) /\ (p.err => q.err) /\ q.act = o.p.act /\ At(q) = At(o.p)
            /\ \/ o.n = Len(s) /\ q.lost = p.lost /\ q.err = p.err /\ q.act = "write"
                  /\ q.file = Written(p, s) /\ q.off = At(p) + Len(s)
               \/ q.lost
               \/ q.err /\ q.act = "none"
<1> DEFINE q == Short(o, s)
           b == o.n \in 0..(Len(s) - 1)
           sl == Len(s)
<1>1. sl \in Nat
  BY LenIs
<1>2. b <=> o.n \in 0..(sl - 1)
  OBVIOUS
<1>3. b \in BOOLEAN
  OBVIOUS
<1>4. q = Lost(o.p, b)
  BY DEF Short
<1> HIDE DEF q, b, sl
<1>5. DeviceSound(o.p)
  BY DEF PutRight
<1>6. /\ DeviceSound(q) /\ Same(o.p, q) /\ SameUnread(o.p, q) 
      /\ q.held = o.p.held /\ q.act = o.p.act /\ q.err = o.p.err /\ q.lost = (o.p.lost \/ b)
      /\ q.file = o.p.file /\ q.off = o.p.off
  BY <1>3, <1>4, <1>5, LostIs
<1>7. Same(p, q) /\ SameUnread(p, q) /\ At(q) = At(o.p)
  <2>1. At(q) = At(o.p)
    BY <1>6 DEF At, Same
  <2> QED BY <1>6, <2>1, SameTwice DEF PutRight
<1>8. CASE o.n = -1 /\ o.p.act = "none" /\ o.p.err
  BY <1>6, <1>7, <1>8 DEF PutRight, q
<1>9. CASE o.n \in 0..Len(s) /\ o.p.act = "write" /\ o.p.err = p.err
  <2>1. b \/ o.n = sl
    <3>1. o.n \in 0..sl
      BY <1>9 DEF sl
    <3> QED BY <1>1, <1>2, <3>1, SMT
  <2>2. ~b => q.lost = p.lost
    <3>1. o.p.lost = p.lost /\ p.lost \in BOOLEAN
      <4>1. o.p.lost = p.lost
        BY DEF PutRight
      <4> QED BY <1>5, <4>1, Types DEF DeviceSound
    <3> QED BY <1>6, <3>1
  <2>3. b => q.lost
    BY <1>6
  <2>4. p.lost => q.lost
    BY <1>6 DEF PutRight
  <2>5. q.err = p.err /\ q.act = "write" /\ q.held = <<>>
    BY <1>6, <1>9 DEF PutRight
  <2>6. o.n = sl => q.file = Written(p, s) /\ q.off = At(p) + Len(s)
    <3>1. sl # -1
      BY <1>1, SMT
    <3> QED BY <1>6, <3>1 DEF PutRight, sl
  <2> QED BY <1>6, <1>7, <2>1, <2>2, <2>3, <2>4, <2>5, <2>6 DEF q, sl
<1> QED BY <1>8, <1>9 DEF PutRight

LEMMA PutPlace ==
  ASSUME NEW p, NEW s, s \in Seq(Cell), NEW o, PutRight(p, s, o), DeviceSound(p)
  PROVE  \E i \in 0..Len(s) : At(o.p) = At(p) + i
<1> DEFINE at == At(p)
           ao == At(o.p)
           sl == Len(s)
           n == o.n
<1>1. at \in Nat /\ sl \in Nat
  BY AtIs, LenIs
<1>2. (n \in 0..sl /\ ao = at + n) \/ ao = at
  BY DEF PutRight
<1> HIDE DEF at, ao, sl, n
<1>3. \E i \in 0..sl : ao = at + i
  <2>1. CASE n \in 0..sl /\ ao = at + n
    BY <2>1
  <2>2. CASE ao = at
    <3>1. 0 \in 0..sl /\ ao = at + 0
      BY <1>1, <2>2, SMT
    <3> QED BY <3>1
  <2> QED BY <1>2, <2>1, <2>2
<1> QED BY <1>3 DEF at, ao, sl

LEMMA CookieWriteIs ==
  ASSUME NEW p, NEW s, Fitting(p, s), p.dev = "cookie", NEW o \in CookieWrite(p, s)
  PROVE  Wrote(p, s, o)
<1> DEFINE q == Emptied(p)
           c == p.held
           Put == IF c = <<>> THEN {[p |-> q, n |-> 0]} ELSE CookiePut(q, c)
           sl == Len(s)
<1>1. /\ DeviceSound(p) /\ p.act = "write" /\ c \in Seq(Cell) /\ s \in Seq(Cell)
      /\ Len(c) \in Nat /\ sl \in Nat /\ At(p) \in Nat /\ MaxContent \in Nat
      /\ At(p) + Len(c) + sl <= MaxContent
  BY AllIs, AtIs, FileBufferAssumption DEF Fitting
<1>2. 0 \in 0..Len(s) /\ Len(s) \in 0..Len(s)
  <2> HIDE DEF sl
  <2>1. 0 \in 0..sl /\ sl \in 0..sl
    BY <1>1, SMT
  <2> QED BY <2>1 DEF sl
<1>3. /\ DeviceSound(q) /\ Same(p, q) /\ SameUnread(p, q) /\ At(q) = At(p)
      /\ q.held = <<>> /\ q.act = "write" /\ q.err = p.err /\ q.lost = p.lost
      /\ q.file = p.file
  BY <1>1, EmptiedIs
<1>4. q.dev = "cookie"
  BY <1>3 DEF Same
<1>5. CASE p.dumb
  <2> DEFINE b == TRUE
  <2>1. b \in BOOLEAN
    OBVIOUS
  <2>2. b
    OBVIOUS
  <2>3. o = [p |-> Lost(p, b), n |-> Len(s)]
    BY <1>5 DEF CookieWrite
  <2> HIDE DEF b
  <2>4. o.p = Lost(p, b) /\ o.n = Len(s)
    BY <2>3
  <2>5. /\ DeviceSound(o.p) /\ Same(p, o.p) /\ SameUnread(p, o.p)
        /\ o.p.held = p.held /\ o.p.act = p.act /\ o.p.err = p.err /\ o.p.lost = (p.lost \/ b)
        /\ o.p.file = p.file /\ o.p.off = p.off /\ At(o.p) = At(p)
    BY <1>1, <2>1, <2>4, LostIs
  <2>6. At(o.p) + Len(o.p.held) <= At(p) + Len(p.held) + Len(s)
    <3> DEFINE at == At(p)
               cl == Len(p.held)
    <3>1. at \in Nat /\ cl \in Nat
      BY <1>1
    <3> HIDE DEF at, cl, sl
    <3>2. at + cl <= at + cl + sl
      BY <1>1, <3>1, SMT
    <3>3. At(o.p) = at /\ Len(o.p.held) = cl
      BY <2>5 DEF at, cl
    <3> QED BY <3>2, <3>3 DEF at, cl, sl
  <2> QED BY <1>1, <1>2, <2>2, <2>4, <2>5, <2>6 DEF Wrote, Flagged, NotOut
<1>6. CASE ~p.dumb
  <2>1. PICK h \in Put :
          o \in IF h.n < Len(c) THEN {[p |-> Short(h, c), n |-> 0]}
                ELSE {[p |-> Short(r, s), n |-> Most(0, r.n)] : r \in CookiePut(h.p, s)}
    BY <1>6 DEF CookieWrite, Emptied
  <2> HIDE DEF q, c, sl
  <2>2. \/ c = <<>> /\ FirstOut(p, h.p) /\ h.n = Len(c)
        \/ c # <<>> /\ PutRight(q, c, h)
    <3>1. CASE c = <<>>
      <4>1. h.p = q /\ h.n = 0
        BY <2>1, <3>1
      <4>2. FirstOut(p, q)
        BY <1>1, <3>1, WithNothingHeld DEF q, c
      <4>3. Len(c) = 0
        BY <3>1, EmptySeq
      <4> QED BY <3>1, <4>1, <4>2, <4>3
    <3>2. CASE c # <<>>
      <4>1. h \in CookiePut(q, c)
        BY <2>1, <3>2
      <4>2. At(q) + Len(c) <= MaxContent
        <5> DEFINE a == At(p)
                   l == Len(c)
        <5>1. a \in Nat /\ l \in Nat /\ a + l + sl <= MaxContent /\ At(q) = a
          BY <1>1, <1>3
        <5> HIDE DEF a, l
        <5>2. a + l <= MaxContent
          BY <1>1, <5>1, SMT
        <5> QED BY <5>1, <5>2 DEF l
      <4> QED BY <1>1, <1>3, <1>4, <3>2, <4>1, <4>2, CookiePutIs
    <3> QED BY <3>1, <3>2
  <2>3. CASE h.n < Len(c)
    <3>1. o.p = Short(h, c) /\ o.n = 0
      BY <2>1, <2>3
    <3>2. PutRight(q, c, h) /\ ~(h.n = Len(c))
      <4>1. ~(h.n = Len(c))
        BY <1>1, <2>3, SMT
      <4> QED BY <2>2, <4>1
    <3>3. /\ DeviceSound(o.p) /\ Same(q, o.p) /\ SameUnread(q, o.p) /\ o.p.held = <<>>
          /\ (q.lost => o.p.lost) /\ (q.err => o.p.err) /\ o.p.act = h.p.act /\ At(o.p) = At(h.p)
          /\ \/ o.p.lost
             \/ o.p.err /\ o.p.act = "none"
      BY <1>1, <3>1, <3>2, ShortIs
    <3>4. Same(p, o.p) /\ SameUnread(p, o.p)
      BY <1>3, <3>3, SameTwice
    <3>5. h.p.act \in {"write", "none"}
      BY <3>2 DEF PutRight
    <3>6. At(o.p) + Len(o.p.held) <= At(p) + Len(p.held) + Len(s)
      <4>1. PICK i \in 0..Len(c) : At(o.p) = At(p) + i
        BY <1>1, <1>3, <3>2, <3>3, PutPlace
      <4>2. i \in 0..(Len(p.held) + Len(s))
        <5> DEFINE cl == Len(c)
        <5>1. i \in 0..cl /\ cl \in Nat
          BY <1>1
        <5> HIDE DEF cl
        <5>2. i \in 0..(cl + sl)
          BY <1>1, <5>1, SMT
        <5> QED BY <5>2 DEF cl, c, sl
      <4> QED BY <3>3, <4>1, <4>2, PlaceIs
    <3>7. s = <<>> \/ o.n < Len(s)
      <4>1. s = <<>> \/ sl # 0
        BY <1>1, EmptyIs DEF sl
      <4>2. s = <<>> \/ 0 < sl
        BY <1>1, <4>1, SMT
      <4> QED BY <3>1, <4>2 DEF sl
    <3> QED BY <1>2, <1>3, <3>1, <3>3, <3>4, <3>5, <3>6, <3>7 DEF Wrote, Flagged, NotOut
  <2>4. CASE ~(h.n < Len(c))
    <3> DEFINE hp == h.p
    <3>1. PICK r \in CookiePut(hp, s) : o = [p |-> Short(r, s), n |-> Most(0, r.n)]
      BY <2>1, <2>4
    <3>2. FirstOut(p, hp)
      <4>1. CASE c = <<>>
        BY <2>2, <4>1
      <4>2. CASE c # <<>>
        <5>1. PutRight(q, c, h)
          BY <2>2, <4>2
        <5>2. ~(h.n = -1) /\ (h.n \in 0..Len(c) => h.n = Len(c))
          BY <1>1, <2>4, SMT
        <5>3. /\ DeviceSound(hp) /\ Same(q, hp) /\ SameUnread(q, hp)
              /\ hp.held = <<>> /\ hp.lost = q.lost /\ hp.act = "write" /\ hp.err = q.err
              /\ hp.file = Written(q, c) /\ hp.off = At(q) + Len(c)
          BY <5>1, <5>2 DEF PutRight
        <5> HIDE DEF hp
        <5>4. Same(p, hp) /\ SameUnread(p, hp)
          BY <1>3, <5>3, SameTwice
        <5>5. Written(q, c) = Written(p, c)
          BY <1>3 DEF Written
        <5>6. At(hp) = hp.off
          <6>1. ~hp.app
            BY <1>4, <5>3 DEF Same, DeviceSound
          <6> QED BY <6>1 DEF At
        <5> QED BY <1>3, <4>2, <5>3, <5>4, <5>5, <5>6 DEF FirstOut, c
      <4> QED BY <4>1, <4>2
    <3> HIDE DEF hp
    <3>3. /\ DeviceSound(hp) /\ At(hp) + Len(s) <= MaxContent
          /\ Written(hp, s) = Written(p, p.held \o s)
          /\ At(hp) + Len(s) = At(p) + Len(p.held \o s)
      BY <3>2, FirstOutIs
    <3>4. /\ Same(p, hp) /\ SameUnread(p, hp) /\ hp.dev = "cookie"
          /\ hp.held = <<>> /\ hp.act = "write" /\ hp.err = p.err /\ hp.lost = p.lost
      BY <3>2 DEF FirstOut, Same
    <3>5. PutRight(hp, s, r)
      BY <1>1, <3>1, <3>3, <3>4, CookiePutIs
    <3>6. o.p = Short(r, s) /\ o.n = Most(0, r.n)
      BY <3>1
    <3>7. /\ DeviceSound(o.p) /\ Same(hp, o.p) /\ SameUnread(hp, o.p) /\ o.p.held = <<>>
          /\ (hp.lost => o.p.lost) /\ (hp.err => o.p.err) /\ o.p.act = r.p.act /\ At(o.p) = At(r.p)
          /\ \/ r.n = Len(s) /\ o.p.lost = hp.lost /\ o.p.err = hp.err /\ o.p.act = "write"
                /\ o.p.file = Written(hp, s) /\ o.p.off = At(hp) + Len(s)
             \/ o.p.lost
             \/ o.p.err /\ o.p.act = "none"
      BY <1>1, <3>5, <3>6, ShortIs
    <3>8. Same(p, o.p) /\ SameUnread(p, o.p)
      BY <3>4, <3>7, SameTwice
    <3>9. r.p.act \in {"write", "none"} /\ (r.n \in 0..Len(s) \/ r.n = -1)
      BY <3>5 DEF PutRight
    <3>10. o.n \in 0..Len(s) /\ (r.n = Len(s) => o.n = Len(s))
      <4> DEFINE m == Most(0, r.n)
      <4>1. m \in 0..sl /\ (r.n = sl => m = sl)
        <5>1. r.n \in 0..sl \/ r.n = -1
          BY <3>9 DEF sl
        <5> QED BY <1>1, <5>1, SMT DEF Most
      <4> HIDE DEF m
      <4>2. o.n = m
        BY <3>6 DEF m
      <4> QED BY <4>1, <4>2 DEF sl
    <3>11. AllOut(p, s, o) \/ NotOut(p, o)
      BY <3>3, <3>4, <3>7, <3>10 DEF AllOut, NotOut
    <3>12. At(o.p) + Len(o.p.held) <= At(p) + Len(p.held) + Len(s)
      <4>1. PICK i \in 0..Len(s) : At(o.p) = At(hp) + i
        BY <1>1, <3>3, <3>5, <3>7, PutPlace
      <4> DEFINE at == At(p)
                 cl == Len(c)
                 ah == At(hp)
                 k == cl + i
      <4>2. i \in 0..sl /\ at \in Nat /\ cl \in Nat /\ ah = at + cl
        BY <1>1, <3>2 DEF FirstOut, sl, c
      <4> HIDE DEF at, cl, ah
      <4>3. k \in 0..(cl + sl) /\ ah + i = at + k
        BY <1>1, <4>2, SMT
      <4> HIDE DEF k
      <4>4. k \in 0..(Len(p.held) + Len(s)) /\ At(o.p) = At(p) + k
        BY <4>1, <4>3 DEF cl, c, sl, ah, at
      <4> QED BY <3>7, <4>4, PlaceIs
    <3>13. o.p.act = "write" \/ s = <<>> \/ o.n < Len(s)
      <4>1. s = <<>> \/ sl # 0
        BY <1>1, EmptyIs DEF sl
      <4>2. CASE r.n = -1
        <5>1. o.n = 0
          BY <3>6, <4>2, SMT DEF Most
        <5>2. s = <<>> \/ 0 < sl
          BY <1>1, <4>1, SMT
        <5> QED BY <5>1, <5>2 DEF sl
      <4>3. CASE ~(r.n = -1)
        <5>1. r.p.act = "write"
          BY <3>5, <4>3 DEF PutRight
        <5> QED BY <3>7, <5>1
      <4> QED BY <4>2, <4>3
    <3> QED BY <3>4, <3>7, <3>8, <3>9, <3>10, <3>11, <3>12, <3>13 DEF Wrote, Flagged
  <2> QED BY <2>3, <2>4
<1> QED BY <1>5, <1>6

\* The write operation, whatever is behind the FILE.
LEMMA WriteOpIs ==
  ASSUME NEW p, NEW s, Fitting(p, s), NEW o \in WriteOp(p, s)
  PROVE  Wrote(p, s, o)
<1>1. p.dev \in Devices
  BY Types DEF Fitting, DeviceSound
<1>2. CASE p.dev = "fd"
  <2>1. WriteOp(p, s) = StdioWrite(p, s)
    BY <1>2 DEF WriteOp
  <2> QED BY <1>2, <2>1, StdioWriteIs
<1>3. CASE p.dev = "mem"
  <2>1. WriteOp(p, s) = MemWrite(p, s)
    BY <1>3 DEF WriteOp
  <2> QED BY <1>3, <2>1, MemWriteIs
<1>4. CASE p.dev = "grow"
  <2>1. WriteOp(p, s) = GrowWrite(p, s)
    BY <1>4 DEF WriteOp
  <2> QED BY <1>4, <2>1, GrowWriteIs
<1>5. CASE p.dev = "cookie"
  <2>1. WriteOp(p, s) = CookieWrite(p, s)
    BY <1>5 DEF WriteOp
  <2> QED BY <1>5, <2>1, CookieWriteIs
<1> QED BY <1>1, <1>2, <1>3, <1>4, <1>5 DEF Devices

-----------------------------------------------------------------------------
(* Reading from the device.                                                *)

\* s stands in c behind position at.
Piece(c, at, s) ==
  /\ s \in Seq(Cell) /\ at + Len(s) <= Len(c)
  /\ \A i \in 1..Len(s) : s[i] = c[at + i]

LEMMA PieceIs ==
  ASSUME NEW c \in Seq(Cell), NEW at \in Nat, NEW k \in Nat, at + k <= Len(c)
  PROVE  /\ Piece(c, at, SubSeq(c, at + 1, at + k)) /\ Len(SubSeq(c, at + 1, at + k)) = k
<1> DEFINE s == SubSeq(c, at + 1, at + k)
           m == at + 1
           n == at + k
<1>1. m \in Nat \ {0} /\ n \in Nat /\ n <= Len(c)
  BY SMT
<1>2. n - m + 1 = k /\ (m <= n \/ k = 0)
  BY SMT
<1>3. /\ s \in Seq(Cell) /\ Len(s) = IF m <= n THEN n - m + 1 ELSE 0
      /\ \A i \in 1..(n - m + 1) : s[i] = c[m + i - 1]
  <2>1. s = SubSeq(c, m, n)
    OBVIOUS
  <2> HIDE DEF m, n, s
  <2> QED BY <1>1, <2>1, SubSeqIs
<1> HIDE DEF s
<1>4. Len(s) = k
  BY <1>2, <1>3, SMT
<1>5. ASSUME NEW i \in 1..Len(s) PROVE s[i] = c[at + i]
  <2>1. i \in 1..(n - m + 1) /\ m + i - 1 = at + i
    BY <1>2, <1>4, SMT
  <2> HIDE DEF m, n
  <2> QED BY <1>3, <2>1
<1> QED BY <1>3, <1>4, <1>5 DEF Piece, s

LEMMA NoPiece ==
  ASSUME NEW c \in Seq(Cell), NEW at \in Nat, at <= Len(c)
  PROVE  Piece(c, at, <<>>) /\ Len(<<>>) = 0
BY EmptySeq, SMT DEF Piece

\* The first byte of a piece, and the others.
LEMMA PieceSplit ==
  ASSUME NEW c \in Seq(Cell), NEW at \in Nat, NEW d, Piece(c, at, d), Len(d) >= 1
  PROVE  /\ Piece(c, at, <<Head(d)>>) /\ Len(<<Head(d)>>) = 1 /\ Head(d) \in Cell
         /\ Piece(c, at + 1, Tail(d)) /\ Len(Tail(d)) = Len(d) - 1
<1> DEFINE t == Tail(d)
           x == Head(d)
           dl == Len(d)
           cl == Len(c)
<1>1. d \in Seq(Cell) /\ dl \in Nat /\ dl >= 1 /\ at + dl <= cl /\ cl \in Nat /\ d # <<>>
      /\ \A i \in 1..dl : d[i] = c[at + i]
  <2>1. d \in Seq(Cell) /\ at + dl <= cl /\ \A i \in 1..dl : d[i] = c[at + i]
    BY DEF Piece
  <2>2. dl \in Nat /\ cl \in Nat
    BY <2>1, LenIs
  <2>3. dl # 0
    BY <2>2, SMT
  <2> QED BY <2>1, <2>2, <2>3, EmptyIs
<1>2. x = d[1] /\ x \in Cell /\ t \in Seq(Cell) /\ Len(t) = dl - 1 /\ \A i \in 1..Len(t) : t[i] = d[i + 1]
  BY <1>1, HeadTailProperties
<1> HIDE DEF t, dl, cl
<1>3. Piece(c, at, <<x>>) /\ Len(<<x>>) = 1
  <2> DEFINE u == <<x>>
  <2>1. u \in Seq(Cell) /\ Len(u) = 1 /\ u[1] = x
    BY <1>2
  <2>2. 1 \in 1..dl /\ at + 1 <= cl
    BY <1>1, SMT
  <2> HIDE DEF u, x
  <2>3. \A i \in 1..Len(u) : u[i] = c[at + i]
    <3>1. \A i \in 1..Len(u) : i = 1
      BY <2>1, SMT
    <3> QED BY <1>1, <1>2, <2>1, <2>2, <3>1
  <2> QED BY <2>1, <2>2, <2>3 DEF Piece, u, cl
<1>4. Piece(c, at + 1, t)
  <2> DEFINE tl == Len(t)
             a == at + 1
  <2>1. a + tl <= cl
    BY <1>1, <1>2, SMT
  <2>2. \A i \in 1..tl : t[i] = c[a + i]
    <3> HIDE DEF x
    <3>1. ASSUME NEW i \in 1..tl PROVE t[i] = c[a + i]
      <4>1. i + 1 \in 1..dl /\ at + (i + 1) = a + i
        BY <1>1, <1>2, SMT
      <4>2. t[i] = d[i + 1]
        BY <1>2
      <4>3. d[i + 1] = c[at + (i + 1)]
        BY <1>1, <4>1
      <4> QED BY <4>1, <4>2, <4>3
    <3> QED BY <3>1
  <2> QED BY <1>2, <2>1, <2>2 DEF Piece, cl
<1> QED BY <1>2, <1>3, <1>4 DEF t, x, dl

\* Two pieces, one behind the other.
LEMMA PieceJoin ==
  ASSUME NEW c \in Seq(Cell), NEW at \in Nat, NEW a, NEW b, Piece(c, at, a), Piece(c, at + Len(a), b)
  PROVE  Piece(c, at, Join(a, b)) /\ Len(Join(a, b)) = Len(a) + Len(b)
<1> DEFINE s == Join(a, b)
           al == Len(a)
           bl == Len(b)
           cl == Len(c)
           mid == at + al
<1>1. a \in Seq(Cell) /\ b \in Seq(Cell) /\ al \in Nat /\ bl \in Nat /\ cl \in Nat
      /\ mid + bl <= cl
      /\ (\A i \in 1..al : a[i] = c[at + i]) /\ (\A i \in 1..bl : b[i] = c[mid + i])
  <2>1. a \in Seq(Cell) /\ b \in Seq(Cell) /\ mid + bl <= cl
        /\ (\A i \in 1..al : a[i] = c[at + i]) /\ (\A i \in 1..bl : b[i] = c[mid + i])
    BY DEF Piece
  <2> QED BY <2>1, LenIs
<1>2. s \in Seq(Cell) /\ Len(s) = al + bl
  BY <1>1, JoinIs
<1>3. (\A i \in 1..al : s[i] = a[i]) /\ (\A i \in 1..bl : s[al + i] = b[i])
  BY <1>1, JoinFront, JoinBack
<1> HIDE DEF s, al, bl, cl
<1>4. at + Len(s) <= cl
  BY <1>1, <1>2, SMT
<1>5. ASSUME NEW i \in 1..Len(s) PROVE s[i] = c[at + i]
  <2>1. CASE i <= al
    <3>1. i \in 1..al
      BY <1>1, <1>2, <2>1, SMT
    <3> HIDE DEF mid
    <3> QED BY <1>1, <1>3, <3>1
  <2>2. CASE al < i
    <3> DEFINE j == i - al
    <3>1. j \in 1..bl /\ al + j = i /\ mid + j = at + i
      BY <1>1, <1>2, <2>2, SMT
    <3> HIDE DEF j, mid
    <3>2. s[al + j] = b[j] /\ b[j] = c[mid + j]
      BY <1>1, <1>3, <3>1
    <3> QED BY <3>1, <3>2
  <2> QED BY <1>1, <1>2, <2>1, <2>2, SMT
<1> QED BY <1>2, <1>4, <1>5 DEF Piece, s, al, bl, cl

\* read(2) and the creator's function: at least one byte, at most n.
LEMMA KernelReadIs ==
  ASSUME NEW p, DeviceSound(p), NEW n \in Nat, NEW d \in KernelRead(p, n)
  PROVE  Piece(p.file, p.off, d) /\ Len(d) \in Nat /\ Len(d) >= 1 /\ Len(d) <= n
<1> DEFINE c == p.file
           at == p.off
           cl == Len(c)
<1>1. c \in Seq(Cell) /\ at \in Nat /\ cl \in Nat
  BY Types, LenIs DEF DeviceSound
<1>2. PICK k \in 1..Least(n, cl - at) : d = SubSeq(c, at + 1, at + k)
  BY DEF KernelRead
<1> HIDE DEF c, at, cl
<1>3. k \in Nat /\ k >= 1 /\ k <= n /\ at + k <= cl
  BY <1>1, <1>2, SMT DEF Least
<1>4. at + k <= Len(c)
  BY <1>3 DEF cl
<1>5. Piece(c, at, d) /\ Len(d) = k
  BY <1>1, <1>2, <1>3, <1>4, PieceIs
<1> QED BY <1>3, <1>5 DEF c, at

\* All that a read operation changes of the FILE.
Moved(p, f, r, u, e, x) ==
  [p EXCEPT !.off = f, !.rpos = r, !.unread = u, !.eof = e, !.err = x]

\* What no read operation changes.
SameFile(p, q) ==
  /\ Same(p, q) /\ q.file = p.file /\ q.held = p.held /\ q.act = p.act /\ q.lost = p.lost
  /\ q.pushed = p.pushed

LEMMA MovedIs ==
  ASSUME NEW p, DeviceSound(p), p.dev # "grow", NEW f \in Nat, f <= Len(p.file),
         NEW r \in Int, NEW u \in Seq(Cell), NEW e \in BOOLEAN, NEW x \in BOOLEAN
  PROVE  LET q == Moved(p, f, r, u, e, x)
         IN /\ DeviceSound(q) /\ SameFile(p, q)
            /\ q.off = f /\ q.rpos = r /\ q.unread = u /\ q.eof = e /\ q.err = x
            /\ q.faulty = p.faulty /\ q.dev = p.dev
<1> DEFINE q == Moved(p, f, r, u, e, x)
           fl == Len(p.file)
<1>1. p \in FileType /\ fl \in Nat /\ fl <= MaxContent /\ MaxContent \in Nat /\ f <= fl
  BY Types, LenIs, FileBufferAssumption DEF DeviceSound
<1>2. q = [p EXCEPT !.off = f, !.rpos = r, !.unread = u, !.eof = e, !.err = x]
  BY DEF Moved
<1> HIDE DEF q, fl
<1>3. q \in FileType
  BY <1>1, <1>2, ZenonT(60) DEF FileType
<1>4. /\ q.off = f /\ q.rpos = r /\ q.unread = u /\ q.eof = e /\ q.err = x
      /\ q.tail = p.tail /\ q.told = p.told /\ q.faulty = p.faulty
  BY <1>1, <1>2 DEF FileType
<1>5. SameFile(p, q)
  BY <1>1, <1>2 DEF FileType, SameFile, Same
<1>6. f <= MaxContent
  BY <1>1, SMT
<1>7. DeviceSound(q) /\ q.dev = p.dev
  BY <1>1, <1>3, <1>4, <1>5, <1>6 DEF DeviceSound, SameFile, Same, fl
<1> QED BY <1>4, <1>5, <1>7 DEF q

\* A stream __toread has made ready, with an empty buffer.
Ready(p) ==
  /\ DeviceSound(p) /\ p.rd /\ p.act = "read" /\ ~p.eof
  /\ p.unread = <<>> /\ p.held = <<>> /\ p.pushed = 0 /\ p.rpos = p.size

\* What a read of n bytes leaves behind: s for the caller, in the buffer what
\* follows it in the file; the end, or an error, where there is nothing.
ReadRight(p, n, o) ==
  /\ DeviceSound(o.p) /\ SameFile(p, o.p)
  /\ (p.err => o.p.err)
  /\ Piece(p.file, p.off, o.s) /\ Len(o.s) <= n
  /\ Piece(p.file, p.off + Len(o.s), o.p.unread)
  /\ o.p.off = p.off + Len(o.s) + Len(o.p.unread)
  /\ o.p.rpos >= 0 /\ o.p.rpos + Len(o.p.unread) <= p.size
  /\ o.p.eof => o.p.off = Len(p.file) /\ o.p.unread = <<>> /\ Len(o.s) < n
  /\ o.s = <<>> => o.p.unread = <<>> /\ (o.p.eof \/ o.p.err)

\* The ways that is met: s and u are the two pieces.
LEMMA ReadIs ==
  ASSUME NEW p, Ready(p), p.dev # "grow", NEW n \in Nat, n >= 1, NEW o, NEW s, NEW u, NEW f, NEW r \in Int,
         NEW e \in BOOLEAN, NEW x \in BOOLEAN,
         o.s = s, o.p = Moved(p, f, r, u, e, x),
         Piece(p.file, p.off, s), Len(s) <= n,
         Piece(p.file, p.off + Len(s), u), f = p.off + Len(s) + Len(u),
         r >= 0, r + Len(u) <= p.size,
         p.err => x,
         e => f >= Len(p.file) /\ u = <<>> /\ Len(s) < n,
         s = <<>> => u = <<>> /\ (e \/ x)
  PROVE  ReadRight(p, n, o)
<1> DEFINE at == p.off
           c == p.file
           cl == Len(c)
           sl == Len(s)
           ul == Len(u)
           mid == at + sl
<1>1. DeviceSound(p)
  BY DEF Ready
<1>2. at \in Nat /\ c \in Seq(Cell) /\ cl \in Nat
  BY <1>1, Types, LenIs DEF DeviceSound
<1>3. s \in Seq(Cell) /\ u \in Seq(Cell) /\ mid + ul <= cl
  BY DEF Piece
<1>4. sl \in Nat /\ ul \in Nat
  BY <1>3, LenIs
<1>5. f = at + sl + ul
  OBVIOUS
<1>6. e => f >= cl
  OBVIOUS
<1> HIDE DEF at, c, cl, sl, ul
<1>7. f \in Nat /\ f <= cl /\ (e => f = cl)
  BY <1>2, <1>3, <1>4, <1>5, <1>6, SMT
<1> DEFINE q == o.p
<1>8. /\ DeviceSound(q) /\ SameFile(p, q)
      /\ q.off = f /\ q.rpos = r /\ q.unread = u /\ q.eof = e /\ q.err = x
  BY <1>1, <1>3, <1>7, MovedIs, SMTT(30) DEF cl, c
<1> HIDE DEF q
<1>9. q.off = at + sl + ul
  BY <1>5, <1>8
<1>10. q.eof => q.off = cl /\ q.unread = <<>> /\ Len(o.s) < n
  BY <1>7, <1>8
<1>11. o.s = <<>> => q.unread = <<>> /\ (q.eof \/ q.err)
  BY <1>8
<1>12. q.rpos >= 0 /\ q.rpos + Len(q.unread) <= p.size
  BY <1>8
<1>13. /\ Piece(p.file, p.off, o.s) /\ Len(o.s) <= n /\ Piece(p.file, p.off + Len(o.s), q.unread)
  BY <1>8
<1>14. p.err => q.err
  BY <1>8
<1> QED BY <1>8, <1>9, <1>10, <1>11, <1>12, <1>13, <1>14 DEF ReadRight, q, at, sl, ul, c, cl

LEMMA ReadyIs ==
  ASSUME NEW p, Ready(p)
  PROVE  /\ DeviceSound(p) /\ p \in FileType /\ p.dev # "grow" /\ p.file \in Seq(Cell)
         /\ p.off \in Nat /\ Len(p.file) \in Nat /\ p.off <= Len(p.file) /\ p.size \in Nat
         /\ p.rpos = p.size /\ p.unread = <<>> /\ p.eof = FALSE /\ p.err \in BOOLEAN
<1>1. DeviceSound(p) /\ p.rd /\ ~p.eof /\ p.unread = <<>> /\ p.rpos = p.size
  BY DEF Ready
<1>2. p \in FileType /\ p.dev # "grow" /\ p.off <= Len(p.file)
  BY <1>1 DEF DeviceSound
<1>3. p.file \in Seq(Cell) /\ p.off \in Nat /\ p.size \in Nat /\ p.err \in BOOLEAN /\ p.eof \in BOOLEAN
  BY <1>2, Types
<1>4. p.eof = FALSE
  BY <1>1, <1>3
<1> QED BY <1>1, <1>2, <1>3, <1>4, LenIs

\* Nothing is read: the end, or an error.
LEMMA NothingRead ==
  ASSUME NEW p, Ready(p), NEW n \in Nat, n >= 1, NEW o, NEW r \in Int, NEW e \in BOOLEAN, NEW x \in BOOLEAN,
         o.s = <<>>, o.p = Moved(p, p.off, r, <<>>, e, x),
         r >= 0, r <= p.size, p.err => x, e => p.off >= Len(p.file), e \/ x
  PROVE  ReadRight(p, n, o)
<1> DEFINE s == <<>>
           at == p.off
           sl == Len(s)
<1>1. /\ p.dev # "grow" /\ p.file \in Seq(Cell) /\ at \in Nat /\ at <= Len(p.file) /\ p.size \in Nat
  BY ReadyIs
<1>2. Piece(p.file, at, s) /\ sl = 0
  BY <1>1, NoPiece
<1> HIDE DEF at, sl
<1>3. at + sl = at /\ at + sl + sl = at /\ r + sl = r /\ sl <= n /\ sl < n
  BY <1>1, <1>2, SMT
<1>4. Piece(p.file, at + sl, s)
  BY <1>2, <1>3
<1>5. o.p = Moved(p, at, r, s, e, x)
  BY DEF at
<1>6. at = p.off + Len(s) + Len(s)
  BY <1>3 DEF at, sl
<1>7. Piece(p.file, p.off, s) /\ Piece(p.file, p.off + Len(s), s)
  BY <1>2, <1>4 DEF at, sl
<1>8. Len(s) <= n /\ Len(s) < n /\ r + Len(s) <= p.size
  BY <1>3 DEF sl
<1>9. e => at >= Len(p.file)
  BY DEF at
<1>10. o.s = s /\ s = <<>>
  OBVIOUS
<1> HIDE DEF s
<1> QED BY <1>1, <1>5, <1>6, <1>7, <1>8, <1>9, <1>10, ReadIs

\* __stdio_read
LEMMA StdioReadIs ==
  ASSUME NEW p, Ready(p), NEW n \in Nat, n >= 1, NEW o \in StdioRead(p, n)
  PROVE  ReadRight(p, n, o)
<1> DEFINE at == p.off
           size == p.size
           fl == Len(p.file)
           direct == n > 1 \/ p.size = 0
           Got(d) == [p EXCEPT !.off = at + Len(d)]
<1>1. /\ DeviceSound(p) /\ p \in FileType /\ p.dev # "grow" /\ p.file \in Seq(Cell)
      /\ at \in Nat /\ fl \in Nat /\ at <= fl /\ size \in Nat
      /\ p.rpos = size /\ p.unread = <<>> /\ p.eof = FALSE /\ p.err \in BOOLEAN
  BY ReadyIs
<1>2. \/ \E d \in KernelRead(p, IF direct THEN n ELSE size) :
           o = IF direct THEN [p |-> Got(d), s |-> d]
               ELSE [p |-> [Got(d) EXCEPT !.rpos = 1, !.unread = Tail(d)], s |-> <<Head(d)>>]
      \/ at >= fl /\ o = [p |-> [p EXCEPT !.eof = TRUE], s |-> <<>>]
      \/ o = [p |-> [p EXCEPT !.err = TRUE], s |-> <<>>]
  BY DEF StdioRead
<1>3. size \in Int /\ size >= 0 /\ size <= size
  <2> HIDE DEF size
  <2> QED BY <1>1, SMT
<1>4. CASE at >= fl /\ o = [p |-> [p EXCEPT !.eof = TRUE], s |-> <<>>]
  <2> DEFINE e == TRUE
             x == p.err
  <2>1. o.p = [p EXCEPT !.eof = e] /\ o.s = <<>>
    BY <1>4
  <2>2. o.p = Moved(p, at, size, <<>>, e, x)
    BY <1>1, <2>1, ZenonT(60) DEF Moved, FileType
  <2>3. e \in BOOLEAN /\ x \in BOOLEAN /\ (e \/ x) /\ (p.err => x) /\ (e => p.off >= Len(p.file))
    BY <1>1, <1>4
  <2> HIDE DEF e, x
  <2> QED BY <1>3, <2>1, <2>2, <2>3, NothingRead
<1>5. CASE o = [p |-> [p EXCEPT !.err = TRUE], s |-> <<>>]
  <2> DEFINE e == FALSE
             x == TRUE
  <2>1. o.p = [p EXCEPT !.err = x] /\ o.s = <<>>
    BY <1>5
  <2>2. o.p = Moved(p, at, size, <<>>, e, x)
    BY <1>1, <2>1, ZenonT(60) DEF Moved, FileType
  <2>3. e \in BOOLEAN /\ x \in BOOLEAN /\ (e \/ x) /\ (p.err => x) /\ (e => p.off >= Len(p.file))
    OBVIOUS
  <2> HIDE DEF e, x
  <2> QED BY <1>3, <2>1, <2>2, <2>3, NothingRead
<1>6. CASE \E d \in KernelRead(p, IF direct THEN n ELSE size) :
             o = IF direct THEN [p |-> Got(d), s |-> d]
                 ELSE [p |-> [Got(d) EXCEPT !.rpos = 1, !.unread = Tail(d)], s |-> <<Head(d)>>]
  <2> DEFINE m == IF direct THEN n ELSE size
  <2>1. PICK d \in KernelRead(p, m) :
             o = IF direct THEN [p |-> Got(d), s |-> d]
                 ELSE [p |-> [Got(d) EXCEPT !.rpos = 1, !.unread = Tail(d)], s |-> <<Head(d)>>]
    BY <1>6
  <2>2. m \in Nat
    BY <1>1
  <2>3. Piece(p.file, at, d) /\ Len(d) \in Nat /\ Len(d) >= 1 /\ Len(d) <= m
    <3> HIDE DEF m
    <3> QED BY <1>1, <2>1, <2>2, KernelReadIs
  <2> DEFINE dl == Len(d)
             f == at + dl
  <2>4. f \in Nat /\ dl # 0 /\ d # <<>>
    <3>1. dl \in Nat /\ dl >= 1
      BY <2>3
    <3>2. d \in Seq(Cell)
      BY <2>3 DEF Piece
    <3> HIDE DEF dl, at
    <3>3. f \in Nat /\ dl # 0
      BY <1>1, <3>1, SMT
    <3> HIDE DEF f
    <3> QED BY <3>2, <3>3, EmptyIs DEF dl
  <2> DEFINE e == FALSE
             x == p.err
  <2>5. e \in BOOLEAN /\ x \in BOOLEAN /\ (p.err => x)
    BY <1>1
  <2>6. CASE direct
    <3> DEFINE u == <<>>
    <3>1. o.p = Got(d) /\ o.s = d
      BY <2>1, <2>6
    <3>2. o.p = Moved(p, f, size, u, e, x)
      BY <1>1, <3>1, ZenonT(60) DEF Moved, FileType
    <3>3. Piece(p.file, at + dl, u) /\ Len(u) = 0
      <4>1. f <= Len(p.file)
        BY <2>3 DEF Piece
      <4> QED BY <1>1, <2>4, <4>1, NoPiece
    <3>4. f = at + dl + Len(u) /\ size + Len(u) <= size
      <4> DEFINE ul == Len(u)
      <4>1. ul = 0
        BY <3>3
      <4> HIDE DEF ul, dl, at, size, f
      <4>2. at + dl + ul = at + dl /\ size + ul <= size
        <5>1. dl \in Nat
          BY <2>3 DEF dl
        <5> QED BY <1>1, <4>1, <5>1, SMT
      <4> QED BY <4>2 DEF ul, f
    <3>5. Len(d) <= n
      BY <2>3, <2>6
    <3>6. e => f >= Len(p.file) /\ u = <<>> /\ Len(d) < n
      OBVIOUS
    <3>7. d = <<>> => u = <<>> /\ (e \/ x)
      BY <2>4
    <3> HIDE DEF e, x, u, f
    <3> QED BY <1>1, <1>3, <2>3, <2>5, <3>1, <3>2, <3>3, <3>4, <3>5, <3>6, <3>7, ReadIs
  <2>7. CASE ~direct
    <3> DEFINE u == Tail(d)
               s == <<Head(d)>>
               ul == Len(u)
    <3>1. o.p = [Got(d) EXCEPT !.rpos = 1, !.unread = u] /\ o.s = s
      BY <2>1, <2>7
    <3>2. o.p = Moved(p, f, 1, u, e, x)
      BY <1>1, <3>1, ZenonT(60) DEF Moved, FileType
    <3>3. Piece(p.file, at, s) /\ Len(s) = 1 /\ Piece(p.file, at + 1, u) /\ ul = dl - 1
      BY <1>1, <2>3, PieceSplit
    <3>4. Len(d) <= size
      BY <2>3, <2>7
    <3>5. dl \in Nat /\ dl >= 1 /\ dl <= size
      BY <2>3, <3>4
    <3> HIDE DEF dl, ul, at, size, s, u
    <3>6. f = at + 1 + ul /\ 1 + ul <= size
      BY <1>1, <3>3, <3>5, SMT
    <3>7. Piece(p.file, at + Len(s), u) /\ f = at + Len(s) + Len(u) /\ 1 + Len(u) <= p.size /\ Len(s) <= n
      BY <3>3, <3>6 DEF ul, size
    <3>8. e => f >= Len(p.file) /\ u = <<>> /\ Len(s) < n
      OBVIOUS
    <3>9. s = <<>> => u = <<>> /\ (e \/ x)
      BY <3>3, EmptySeq
    <3>10. 1 \in Int /\ 1 >= 0
      BY SMT
    <3> HIDE DEF e, x, f
    <3> QED BY <1>1, <2>5, <3>1, <3>2, <3>3, <3>7, <3>8, <3>9, <3>10, ReadIs DEF at
  <2> QED BY <2>6, <2>7
<1> QED BY <1>2, <1>4, <1>5, <1>6

\* mem_read
LEMMA MemReadIs ==
  ASSUME NEW p, Ready(p), NEW n \in Nat, n >= 1, NEW o \in MemRead(p, n)
  PROVE  ReadRight(p, n, o)
<1> DEFINE c == p.file
           at == p.off
           size == p.size
           fl == Len(c)
           rem == Most(0, fl - at)
           k == Least(n, rem)
           ahead == Least(rem - k, size)
           mid == at + k
           f == at + k + ahead
           s == SubSeq(c, at + 1, at + k)
           u == SubSeq(c, mid + 1, mid + ahead)
           e == p.eof \/ n > rem
           x == p.err
<1>1. /\ DeviceSound(p) /\ p \in FileType /\ p.dev # "grow" /\ c \in Seq(Cell)
      /\ at \in Nat /\ fl \in Nat /\ at <= fl /\ size \in Nat
      /\ p.rpos = size /\ p.unread = <<>> /\ p.eof = FALSE /\ x \in BOOLEAN
  BY ReadyIs
<1>2. o = [p |-> [p EXCEPT !.eof = e, !.rpos = 0, !.off = f, !.unread = u], s |-> s]
  BY DEF MemRead
<1>3. e \in BOOLEAN /\ (e => n > rem)
  BY <1>1
<1> HIDE DEF c, at, size, fl
<1>4. /\ rem \in Nat /\ k \in Nat /\ ahead \in Nat /\ mid \in Nat /\ f \in Nat
      /\ f <= fl /\ k <= n /\ mid <= fl /\ f = mid + ahead
      /\ ahead <= size /\ (n > rem => k < n /\ ahead = 0 /\ f = fl)
      /\ (k = 0 => n > rem /\ ahead = 0)
  BY <1>1, SMT DEF Most, Least
<1>5. o.p = Moved(p, f, 0, u, e, x) /\ o.s = s
  <2> HIDE DEF f, u, e, s
  <2>1. o.p = [p EXCEPT !.eof = e, !.rpos = 0, !.off = f, !.unread = u] /\ o.s = s
    BY <1>2
  <2> QED BY <1>1, <2>1, ZenonT(60) DEF Moved, FileType
<1>6. Piece(c, at, s) /\ Len(s) = k
  <2>1. at + k <= Len(c)
    BY <1>4 DEF fl
  <2> HIDE DEF k
  <2> QED BY <1>1, <1>4, <2>1, PieceIs
<1>7. Piece(c, mid, u) /\ Len(u) = ahead
  <2>1. mid + ahead <= Len(c)
    BY <1>4 DEF fl
  <2> HIDE DEF mid, ahead
  <2> QED BY <1>1, <1>4, <2>1, PieceIs
<1>8. (e => n > rem) /\ (k = 0 => e)
  BY <1>3, <1>4
<1> HIDE DEF rem, k, ahead, f, s, u, e, x
<1>9. Piece(p.file, p.off, s) /\ Piece(p.file, p.off + Len(s), u)
  BY <1>6, <1>7 DEF c, at, mid
<1>10. f = p.off + Len(s) + Len(u)
  BY <1>4, <1>6, <1>7 DEF at, mid
<1>11. Len(s) <= n /\ 0 + Len(u) <= p.size
  <2>1. 0 + ahead <= size
    BY <1>1, <1>4, SMT
  <2> QED BY <1>4, <1>6, <1>7, <2>1 DEF size
<1>12. e => f >= Len(p.file) /\ u = <<>> /\ Len(s) < n
  <2>1. ASSUME e PROVE f >= fl /\ ahead = 0 /\ k < n
    BY <1>1, <1>4, <1>8, <2>1, SMT
  <2>2. ahead = 0 => u = <<>>
    BY <1>7, EmptyIs DEF Piece
  <2> QED BY <1>6, <2>1, <2>2 DEF fl, c
<1>13. s = <<>> => u = <<>> /\ (e \/ x)
  <2>1. s = <<>> => k = 0
    BY <1>6, EmptySeq
  <2>2. ahead = 0 => u = <<>>
    BY <1>7, EmptyIs DEF Piece
  <2> QED BY <1>4, <1>8, <2>1, <2>2
<1>14. 0 \in Int /\ 0 >= 0 /\ (p.err => x)
  BY SMT DEF x
<1> QED BY <1>1, <1>3, <1>5, <1>9, <1>10, <1>11, <1>12, <1>13, <1>14, ReadIs

\* cookieread, as far as it got: a of the bytes asked for is there already.
CookieBail(q, s) ==
  LET e == [q EXCEPT !.unread = <<>>, !.rpos = 0]
  IN (IF q.off >= Len(q.file) THEN {[p |-> [e EXCEPT !.eof = TRUE], s |-> s]} ELSE {})
     \cup (IF q.faulty THEN {[p |-> [e EXCEPT !.err = TRUE], s |-> s]} ELSE {})
CookieRefill(q, s) ==
  {[p |-> [[q EXCEPT !.off = @ + Len(d)] EXCEPT !.rpos = 1, !.unread = Tail(d)], s |-> Append(s, Head(d))]
   : d \in KernelRead(q, q.size)} \cup CookieBail(q, s)

\* a has been read of the n bytes.
PartRead(p, n, a, q) ==
  /\ Piece(p.file, p.off, a) /\ Len(a) < n
  /\ q = [p EXCEPT !.off = p.off + Len(a)]

LEMMA CookieBailIs ==
  ASSUME NEW p, Ready(p), NEW n \in Nat, n >= 1, NEW a, NEW q, PartRead(p, n, a, q),
         NEW o \in CookieBail(q, a)
  PROVE  ReadRight(p, n, o)
<1> DEFINE u == <<>>
           at == p.off
           fl == Len(p.file)
           al == Len(a)
           size == p.size
           f == at + al
<1>0. q = [p EXCEPT !.off = f] /\ Piece(p.file, p.off, a) /\ Len(a) < n
  BY DEF PartRead
<1>1. /\ DeviceSound(p) /\ p \in FileType /\ p.dev # "grow" /\ p.file \in Seq(Cell)
      /\ at \in Nat /\ fl \in Nat /\ at <= fl /\ size \in Nat
      /\ p.rpos = p.size /\ p.unread = <<>> /\ p.eof = FALSE /\ p.err \in BOOLEAN
  BY ReadyIs
<1>2. al \in Nat /\ at + al <= fl
  <2>1. a \in Seq(Cell) /\ at + al <= fl
    BY <1>0 DEF Piece
  <2> QED BY <2>1, LenIs
<1>2a. f = at + al /\ al < n
  BY <1>0
<1> HIDE DEF at, fl, al, size, f
<1>3. f \in Nat /\ f <= fl
  BY <1>1, <1>2, <1>2a, SMT
<1>4. q.off = f /\ q.file = p.file
  BY <1>0, <1>1, <1>3 DEF FileType
<1>5. \/ f >= fl /\ o = [p |-> [[q EXCEPT !.unread = u, !.rpos = 0] EXCEPT !.eof = TRUE], s |-> a]
      \/ o = [p |-> [[q EXCEPT !.unread = u, !.rpos = 0] EXCEPT !.err = TRUE], s |-> a]
  BY <1>4 DEF CookieBail, fl
<1>6. Piece(p.file, p.off + Len(a), u) /\ Len(u) = 0
  <2>1. f <= Len(p.file) /\ f = p.off + Len(a)
    BY <1>2a, <1>3 DEF fl, at, al
  <2>2. Piece(p.file, f, u) /\ Len(u) = 0
    BY <1>1, <1>3, <2>1, NoPiece
  <2> QED BY <2>1, <2>2
<1>7. f = p.off + Len(a) + Len(u) /\ 0 + Len(u) <= p.size /\ Len(a) <= n
  <2> DEFINE ul == Len(u)
  <2>1. ul = 0 /\ al < n
    BY <1>2a, <1>6
  <2> HIDE DEF ul
  <2>2. f = at + al + ul /\ 0 + ul <= size /\ al <= n
    BY <1>1, <1>2, <1>2a, <2>1, SMT
  <2> QED BY <2>2 DEF at, al, ul, size
<1>8. 0 \in Int /\ 0 >= 0
  BY SMT
<1>8a. p.dev # "grow" /\ Piece(p.file, p.off, a)
  BY <1>0, <1>1
<1>9. CASE f >= fl /\ o = [p |-> [[q EXCEPT !.unread = u, !.rpos = 0] EXCEPT !.eof = TRUE], s |-> a]
  <2> DEFINE e == TRUE
             x == p.err
  <2>1. o.p = [[q EXCEPT !.unread = u, !.rpos = 0] EXCEPT !.eof = e] /\ o.s = a
    BY <1>9
  <2>2. o.p = Moved(p, f, 0, u, e, x)
    <3> HIDE DEF e, u
    <3> QED BY <1>0, <1>1, <1>3, <2>1, ZenonT(60) DEF Moved, FileType
  <2>3. e \in BOOLEAN /\ x \in BOOLEAN /\ (p.err => x)
    BY <1>1
  <2>4. e => f >= Len(p.file) /\ u = <<>> /\ Len(a) < n
    BY <1>0, <1>9 DEF fl
  <2>5. a = <<>> => u = <<>> /\ (e \/ x)
    OBVIOUS
  <2> HIDE DEF e, x, u
  <2> QED BY <1>6, <1>7, <1>8, <1>8a, <2>1, <2>2, <2>3, <2>4, <2>5, ReadIs, ZenonT(60)
<1>10. CASE o = [p |-> [[q EXCEPT !.unread = u, !.rpos = 0] EXCEPT !.err = TRUE], s |-> a]
  <2> DEFINE e == FALSE
             x == TRUE
  <2>1. o.p = [[q EXCEPT !.unread = u, !.rpos = 0] EXCEPT !.err = x] /\ o.s = a
    BY <1>10
  <2>2. o.p = Moved(p, f, 0, u, e, x)
    <3>1. p.eof = e
      BY <1>1
    <3> HIDE DEF e, x, u
    <3> QED BY <1>0, <1>1, <1>3, <2>1, <3>1, ZenonT(60) DEF Moved, FileType
  <2>3. e \in BOOLEAN /\ x \in BOOLEAN /\ (p.err => x)
    OBVIOUS
  <2>4. e => f >= Len(p.file) /\ u = <<>> /\ Len(a) < n
    OBVIOUS
  <2>5. a = <<>> => u = <<>> /\ (e \/ x)
    OBVIOUS
  <2> HIDE DEF e, x, u
  <2> QED BY <1>6, <1>7, <1>8, <1>8a, <2>1, <2>2, <2>3, <2>4, <2>5, ReadIs, ZenonT(60)
<1> QED BY <1>5, <1>9, <1>10

LEMMA CookieRefillIs ==
  ASSUME NEW p, Ready(p), NEW n \in Nat, n >= 1, NEW a, NEW q, PartRead(p, n, a, q),
         NEW o \in CookieRefill(q, a)
  PROVE  ReadRight(p, n, o)
<1> DEFINE at == p.off
           fl == Len(p.file)
           al == Len(a)
           size == p.size
           f == at + al
<1>0. q = [p EXCEPT !.off = f] /\ Piece(p.file, p.off, a) /\ Len(a) < n
  BY DEF PartRead
<1>1. /\ DeviceSound(p) /\ p \in FileType /\ p.dev # "grow" /\ p.file \in Seq(Cell)
      /\ at \in Nat /\ fl \in Nat /\ at <= fl /\ size \in Nat
      /\ p.rpos = p.size /\ p.unread = <<>> /\ p.eof = FALSE /\ p.err \in BOOLEAN
  BY ReadyIs
<1>2. al \in Nat /\ at + al <= fl /\ a \in Seq(Cell)
  <2>1. a \in Seq(Cell) /\ at + al <= fl
    BY <1>0 DEF Piece
  <2> QED BY <2>1, LenIs
<1>2a. f = at + al /\ al < n
  BY <1>0
<1> HIDE DEF at, fl, al, size, f
<1>3. f \in Nat /\ f <= fl
  BY <1>1, <1>2, <1>2a, SMT
<1>4. q = Moved(p, f, p.rpos, p.unread, p.eof, p.err)
  BY <1>0, <1>1, <1>3 DEF Moved, FileType
<1>5. DeviceSound(q) /\ q.off = f /\ q.file = p.file /\ q.size = size
  <2>1. f <= Len(p.file)
    BY <1>3 DEF fl
  <2>2. p.rpos \in Int /\ p.unread \in Seq(Cell) /\ p.eof \in BOOLEAN /\ p.err \in BOOLEAN
    BY <1>1, Types
  <2>3. DeviceSound(q) /\ SameFile(p, q) /\ q.off = f
    <3> DEFINE y == Moved(p, f, p.rpos, p.unread, p.eof, p.err)
    <3>1. DeviceSound(y) /\ SameFile(p, y) /\ y.off = f
      <4>1. DeviceSound(p) /\ p.dev # "grow" /\ f \in Nat
        BY <1>1, <1>3
      <4> QED BY <2>1, <2>2, <4>1, MovedIs
    <3> HIDE DEF y
    <3>2. q = y
      BY <1>4 DEF y
    <3> QED BY <3>1, <3>2
  <2> QED BY <2>3 DEF SameFile, Same, size
<1>6. CASE o \in CookieBail(q, a)
  BY <1>6, CookieBailIs
<1>7. CASE \E d \in KernelRead(q, size) :
             o = [p |-> [[q EXCEPT !.off = f + Len(d)] EXCEPT !.rpos = 1, !.unread = Tail(d)], s |-> Append(a, Head(d))]
  <2>1. PICK d \in KernelRead(q, size) :
             o = [p |-> [[q EXCEPT !.off = f + Len(d)] EXCEPT !.rpos = 1, !.unread = Tail(d)], s |-> Append(a, Head(d))]
    BY <1>7
  <2>2. Piece(p.file, f, d) /\ Len(d) \in Nat /\ Len(d) >= 1 /\ Len(d) <= size
    BY <1>1, <1>5, <2>1, KernelReadIs
  <2> DEFINE b == <<Head(d)>>
             u == Tail(d)
             s == Join(a, b)
             dl == Len(d)
             ul == Len(u)
             g == f + dl
             e == FALSE
             x == p.err
  <2>3. Piece(p.file, f, b) /\ Len(b) = 1 /\ Head(d) \in Cell /\ Piece(p.file, f + 1, u) /\ ul = dl - 1
    BY <1>1, <1>3, <2>2, PieceSplit
  <2>4. s = Append(a, Head(d))
    BY <1>2, <2>3, AppendIsConcat DEF Join
  <2>5. Piece(p.file, p.off, s) /\ Len(s) = al + 1
    <3>1. Piece(p.file, p.off + Len(a), b) /\ p.off \in Nat
      BY <1>1, <1>2a, <2>3 DEF at, al
    <3> HIDE DEF b
    <3>2. Piece(p.file, p.off, Join(a, b)) /\ Len(Join(a, b)) = Len(a) + Len(b)
      BY <1>0, <1>1, <3>1, PieceJoin
    <3> QED BY <2>3, <3>2 DEF al
  <2>6. o.p = [[q EXCEPT !.off = g] EXCEPT !.rpos = 1, !.unread = u] /\ o.s = s
    BY <2>1, <2>4
  <2>7. dl \in Nat /\ dl >= 1 /\ dl <= size
    BY <2>2
  <2> HIDE DEF b, u, s, dl, ul
  <2>8. g \in Nat /\ g = at + (al + 1) + ul /\ 1 + ul <= size /\ f + 1 = at + (al + 1) /\ al + 1 <= n
    <3>1. ul = dl - 1
      BY <2>3
    <3> QED BY <1>1, <1>2, <1>2a, <1>3, <2>7, <3>1, SMT
  <2>9. o.p = Moved(p, g, 1, u, e, x)
    <3>1. p.eof = e
      BY <1>1
    <3> HIDE DEF e, g
    <3> QED BY <1>0, <1>1, <1>3, <2>6, <3>1, ZenonT(60) DEF Moved, FileType
  <2>10. e \in BOOLEAN /\ x \in BOOLEAN /\ (p.err => x)
    BY <1>1
  <2>11. Piece(p.file, p.off + Len(s), u) /\ g = p.off + Len(s) + Len(u) /\ 1 + Len(u) <= p.size /\ Len(s) <= n
    <3> HIDE DEF g
    <3> QED BY <2>3, <2>5, <2>8 DEF at, ul, size
  <2>12. e => g >= Len(p.file) /\ u = <<>> /\ Len(s) < n
    OBVIOUS
  <2>13. s = <<>> => u = <<>> /\ (e \/ x)
    <3>1. al + 1 # 0
      BY <1>2, SMT
    <3> QED BY <2>5, <3>1, EmptySeq
  <2>14. 1 \in Int /\ 1 >= 0
    BY SMT
  <2> HIDE DEF e, x, g
  <2> QED BY <1>1, <2>5, <2>6, <2>9, <2>10, <2>11, <2>12, <2>13, <2>14, ReadIs, ZenonT(60)
<1> QED BY <1>5, <1>6, <1>7 DEF CookieRefill

LEMMA NothingYet ==
  ASSUME NEW p, Ready(p), NEW n \in Nat, n >= 1
  PROVE  PartRead(p, n, <<>>, p)
<1> DEFINE at == p.off
           l == Len(<<>>)
           f == at + l
<1>1. p \in FileType /\ p.file \in Seq(Cell) /\ at \in Nat /\ at <= Len(p.file)
  BY ReadyIs
<1>2. Piece(p.file, at, <<>>) /\ l = 0
  BY <1>1, NoPiece
<1> HIDE DEF at, l
<1>3. f = at /\ l < n
  BY <1>1, <1>2, SMT
<1> HIDE DEF f
<1>4. p = [p EXCEPT !.off = f]
  BY <1>1, <1>3 DEF FileType, at
<1> QED BY <1>2, <1>3, <1>4 DEF PartRead, f, l, at

\* cookieread
LEMMA CookieReadIs ==
  ASSUME NEW p, Ready(p), NEW n \in Nat, n >= 1, NEW o \in CookieRead(p, n)
  PROVE  ReadRight(p, n, o)
<1> DEFINE at == p.off
           fl == Len(p.file)
           size == p.size
           lead == IF p.size = 0 THEN n ELSE n - 1
<1>1. /\ DeviceSound(p) /\ p \in FileType /\ p.dev # "grow" /\ p.file \in Seq(Cell)
      /\ at \in Nat /\ fl \in Nat /\ at <= fl /\ size \in Nat
      /\ p.rpos = p.size /\ p.unread = <<>> /\ p.eof = FALSE /\ p.err \in BOOLEAN
  BY ReadyIs
<1>2. \/ lead = 0 /\ o \in CookieRefill(p, <<>>)
      \/ lead # 0 /\ o \in CookieBail(p, <<>>)
      \/ lead # 0 /\ \E d \in KernelRead(p, lead) :
           \/ size = 0 /\ o = [p |-> [p EXCEPT !.off = at + Len(d)], s |-> d]
           \/ Len(d) < lead /\ o = [p |-> [p EXCEPT !.off = at + Len(d)], s |-> d]
           \/ size # 0 /\ o \in CookieRefill([p EXCEPT !.off = at + Len(d)], d)
  <2> DEFINE Step(d) == IF size = 0 \/ Len(d) < lead THEN {[p |-> [p EXCEPT !.off = at + Len(d)], s |-> d]}
                        ELSE CookieRefill([p EXCEPT !.off = at + Len(d)], d)
  <2>1. CookieRead(p, n) = IF lead = 0 THEN CookieRefill(p, <<>>)
                           ELSE CookieBail(p, <<>>) \cup UNION {Step(d) : d \in KernelRead(p, lead)}
    BY DEF CookieRead, CookieRefill, CookieBail
  <2> HIDE DEF lead, Step
  <2>2. \/ lead = 0 /\ o \in CookieRefill(p, <<>>)
        \/ lead # 0 /\ o \in CookieBail(p, <<>>)
        \/ lead # 0 /\ \E d \in KernelRead(p, lead) : o \in Step(d)
    <3> DEFINE A == CookieRefill(p, <<>>)
               B == CookieBail(p, <<>>)
               K == KernelRead(p, lead)
               U == UNION {Step(d) : d \in K}
    <3>1. o \in IF lead = 0 THEN A ELSE B \cup U
      BY <2>1
    <3>2. o \in U => \E d \in K : o \in Step(d)
      <4> HIDE DEF K
      <4> QED OBVIOUS
    <3> HIDE DEF A, B, K, U
    <3>3. \/ lead = 0 /\ o \in A
          \/ lead # 0 /\ o \in B
          \/ lead # 0 /\ \E d \in K : o \in Step(d)
      BY <3>1, <3>2
    <3> QED BY <3>3 DEF A, B, K
  <2>3. ASSUME NEW d, o \in Step(d)
        PROVE  \/ size = 0 /\ o = [p |-> [p EXCEPT !.off = at + Len(d)], s |-> d]
               \/ Len(d) < lead /\ o = [p |-> [p EXCEPT !.off = at + Len(d)], s |-> d]
               \/ size # 0 /\ o \in CookieRefill([p EXCEPT !.off = at + Len(d)], d)
    <3> DEFINE x == [p |-> [p EXCEPT !.off = at + Len(d)], s |-> d]
               R == CookieRefill([p EXCEPT !.off = at + Len(d)], d)
               b == size = 0
               c == Len(d) < lead
    <3>1. o \in IF b \/ c THEN {x} ELSE R
      BY <2>3 DEF Step
    <3>2. (b /\ o = x) \/ (c /\ o = x) \/ (~b /\ o \in R)
      <4> HIDE DEF x, R, b, c
      <4> QED BY <3>1
    <3> QED BY <3>2
  <2> QED BY <2>2, <2>3
<1>3. /\ lead \in Nat /\ lead <= n /\ (size # 0 => lead < n) /\ (size = 0 => lead = n)
  <2>1. (size = 0 => lead = n) /\ (size # 0 => lead = n - 1)
    OBVIOUS
  <2> HIDE DEF lead, size
  <2> QED BY <1>1, <2>1, SMT
<1> HIDE DEF at, fl, size, lead
<1>4. CASE o \in CookieRefill(p, <<>>)
  BY <1>4, NothingYet, CookieRefillIs
<1>5. CASE o \in CookieBail(p, <<>>)
  BY <1>5, NothingYet, CookieBailIs
<1>6. ASSUME NEW d \in KernelRead(p, lead)
      PROVE  Piece(p.file, p.off, d) /\ Len(d) \in Nat /\ Len(d) >= 1 /\ Len(d) <= n
  <2>1. Piece(p.file, p.off, d) /\ Len(d) \in Nat /\ Len(d) >= 1 /\ Len(d) <= lead
    BY <1>1, <1>3, KernelReadIs
  <2> DEFINE dl == Len(d)
  <2>2. dl \in Nat /\ dl >= 1 /\ dl <= lead
    BY <2>1
  <2> HIDE DEF dl
  <2>3. dl <= n
    BY <1>3, <2>2, SMT
  <2> QED BY <2>1, <2>3 DEF dl
<1>7. ASSUME NEW d \in KernelRead(p, lead), o = [p |-> [p EXCEPT !.off = at + Len(d)], s |-> d]
      PROVE  ReadRight(p, n, o)
  <2> DEFINE u == <<>>
             dl == Len(d)
             f == at + dl
             e == FALSE
             x == p.err
  <2>1. o.p = [p EXCEPT !.off = f] /\ o.s = d
    BY <1>7
  <2>2. Piece(p.file, p.off, d) /\ dl \in Nat /\ dl >= 1 /\ dl <= n
    BY <1>6, <1>7
  <2>3. f <= Len(p.file) /\ d \in Seq(Cell)
    BY <2>2 DEF Piece, at
  <2>4. f \in Nat /\ dl # 0
    <3> HIDE DEF dl
    <3> QED BY <1>1, <2>2, SMT
  <2>5. o.p = Moved(p, f, size, u, e, x)
    <3> HIDE DEF f
    <3> QED BY <1>1, <2>1, <2>4, ZenonT(60) DEF Moved, FileType, size
  <2>6. Piece(p.file, f, u) /\ Len(u) = 0
    BY <1>1, <2>3, <2>4, NoPiece
  <2>7. Piece(p.file, p.off + Len(d), u)
    BY <2>6 DEF at
  <2>8. f = p.off + Len(d) + Len(u) /\ size + Len(u) <= p.size
    <3> DEFINE ul == Len(u)
    <3>1. ul = 0
      BY <2>6
    <3> HIDE DEF ul, dl
    <3>2. f = at + dl + ul /\ size + ul <= size
      BY <1>1, <2>2, <3>1, SMT
    <3> QED BY <3>2 DEF at, dl, ul, size
  <2>9. d # <<>>
    BY <2>3, <2>4, EmptyIs
  <2>10. e \in BOOLEAN /\ x \in BOOLEAN /\ (p.err => x) /\ (d = <<>> => u = <<>> /\ (e \/ x))
         /\ (e => f >= Len(p.file) /\ u = <<>> /\ Len(d) < n)
    BY <1>1, <2>9
  <2>11. size \in Int /\ size >= 0 /\ p.dev # "grow"
    BY <1>1, SMT
  <2>12. Piece(p.file, p.off, d) /\ Len(d) <= n
    BY <2>2
  <2> HIDE DEF u, f, e, x, dl
  <2> QED BY <2>1, <2>5, <2>7, <2>8, <2>10, <2>11, <2>12, ReadIs
<1>8. ASSUME NEW d \in KernelRead(p, lead), size # 0, o \in CookieRefill([p EXCEPT !.off = at + Len(d)], d)
      PROVE  ReadRight(p, n, o)
  <2>1. Piece(p.file, p.off, d) /\ Len(d) \in Nat /\ Len(d) <= lead
    BY <1>1, <1>3, <1>8, KernelReadIs
  <2> DEFINE q == [p EXCEPT !.off = at + Len(d)]
             dl == Len(d)
  <2>2. dl < n
    <3>1. dl \in Nat /\ dl <= lead /\ lead < n
      BY <1>3, <1>8, <2>1
    <3> HIDE DEF dl
    <3> QED BY <1>3, <3>1, SMT
  <2>3. PartRead(p, n, d, q)
    BY <2>1, <2>2 DEF PartRead, at
  <2>4. o \in CookieRefill(q, d)
    BY <1>8
  <2> HIDE DEF q
  <2> QED BY <2>3, <2>4, CookieRefillIs
<1>9. CASE \E d \in KernelRead(p, lead) :
             \/ size = 0 /\ o = [p |-> [p EXCEPT !.off = at + Len(d)], s |-> d]
             \/ Len(d) < lead /\ o = [p |-> [p EXCEPT !.off = at + Len(d)], s |-> d]
             \/ size # 0 /\ o \in CookieRefill([p EXCEPT !.off = at + Len(d)], d)
  <2>1. PICK d \in KernelRead(p, lead) :
             \/ o = [p |-> [p EXCEPT !.off = at + Len(d)], s |-> d]
             \/ size # 0 /\ o \in CookieRefill([p EXCEPT !.off = at + Len(d)], d)
    BY <1>9
  <2> QED BY <1>7, <1>8, <2>1
<1> QED BY <1>2, <1>4, <1>5, <1>9

\* The read operation, whatever is behind the FILE.
LEMMA ReadOpIs ==
  ASSUME NEW p, Ready(p), NEW n \in Nat, n >= 1, NEW o \in ReadOp(p, n)
  PROVE  ReadRight(p, n, o)
<1>1. p.dev \in Devices /\ p.dev # "grow"
  <2>1. p \in FileType /\ p.dev # "grow"
    BY ReadyIs
  <2> QED BY <2>1, Types
<1>2. CASE p.dev = "fd"
  <2>1. ReadOp(p, n) = StdioRead(p, n)
    BY <1>2 DEF ReadOp
  <2> QED BY <2>1, StdioReadIs
<1>3. CASE p.dev = "mem"
  <2>1. ReadOp(p, n) = MemRead(p, n)
    BY <1>3 DEF ReadOp
  <2> QED BY <2>1, MemReadIs
<1>4. CASE p.dev = "cookie"
  <2>1. ReadOp(p, n) = CookieRead(p, n)
    BY <1>4 DEF ReadOp
  <2> QED BY <2>1, CookieReadIs
<1> QED BY <1>1, <1>2, <1>3, <1>4 DEF Devices

-----------------------------------------------------------------------------
(* The buffer.                                                             *)

LEMMA LeastElement ==
  ASSUME NEW T, T \subseteq Nat, T # {}
  PROVE  \E x \in T : \A y \in T : x <= y
<1>1. PICK x \in T : \A y \in T : ~(<<y, x>> \in OpToRel(<, Nat))
  BY NatLessThanWellFounded, WFMin
<1>2. \A y \in T : ~(y < x)
  BY <1>1 DEF OpToRel
<1> QED BY <1>2

LEMMA ToNLIs ==
  ASSUME NEW s \in Seq(Cell)
  PROVE  /\ ToNL(s) \in 0..Len(s)
         /\ ~HasNL(s) => ToNL(s) = Len(s)
         /\ HasNL(s) => /\ ToNL(s) >= 1 /\ s[ToNL(s)] = NL
                        /\ \A j \in 1..(ToNL(s) - 1) : s[j] # NL
<1>1. Len(s) \in Nat
  BY LenIs
<1>2. CASE HasNL(s)
  <2> DEFINE First(i) == s[i] = NL /\ \A j \in 1..(i - 1) : s[j] # NL
             T == {i \in 1..Len(s) : s[i] = NL}
  <2>1. T \subseteq Nat /\ T # {}
    BY <1>2 DEF HasNL
  <2>2. PICK x \in T : \A y \in T : x <= y
    BY <2>1, LeastElement
  <2>3. ASSUME NEW j \in 1..(x - 1)
        PROVE  s[j] # NL
    <3>1. j \in 1..Len(s) /\ j < x
      BY <1>1, <2>2, SMT
    <3>2. ~(x <= j)
      BY <2>1, <2>2, <3>1, SMT
    <3> QED BY <2>2, <3>1, <3>2
  <2>4. \E i \in 1..Len(s) : First(i)
    BY <2>2, <2>3
  <2> DEFINE n == CHOOSE i \in 1..Len(s) : First(i)
  <2>5. n \in 1..Len(s) /\ First(n)
    <3> HIDE DEF First
    <3> QED BY <2>4
  <2>6. ToNL(s) = n
    BY <1>2 DEF ToNL
  <2> HIDE DEF n
  <2>7. n \in 0..Len(s) /\ n >= 1
    BY <1>1, <2>5, SMT
  <2> QED BY <1>2, <2>5, <2>6, <2>7
<1>3. CASE ~HasNL(s)
  <2>1. ToNL(s) = Len(s)
    BY <1>3 DEF ToNL
  <2> QED BY <1>1, <1>3, <2>1, SMT
<1> QED BY <1>2, <1>3

LEMMA LastNLIs ==
  ASSUME NEW s \in Seq(Cell)
  PROVE  /\ LastNL(s) \in 0..Len(s)
         /\ ~HasNL(SubSeq(s, LastNL(s) + 1, Len(s)))
<1>1. Len(s) \in Nat
  BY LenIs
<1>2. ASSUME NEW n \in 0..Len(s), \A j \in (n + 1)..Len(s) : s[j] # NL
      PROVE  ~HasNL(SubSeq(s, n + 1, Len(s)))
  <2> DEFINE l == Len(s)
             t == SubSeq(s, n + 1, l)
             tl == Len(t)
  <2>1. n + 1 \in Nat \ {0} /\ l \in Nat /\ l <= l
    BY <1>1, SMT
  <2>2. /\ tl = IF n + 1 <= l THEN l - (n + 1) + 1 ELSE 0
        /\ \A i \in 1..(l - (n + 1) + 1) : t[i] = s[n + 1 + i - 1]
    BY <2>1, SubSeqIs
  <2> SUFFICES ASSUME NEW i \in 1..tl
               PROVE  t[i] # NL
    BY DEF HasNL
  <2> HIDE DEF t, tl, l
  <2>3. i \in 1..(l - (n + 1) + 1) /\ n + 1 + i - 1 = n + i /\ n + i \in (n + 1)..l
    BY <2>1, <2>2, SMT
  <2> QED BY <1>2, <2>2, <2>3 DEF l
<1>3. CASE \E i \in 1..Len(s) : s[i] = NL
  <2> DEFINE Final(i) == s[i] = NL /\ \A j \in (i + 1)..Len(s) : s[j] # NL
             T == {k \in 0..Len(s) : Len(s) - k \in 1..Len(s) /\ s[Len(s) - k] = NL}
  <2>1. T \subseteq Nat /\ T # {}
    <3>1. PICK i \in 1..Len(s) : s[i] = NL
      BY <1>3
    <3> DEFINE k == Len(s) - i
    <3>2. k \in 0..Len(s) /\ Len(s) - k = i
      BY <1>1, SMT
    <3>3. k \in T
      BY <3>1, <3>2
    <3>4. T \subseteq 0..Len(s) /\ 0..Len(s) \subseteq Nat
      BY <1>1, SMT
    <3> QED BY <3>3, <3>4
  <2>2. PICK k \in T : \A y \in T : k <= y
    BY <2>1, LeastElement
  <2> DEFINE i == Len(s) - k
  <2>3. ASSUME NEW j \in (i + 1)..Len(s)
        PROVE  s[j] # NL
    <3> DEFINE y == Len(s) - j
    <3>1. y \in 0..Len(s) /\ Len(s) - y = j /\ j \in 1..Len(s) /\ ~(k <= y)
      BY <1>1, <2>2, SMT
    <3> HIDE DEF y
    <3> QED BY <2>2, <3>1
  <2>4. i \in 1..Len(s) /\ Final(i)
    BY <2>2, <2>3
  <2> HIDE DEF i
  <2>5. \E m \in 1..Len(s) : Final(m)
    <3> HIDE DEF Final
    <3> QED BY <2>4
  <2> DEFINE n == CHOOSE m \in 1..Len(s) : Final(m)
  <2>6. n \in 1..Len(s) /\ Final(n)
    <3> HIDE DEF Final
    <3> QED BY <2>5
  <2>7. LastNL(s) = n
    BY <1>3 DEF LastNL
  <2> HIDE DEF n
  <2>8. n \in 0..Len(s)
    BY <1>1, <2>6, SMT
  <2> QED BY <1>2, <2>6, <2>7, <2>8
<1>4. CASE ~\E i \in 1..Len(s) : s[i] = NL
  <2>1. LastNL(s) = 0
    BY <1>4 DEF LastNL
  <2>2. 0 \in 0..Len(s) /\ \A j \in (0 + 1)..Len(s) : s[j] # NL
    BY <1>1, <1>4, SMT
  <2> QED BY <1>2, <2>1, <2>2
<1> QED BY <1>3, <1>4

\* What the buffer of p may hold: a way of use, the place of rpos, the unread
\* bytes, how many of them were pushed back, and the unwritten bytes.
InBuffer(p, a, r, u, g, h) ==
  /\ a # "read" => u = <<>>
  /\ a # "write" => h = <<>>
  /\ a = "read" => r >= -UNGET /\ r + Len(u) <= p.size
  /\ Len(h) <= p.size
  /\ p.lbf => ~HasNL(h)
  /\ g <= Len(u)
  /\ At(p) + Len(h) <= MaxContent

\* The inductive invariant of a FILE.
BufRight(p) == DeviceSound(p) /\ InBuffer(p, p.act, p.rpos, p.unread, p.pushed, p.held)

\* A step that leaves the device alone.
Turned(p, a, r, u, g, h, e, x) ==
  [p EXCEPT !.act = a, !.rpos = r, !.unread = u, !.pushed = g, !.held = h, !.eof = e, !.err = x]

TurnedTo(p, q, a, r, u, g, h, e, x) ==
  /\ DeviceSound(q) /\ Same(p, q) /\ q.lbf = p.lbf
  /\ q.file = p.file /\ q.off = p.off /\ At(q) = At(p) /\ q.lost = p.lost
  /\ q.act = a /\ q.rpos = r /\ q.unread = u /\ q.pushed = g /\ q.held = h
  /\ q.eof = e /\ q.err = x

LEMMA TurnedIs ==
  ASSUME NEW p, DeviceSound(p), NEW a \in Acts, NEW r \in Int, NEW u \in Seq(Cell), NEW g \in Nat,
         NEW h \in Seq(Cell), NEW e \in BOOLEAN, NEW x \in BOOLEAN,
         NEW q, q = Turned(p, a, r, u, g, h, e, x)
  PROVE  TurnedTo(p, q, a, r, u, g, h, e, x)
<1>1. p \in FileType
  BY DEF DeviceSound
<1>2. q \in FileType
  BY <1>1, ZenonT(60) DEF Turned, FileType
<1>3. /\ q.rd = p.rd /\ q.wr = p.wr /\ q.app = p.app /\ q.dev = p.dev /\ q.cap = p.cap
      /\ q.size = p.size /\ q.lbf = p.lbf /\ q.file = p.file /\ q.tail = p.tail /\ q.off = p.off
      /\ q.told = p.told /\ q.lost = p.lost
  BY <1>1 DEF Turned, FileType
<1>4. /\ q.act = a /\ q.rpos = r /\ q.unread = u /\ q.pushed = g /\ q.held = h
      /\ q.eof = e /\ q.err = x
  BY <1>1 DEF Turned, FileType
<1>5. Same(p, q) /\ At(q) = At(p)
  BY <1>3 DEF Same, At
<1>6. DeviceSound(q)
  BY <1>2, <1>3 DEF DeviceSound
<1> QED BY <1>3, <1>4, <1>5, <1>6 DEF TurnedTo

LEMMA TurnedRight ==
  ASSUME NEW p, NEW q, NEW a, NEW r, NEW u, NEW g, NEW h, NEW e, NEW x,
         TurnedTo(p, q, a, r, u, g, h, e, x), InBuffer(p, a, r, u, g, h)
  PROVE  BufRight(q)
<1>1. /\ DeviceSound(q) /\ q.size = p.size /\ q.lbf = p.lbf /\ At(q) = At(p)
      /\ q.act = a /\ q.rpos = r /\ q.unread = u /\ q.pushed = g /\ q.held = h
  BY DEF TurnedTo, Same
<1> QED BY <1>1 DEF BufRight, InBuffer

\* A buffer with nothing in it.
LEMMA NothingIn ==
  ASSUME NEW p, DeviceSound(p), NEW a \in Acts, NEW r, a = "read" => r \in Int /\ r >= 0 /\ r <= p.size
  PROVE  InBuffer(p, a, r, <<>>, 0, <<>>)
<1>1. Len(<<>>) = 0 /\ ~HasNL(<<>>)
  <2>1. Len(<<>>) = 0
    BY EmptySeq
  <2> QED BY <2>1, SMT DEF HasNL
<1>2. At(p) \in Nat /\ At(p) <= MaxContent /\ p.size \in Nat /\ UNGET \in Nat
  <2>1. p \in FileType
    BY DEF DeviceSound
  <2> QED BY <2>1, AtIs, Types, FileBufferAssumption
<1> DEFINE z == p.size
           at == At(p)
           l == Len(<<>>)
<1>3. l = 0 /\ at \in Nat /\ at <= MaxContent /\ z \in Nat /\ (a = "read" => r \in Int /\ r >= 0 /\ r <= z)
  BY <1>1, <1>2
<1> HIDE DEF z, at, l
<1>4. /\ a = "read" => r >= -UNGET /\ r + l <= z
      /\ l <= z /\ 0 <= l /\ at + l <= MaxContent
  BY <1>2, <1>3, SMT
<1> QED BY <1>1, <1>4 DEF InBuffer, z, at, l

LEMMA RightIs ==
  ASSUME NEW p, BufRight(p)
  PROVE  /\ DeviceSound(p) /\ p \in FileType /\ p.held \in Seq(Cell) /\ p.unread \in Seq(Cell)
         /\ p.act \in Acts /\ p.rpos \in Int /\ p.pushed \in Nat /\ p.size \in Nat
         /\ p.eof \in BOOLEAN /\ p.err \in BOOLEAN
         /\ Len(p.unread) \in Nat /\ Len(p.held) \in Nat /\ At(p) \in Nat
         /\ p.act # "read" => p.unread = <<>>
         /\ p.act # "write" => p.held = <<>>
         /\ p.pushed <= Len(p.unread) /\ At(p) + Len(p.held) <= MaxContent
<1>1. DeviceSound(p) /\ p \in FileType
  BY DEF BufRight, DeviceSound
<1>2. p.held \in Seq(Cell) /\ p.unread \in Seq(Cell) /\ p.act \in Acts /\ p.rpos \in Int /\ p.pushed \in Nat
      /\ p.size \in Nat /\ p.eof \in BOOLEAN /\ p.err \in BOOLEAN
  BY <1>1, Types
<1>3. Len(p.unread) \in Nat /\ Len(p.held) \in Nat /\ At(p) \in Nat
  BY <1>1, <1>2, LenIs, AtIs
<1> QED BY <1>1, <1>2, <1>3 DEF BufRight, InBuffer

\* The stream stops writing: what it has not written is forgotten.
LEMMA NotWritingIs ==
  ASSUME NEW p, BufRight(p)
  PROVE  LET q == NotWriting(p)
         IN /\ BufRight(q) /\ Same(p, q) /\ q.held = <<>> /\ q.act # "write"
            /\ q.file = p.file /\ q.off = p.off /\ q.unread = p.unread /\ q.pushed = p.pushed
            /\ q.rpos = p.rpos /\ q.eof = p.eof /\ q.err = p.err /\ q.lost = p.lost
            /\ q.act = IF p.act = "write" THEN "none" ELSE p.act
<1> DEFINE a == IF p.act = "write" THEN "none" ELSE p.act
           q == NotWriting(p)
<1>1. /\ DeviceSound(p) /\ p \in FileType /\ p.unread \in Seq(Cell) /\ p.act \in Acts /\ p.rpos \in Int
      /\ p.pushed \in Nat /\ p.eof \in BOOLEAN /\ p.err \in BOOLEAN /\ p.size \in Nat
      /\ p.act # "read" => p.unread = <<>>
  BY RightIs
<1>2. a \in Acts /\ a # "write" /\ (a = "read" <=> p.act = "read") /\ <<>> \in Seq(Cell)
  BY <1>1, Values DEF Acts
<1>3. q = Turned(p, a, p.rpos, p.unread, p.pushed, <<>>, p.eof, p.err)
  BY <1>1 DEF NotWriting, Turned, FileType
<1>4. InBuffer(p, a, p.rpos, p.unread, p.pushed, <<>>)
  <2>1. InBuffer(p, "none", 0, <<>>, 0, <<>>)
    BY <1>1, Values, NothingIn
  <2>2. InBuffer(p, p.act, p.rpos, p.unread, p.pushed, p.held)
    BY DEF BufRight
  <2> HIDE DEF a
  <2> QED BY <1>1, <1>2, <2>1, <2>2 DEF InBuffer
<1> HIDE DEF a, q
<1>5. TurnedTo(p, q, a, p.rpos, p.unread, p.pushed, <<>>, p.eof, p.err)
  <2>1. DeviceSound(p) /\ p.unread \in Seq(Cell) /\ p.rpos \in Int
        /\ p.pushed \in Nat /\ p.eof \in BOOLEAN /\ p.err \in BOOLEAN
    BY <1>1
  <2>2. a \in Acts /\ <<>> \in Seq(Cell)
    BY <1>2
  <2> QED BY <1>3, <2>1, <2>2, TurnedIs
<1>6. BufRight(q)
  BY <1>4, <1>5, TurnedRight
<1> QED BY <1>2, <1>5, <1>6 DEF q, a, TurnedTo

\* A transfer leaves the buffer in order.
LEMMA WroteRight ==
  ASSUME NEW p, BufRight(p), NEW s, Fitting(p, s), NEW o, Wrote(p, s, o)
  PROVE  BufRight(o.p)
<1> DEFINE q == o.p
<1>1. /\ p.held \in Seq(Cell) /\ p.unread \in Seq(Cell) /\ p.size \in Nat /\ p.pushed \in Nat
      /\ Len(p.unread) \in Nat /\ p.pushed <= Len(p.unread)
      /\ p.unread = <<>> /\ p.act = "write"
  <2>1. p.act = "write"
    BY DEF Fitting
  <2> QED BY <2>1, RightIs
<1>2. /\ DeviceSound(q) /\ Same(p, q) /\ q.unread = p.unread /\ q.pushed = p.pushed
      /\ q.act \in {"write", "none"}
      /\ q.held = <<>> \/ (q.held = p.held /\ q.act = p.act)
      /\ At(q) + Len(q.held) <= At(p) + Len(p.held) + Len(s)
  BY DEF Wrote, SameUnread
<1>3. At(q) + Len(q.held) <= MaxContent
  <2> DEFINE at == At(p)
             ph == Len(p.held)
             sl == Len(s)
             qa == At(q)
             qh == Len(q.held)
  <2>1. at \in Nat /\ ph \in Nat /\ sl \in Nat /\ at + ph + sl <= MaxContent /\ qa + qh <= at + ph + sl
    <3>1. s \in Seq(Cell)
      BY DEF Fitting
    <3> QED BY <1>1, <1>2, <3>1, RightIs, LenIs DEF Fitting
  <2>2. qa \in Nat /\ qh \in Nat /\ MaxContent \in Nat
    <3>1. q \in FileType
      BY <1>2 DEF DeviceSound
    <3>2. q.held \in Seq(Cell)
      BY <3>1, Types
    <3> QED BY <1>2, <3>2, AtIs, LenIs, FileBufferAssumption
  <2> HIDE DEF at, ph, sl, qa, qh
  <2>3. qa + qh <= MaxContent
    BY <2>1, <2>2, SMT
  <2> QED BY <2>3 DEF qa, qh
<1>4. Len(<<>>) = 0 /\ ~HasNL(<<>>)
  <2>1. Len(<<>>) = 0
    BY EmptySeq
  <2> QED BY <2>1, SMT DEF HasNL
<1>5. Len(q.held) <= q.size /\ (q.lbf => ~HasNL(q.held))
  <2>1. q.size = p.size /\ (q.lbf => p.lbf)
    BY <1>2 DEF Same
  <2>2. CASE q.held = <<>>
    <3> DEFINE l == Len(q.held)
               z == q.size
    <3>1. l = 0 /\ z \in Nat
      BY <1>1, <1>4, <2>1, <2>2
    <3> HIDE DEF l, z
    <3>2. l <= z
      BY <3>1, SMT
    <3> QED BY <1>4, <2>2, <3>2 DEF l, z
  <2>3. CASE q.held = p.held
    BY <2>1, <2>3 DEF BufRight, InBuffer
  <2> QED BY <1>2, <2>2, <2>3
<1> HIDE DEF q
<1>6. q.act # "read" /\ (q.act # "write" => q.held = <<>>) /\ q.unread = <<>> /\ q.pushed <= Len(q.unread)
  BY <1>1, <1>2
<1>7. InBuffer(q, q.act, q.rpos, q.unread, q.pushed, q.held)
  BY <1>3, <1>5, <1>6 DEF InBuffer
<1> QED BY <1>2, <1>7 DEF BufRight, q

\* A flush writes what is unwritten, if there is something.
LEMMA FlushedIs ==
  ASSUME NEW p, BufRight(p), NEW q \in Flushed(p)
  PROVE  /\ BufRight(q) /\ Same(p, q) /\ SameUnread(p, q) /\ Flagged(p, q)
         /\ p.held = <<>> => q = p
         /\ p.held # <<>> => /\ p.act = "write" /\ Fitting(p, <<>>)
                             /\ \E o \in WriteOp(p, <<>>) : q = o.p /\ Wrote(p, <<>>, o)
<1>1. CASE p.held = <<>>
  <2>1. q = p
    BY <1>1 DEF Flushed
  <2> QED BY <1>1, <2>1 DEF Same, SameUnread, Flagged
<1>2. CASE p.held # <<>>
  <2>1. PICK o \in WriteOp(p, <<>>) : q = o.p
    BY <1>2 DEF Flushed
  <2>2. DeviceSound(p) /\ p.act = "write" /\ Len(p.held) \in Nat /\ At(p) \in Nat /\ At(p) + Len(p.held) <= MaxContent
    BY <1>2, RightIs
  <2>3. <<>> \in Seq(Cell) /\ Len(<<>>) = 0
    BY EmptySeq
  <2>4. At(p) + Len(p.held) + Len(<<>>) <= MaxContent
    <3> DEFINE at == At(p)
               ph == Len(p.held)
               z == Len(<<>>)
    <3>1. at \in Nat /\ ph \in Nat /\ at + ph <= MaxContent /\ z = 0
      BY <2>2, <2>3
    <3> HIDE DEF at, ph, z
    <3>2. at + ph + z <= MaxContent
      BY <3>1, SMT
    <3> QED BY <3>2 DEF at, ph, z
  <2>5. Fitting(p, <<>>)
    BY <2>2, <2>3, <2>4 DEF Fitting
  <2>6. Wrote(p, <<>>, o)
    BY <2>5, WriteOpIs
  <2>7. BufRight(q)
    BY <2>1, <2>5, <2>6, WroteRight
  <2>8. Same(p, q) /\ SameUnread(p, q) /\ Flagged(p, q)
    BY <2>1, <2>6 DEF Wrote
  <2> QED BY <1>2, <2>1, <2>2, <2>5, <2>6, <2>7, <2>8
<1> QED BY <1>1, <1>2

\* __toread: the stream reads from an empty buffer, or may not read.
LEMMA ToReadIs ==
  ASSUME NEW p, BufRight(p), NEW r \in ToRead(p)
  PROVE  /\ BufRight(r) /\ Same(p, r) /\ Flagged(p, r) /\ r.held = <<>>
         /\ r.rd => r.act = "read" /\ r.unread = <<>> /\ r.pushed = 0 /\ r.rpos = r.size
         /\ r.rd /\ ~r.eof => Ready(r)
         /\ ~r.rd => r.act # "write" /\ r.err
<1> DEFINE New(q) == IF q.rd THEN [q EXCEPT !.act = "read", !.rpos = q.size, !.unread = <<>>, !.pushed = 0]
                     ELSE [q EXCEPT !.err = TRUE]
<1>1. PICK o \in Flushed(p) : r = New(NotWriting(o))
  BY DEF ToRead
<1> DEFINE q == NotWriting(o)
<1>2. BufRight(o) /\ Same(p, o) /\ Flagged(p, o)
  BY FlushedIs
<1>3. /\ BufRight(q) /\ Same(o, q) /\ q.held = <<>> /\ q.act # "write" /\ q.err = o.err /\ q.lost = o.lost
  BY <1>2, NotWritingIs
<1>4. r = New(q)
  BY <1>1
<1> HIDE DEF q
<1>5. /\ DeviceSound(q) /\ q \in FileType /\ q.unread \in Seq(Cell) /\ q.act \in Acts /\ q.rpos \in Int
      /\ q.pushed \in Nat /\ q.size \in Nat /\ q.eof \in BOOLEAN /\ q.err \in BOOLEAN
  BY <1>3, RightIs
<1>6. Same(p, q) /\ Flagged(p, q)
  BY <1>2, <1>3 DEF Same, Flagged
<1>7. <<>> \in Seq(Cell) /\ "read" \in Acts /\ 0 \in Nat /\ TRUE \in BOOLEAN
  BY Values
<1>8. CASE q.rd
  <2> DEFINE z == q.size
             a == "read"
  <2>1. r = [q EXCEPT !.act = a, !.rpos = z, !.unread = <<>>, !.pushed = 0]
    BY <1>4, <1>8
  <2>2. z \in Int /\ z >= 0 /\ z <= q.size /\ a \in Acts
    BY <1>5, <1>7, SMT
  <2>3. InBuffer(q, a, z, <<>>, 0, <<>>)
    BY <1>5, <2>2, NothingIn
  <2>4. r = Turned(q, a, z, <<>>, 0, <<>>, q.eof, q.err)
    BY <1>3, <1>5, <2>1 DEF Turned, FileType
  <2>5. TurnedTo(q, r, a, z, <<>>, 0, <<>>, q.eof, q.err)
    <3>1. DeviceSound(q) /\ q.eof \in BOOLEAN /\ q.err \in BOOLEAN
      BY <1>5
    <3> HIDE DEF a, z
    <3> QED BY <1>7, <2>2, <2>4, <3>1, TurnedIs
  <2>6. BufRight(r)
    BY <2>3, <2>5, TurnedRight
  <2>7. /\ DeviceSound(r) /\ Same(q, r) /\ r.held = <<>> /\ r.act = "read" /\ r.unread = <<>>
        /\ r.pushed = 0 /\ r.rpos = q.size /\ r.err = q.err /\ r.lost = q.lost
    BY <2>5 DEF TurnedTo
  <2>8. Same(p, r) /\ Flagged(p, r) /\ r.rpos = r.size /\ r.rd
    BY <1>6, <1>8, <2>7 DEF Same, Flagged
  <2> QED BY <2>6, <2>7, <2>8 DEF Ready
<1>9. CASE ~q.rd
  <2>1. r = [q EXCEPT !.err = TRUE]
    BY <1>4, <1>9
  <2>2. r = Turned(q, q.act, q.rpos, q.unread, q.pushed, <<>>, q.eof, TRUE)
    BY <1>3, <1>5, <2>1 DEF Turned, FileType
  <2>3. TurnedTo(q, r, q.act, q.rpos, q.unread, q.pushed, <<>>, q.eof, TRUE)
    <3>1. /\ DeviceSound(q) /\ q.unread \in Seq(Cell) /\ q.act \in Acts /\ q.rpos \in Int
          /\ q.pushed \in Nat /\ q.eof \in BOOLEAN
      BY <1>5
    <3> QED BY <1>7, <2>2, <3>1, TurnedIs
  <2>4. InBuffer(q, q.act, q.rpos, q.unread, q.pushed, <<>>)
    BY <1>3 DEF BufRight
  <2>5. BufRight(r)
    BY <2>3, <2>4, TurnedRight
  <2>6. /\ Same(q, r) /\ r.held = <<>> /\ r.act = q.act /\ r.err = TRUE /\ r.lost = q.lost
    BY <2>3 DEF TurnedTo
  <2>7. Same(p, r) /\ Flagged(p, r) /\ ~r.rd
    BY <1>6, <1>9, <2>6 DEF Same, Flagged
  <2> QED BY <1>3, <2>5, <2>6, <2>7
<1> QED BY <1>8, <1>9

\* What a read leaves in the buffer is in order.
LEMMA ReadLeaves ==
  ASSUME NEW p, Ready(p), NEW n, NEW o, ReadRight(p, n, o)
  PROVE  /\ BufRight(o.p) /\ Same(p, o.p) /\ Flagged(p, o.p) /\ o.p.held = <<>> /\ o.p.act = "read"
         /\ o.p.pushed = 0 /\ o.p.rpos >= 0 /\ o.s \in Seq(Cell)
<1> DEFINE q == o.p
<1>1. /\ DeviceSound(q) /\ Same(p, q) /\ q.held = p.held /\ q.act = p.act /\ q.lost = p.lost
      /\ q.pushed = p.pushed /\ (p.err => q.err)
      /\ q.rpos >= 0 /\ q.rpos + Len(q.unread) <= p.size /\ o.s \in Seq(Cell)
  BY DEF ReadRight, SameFile, Piece
<1>2. q.held = <<>> /\ q.act = "read" /\ q.pushed = 0
  BY <1>1 DEF Ready
<1> HIDE DEF q
<1>3. InBuffer(q, q.act, q.rpos, q.unread, q.pushed, q.held)
  <2>1. q.size \in Nat /\ q.rpos \in Int /\ Len(q.unread) \in Nat /\ UNGET \in Nat
    <3>1. q \in FileType
      BY <1>1 DEF DeviceSound
    <3> QED BY <3>1, Types, LenIs, FileBufferAssumption
  <2>2. InBuffer(q, "none", 0, <<>>, 0, <<>>)
    BY <1>1, Values, NothingIn
  <2> DEFINE r == q.rpos
             ul == Len(q.unread)
             g == q.pushed
  <2>3. r \in Int /\ r >= 0 /\ ul \in Nat /\ g = 0
    BY <1>1, <1>2, <2>1
  <2> HIDE DEF r, ul, g
  <2>4. r >= -UNGET /\ g <= ul
    BY <2>1, <2>3, SMT
  <2>5. q.rpos + Len(q.unread) <= q.size
    BY <1>1 DEF Same
  <2> QED BY <1>2, <2>2, <2>4, <2>5 DEF InBuffer, r, ul, g
<1>4. Flagged(p, q)
  BY <1>1 DEF Flagged
<1> QED BY <1>1, <1>2, <1>3, <1>4 DEF BufRight, q

\* __toread and a read.
LEMMA FillIs ==
  ASSUME NEW p, BufRight(p), NEW n \in Nat, n >= 1, NEW o \in Fill(p, n)
  PROVE  /\ BufRight(o.p) /\ Same(p, o.p) /\ Flagged(p, o.p) /\ o.p.held = <<>>
         /\ o.s \in Seq(Cell)
         /\ o.s # <<>> => o.p.act = "read" /\ o.p.pushed = 0 /\ o.p.rpos >= 0 /\ Len(o.s) <= n
<1> DEFINE Next1(q) == IF q.rd /\ ~q.eof THEN ReadOp(q, n) ELSE {[p |-> q, s |-> <<>>]}
<1>1. PICK q \in ToRead(p) : o \in Next1(q)
  BY DEF Fill
<1>2. BufRight(q) /\ Same(p, q) /\ Flagged(p, q) /\ q.held = <<>> /\ (q.rd /\ ~q.eof => Ready(q))
  BY ToReadIs
<1>3. CASE q.rd /\ ~q.eof
  <2>1. o \in ReadOp(q, n) /\ Ready(q)
    BY <1>1, <1>2, <1>3
  <2>2. ReadRight(q, n, o)
    BY <2>1, ReadOpIs
  <2>3. /\ BufRight(o.p) /\ Same(q, o.p) /\ Flagged(q, o.p) /\ o.p.held = <<>> /\ o.p.act = "read"
        /\ o.p.pushed = 0 /\ o.p.rpos >= 0 /\ o.s \in Seq(Cell)
    BY <2>1, <2>2, ReadLeaves
  <2>4. Len(o.s) <= n
    BY <2>2 DEF ReadRight
  <2>5. Same(p, o.p) /\ Flagged(p, o.p)
    BY <1>2, <2>3 DEF Same, Flagged
  <2> QED BY <2>3, <2>4, <2>5
<1>4. CASE ~(q.rd /\ ~q.eof)
  <2>1. o = [p |-> q, s |-> <<>>]
    BY <1>1, <1>4
  <2>2. o.p = q /\ o.s = <<>>
    BY <2>1
  <2> QED BY <1>2, <2>2, Values
<1> QED BY <1>3, <1>4

\* Bytes leave the buffer.
LEMMA TakeIs ==
  ASSUME NEW p, BufRight(p), NEW n \in 0..Len(p.unread), NEW q, q = Take(p, n)
  PROVE  /\ BufRight(q) /\ Same(p, q) /\ Flagged(p, q)
         /\ q.unread = SubSeq(p.unread, n + 1, Len(p.unread)) /\ Len(q.unread) = Len(p.unread) - n
         /\ q.held = p.held /\ q.act = p.act /\ q.file = p.file /\ q.off = p.off
<1> DEFINE u == SubSeq(p.unread, n + 1, Len(p.unread))
           g == Most(0, p.pushed - n)
           r == p.rpos + n
           ul == Len(u)
           l == Len(p.unread)
           pg == p.pushed
           pr == p.rpos
           z == p.size
<1>1. /\ DeviceSound(p) /\ p \in FileType /\ p.unread \in Seq(Cell) /\ p.held \in Seq(Cell) /\ p.act \in Acts
      /\ pr \in Int /\ pg \in Nat /\ z \in Nat /\ p.eof \in BOOLEAN /\ p.err \in BOOLEAN
      /\ l \in Nat /\ (p.act # "read" => p.unread = <<>>) /\ pg <= l
  BY RightIs
<1>2. u \in Seq(Cell) /\ ul = IF n + 1 <= l THEN l - (n + 1) + 1 ELSE 0
  <2>1. n + 1 \in Nat \ {0} /\ l \in Nat /\ l <= l
    <3> HIDE DEF l
    <3> QED BY <1>1, SMT
  <2> QED BY <1>1, <2>1, SubSeqIs
<1>3. q = [p EXCEPT !.unread = u, !.rpos = r, !.pushed = g]
  BY <1>1 DEF Take, FileType
<1>4. n \in 0..l /\ r = pr + n /\ g = Most(0, pg - n)
  OBVIOUS
<1>5. p.act = "read" => pr >= -UNGET /\ pr + l <= z
  BY DEF BufRight, InBuffer
<1>6. InBuffer(p, p.act, p.rpos, p.unread, p.pushed, p.held)
  BY DEF BufRight
<1>7. UNGET \in Nat
  BY FileBufferAssumption
<1>8. p.act # "read" => l = 0
  BY <1>1, EmptyIs
<1> HIDE DEF u, g, r, ul, l, pg, pr, z
<1>9. /\ r \in Int /\ g \in Nat /\ ul = l - n /\ g <= ul
      /\ p.act = "read" => r >= -UNGET /\ r + ul <= z
      /\ p.act # "read" => ul = 0
  BY <1>1, <1>2, <1>4, <1>5, <1>7, <1>8, SMT DEF Most
<1>10. q = Turned(p, p.act, r, u, g, p.held, p.eof, p.err)
  BY <1>1, <1>2, <1>3, <1>9, ZenonT(60) DEF Turned, FileType
<1>11. TurnedTo(p, q, p.act, r, u, g, p.held, p.eof, p.err)
  <2>1. /\ DeviceSound(p) /\ p.held \in Seq(Cell) /\ p.act \in Acts /\ p.eof \in BOOLEAN /\ p.err \in BOOLEAN
        /\ u \in Seq(Cell) /\ r \in Int /\ g \in Nat
    BY <1>1, <1>2, <1>9
  <2> QED BY <1>10, <2>1, TurnedIs
<1>12. InBuffer(p, p.act, r, u, g, p.held)
  <2>1. p.act # "read" => u = <<>>
    BY <1>2, <1>9, EmptyIs DEF ul
  <2> QED BY <1>6, <1>9, <2>1 DEF InBuffer, ul, z
<1>13. BufRight(q)
  BY <1>11, <1>12, TurnedRight
<1>14. Flagged(p, q)
  BY <1>11 DEF TurnedTo, Flagged
<1> QED BY <1>9, <1>11, <1>13, <1>14 DEF TurnedTo, u, ul, l

LEMMA GetcIs ==
  ASSUME NEW p, BufRight(p), NEW o \in Getc(p)
  PROVE  /\ BufRight(o.p) /\ Same(p, o.p) /\ Flagged(p, o.p)
         /\ o.s = <<>> \/ (o.s \in Seq(Cell) /\ Len(o.s) = 1)
         /\ p.unread = <<>> /\ o.s # <<>> =>
              o.p.act = "read" /\ o.p.pushed = 0 /\ o.p.rpos >= 0 /\ o.p.held = <<>>
<1>1. CASE p.unread # <<>>
  <2>1. o = [p |-> Take(p, 1), s |-> <<Head(p.unread)>>]
    BY <1>1 DEF Getc
  <2> DEFINE h == Head(p.unread)
             q == Take(p, 1)
             l == Len(p.unread)
  <2>2. p.unread \in Seq(Cell) /\ l \in Nat /\ l # 0
    BY <1>1, RightIs, EmptyIs
  <2>3. h \in Cell
    BY <1>1, <2>2, HeadTailProperties
  <2>4. 1 \in 0..Len(p.unread)
    <3>1. 1 \in 0..l
      <4> HIDE DEF l
      <4> QED BY <2>2, SMT
    <3> QED BY <3>1
  <2> HIDE DEF h, q, l
  <2>5. <<h>> \in Seq(Cell) /\ Len(<<h>>) = 1
    BY <2>3, SMT
  <2>6. BufRight(q) /\ Same(p, q) /\ Flagged(p, q)
    BY <2>4, TakeIs DEF q
  <2>7. o.p = q /\ o.s = <<h>>
    BY <2>1 DEF q, h
  <2> QED BY <1>1, <2>5, <2>6, <2>7
<1>2. CASE p.unread = <<>>
  <2>1. o \in Fill(p, 1)
    BY <1>2 DEF Getc
  <2>2. 1 \in Nat /\ 1 >= 1
    OBVIOUS
  <2>3. /\ BufRight(o.p) /\ Same(p, o.p) /\ Flagged(p, o.p) /\ o.p.held = <<>>
        /\ o.s \in Seq(Cell)
        /\ o.s # <<>> => o.p.act = "read" /\ o.p.pushed = 0 /\ o.p.rpos >= 0 /\ Len(o.s) <= 1
    BY <2>1, <2>2, FillIs
  <2>4. o.s # <<>> => Len(o.s) = 1
    <3> SUFFICES ASSUME o.s # <<>> PROVE Len(o.s) = 1
      OBVIOUS
    <3> DEFINE l == Len(o.s)
    <3>1. l \in Nat /\ l # 0 /\ l <= 1
      BY <2>3, LenIs, EmptyIs
    <3> HIDE DEF l
    <3>2. l = 1
      BY <3>1, SMT
    <3> QED BY <3>2 DEF l
  <2> QED BY <2>3, <2>4
<1> QED BY <1>1, <1>2

\* The error flag is set, and nothing else is done.
LEMMA RefusedIs ==
  ASSUME NEW p, BufRight(p)
  PROVE  LET q == [p EXCEPT !.err = TRUE]
         IN BufRight(q) /\ Same(p, q) /\ q.err /\ q.held = p.held /\ q.file = p.file /\ q.lost = p.lost
<1> DEFINE q == [p EXCEPT !.err = TRUE]
<1>1. /\ DeviceSound(p) /\ p \in FileType /\ p.unread \in Seq(Cell) /\ p.held \in Seq(Cell) /\ p.act \in Acts
      /\ p.rpos \in Int /\ p.pushed \in Nat /\ p.eof \in BOOLEAN
  BY RightIs
<1> DEFINE x == TRUE
<1>2. q = Turned(p, p.act, p.rpos, p.unread, p.pushed, p.held, p.eof, x)
  BY <1>1 DEF Turned, FileType
<1> HIDE DEF q
<1>3. TurnedTo(p, q, p.act, p.rpos, p.unread, p.pushed, p.held, p.eof, x)
  <2>1. /\ DeviceSound(p) /\ p.unread \in Seq(Cell) /\ p.held \in Seq(Cell) /\ p.act \in Acts
        /\ p.rpos \in Int /\ p.pushed \in Nat /\ p.eof \in BOOLEAN /\ x \in BOOLEAN
    BY <1>1
  <2> HIDE DEF x
  <2> QED BY <1>2, <2>1, TurnedIs
<1>4. InBuffer(p, p.act, p.rpos, p.unread, p.pushed, p.held)
  BY DEF BufRight
<1>5. BufRight(q)
  BY <1>3, <1>4, TurnedRight
<1> QED BY <1>3, <1>5 DEF TurnedTo, q

-----------------------------------------------------------------------------
(* Writing.                                                                *)

\* The client may put s: there is nothing unread, and s has a place.
MayTake(p, s) ==
  /\ BufRight(p) /\ p.unread = <<>>
  /\ s \in Seq(Cell) /\ At(p) + Len(p.held) + Len(s) <= MaxContent

LEMMA WritingIs ==
  ASSUME NEW p, NEW s, MayTake(p, s)
  PROVE  LET q == Writing(p)
         IN /\ BufRight(q) /\ Fitting(q, s) /\ Same(p, q) /\ q.lbf = p.lbf /\ q.act = "write"
            /\ q.held = p.held /\ q.unread = <<>> /\ q.file = p.file /\ q.err = p.err /\ q.lost = p.lost
            /\ At(q) = At(p)
<1> DEFINE q == Writing(p)
<1>0. BufRight(p) /\ p.unread = <<>> /\ s \in Seq(Cell) /\ At(p) + Len(p.held) + Len(s) <= MaxContent
  BY DEF MayTake
<1>1. CASE p.act = "write"
  <2>1. q = p
    BY <1>1 DEF Writing
  <2> QED BY <1>0, <1>1, <2>1 DEF Fitting, BufRight, Same
<1>2. CASE p.act # "write"
  <2>1. /\ DeviceSound(p) /\ p \in FileType /\ p.held = <<>> /\ p.eof \in BOOLEAN /\ p.err \in BOOLEAN
    BY <1>0, <1>2, RightIs
  <2>2. q = [p EXCEPT !.act = "write", !.unread = <<>>, !.pushed = 0, !.rpos = 0]
    BY <1>2 DEF Writing
  <2> HIDE DEF q
  <2>3. q = Turned(p, "write", 0, <<>>, 0, <<>>, p.eof, p.err)
    BY <2>1, <2>2 DEF Turned, FileType
  <2>4. TurnedTo(p, q, "write", 0, <<>>, 0, <<>>, p.eof, p.err)
    <3>1. DeviceSound(p) /\ p.eof \in BOOLEAN /\ p.err \in BOOLEAN
      BY <2>1
    <3> QED BY <2>3, <3>1, Values, TurnedIs
  <2>5. InBuffer(p, "write", 0, <<>>, 0, <<>>)
    BY <2>1, Values, NothingIn
  <2>6. BufRight(q)
    BY <2>4, <2>5, TurnedRight
  <2>7. /\ Same(p, q) /\ q.lbf = p.lbf /\ q.act = "write" /\ q.held = <<>> /\ q.unread = <<>>
        /\ q.file = p.file /\ q.err = p.err /\ q.lost = p.lost /\ At(q) = At(p) /\ DeviceSound(q)
    BY <2>4 DEF TurnedTo
  <2>8. Fitting(q, s)
    BY <1>0, <2>1, <2>7 DEF Fitting
  <2> QED BY <2>1, <2>6, <2>7, <2>8 DEF q
<1> QED BY <1>1, <1>2

\* Bytes are left in the buffer: s, of which c was to be written.
LEMMA HeldIs ==
  ASSUME NEW p, BufRight(p), p.act = "write", NEW s \in Seq(Cell),
         Len(p.held) + Len(s) <= p.size, p.lbf => ~HasNL(s),
         At(p) + Len(p.held) + Len(s) <= MaxContent
  PROVE  LET q == Held(p, s)
         IN /\ BufRight(q) /\ Same(p, q) /\ q.err = p.err /\ q.lost = p.lost /\ q.act = "write"
            /\ q.file = p.file /\ q.off = p.off /\ q.held = p.held \o s
<1> DEFINE h == Join(p.held, s)
           q == Held(p, s)
           hl == Len(h)
           pl == Len(p.held)
           sl == Len(s)
           at == At(p)
           z == p.size
<1>1. /\ DeviceSound(p) /\ p \in FileType /\ p.unread \in Seq(Cell) /\ p.held \in Seq(Cell) /\ p.act \in Acts
      /\ p.rpos \in Int /\ p.pushed \in Nat /\ p.eof \in BOOLEAN /\ p.err \in BOOLEAN
      /\ pl \in Nat /\ at \in Nat
  BY RightIs
<1>2. h \in Seq(Cell) /\ hl = pl + sl /\ sl \in Nat
  BY <1>1, JoinIs, LenIs
<1>3. q = [p EXCEPT !.held = h]
  BY <1>1 DEF Held, FileType, Join
<1>4. p.lbf => ~HasNL(h)
  <2> SUFFICES ASSUME p.lbf, NEW i \in 1..Len(h)
               PROVE  h[i] # NL
    BY DEF HasNL
  <2>1. \A k \in 1..Len(p.held) : p.held[k] # NL
    BY DEF BufRight, InBuffer, HasNL
  <2>2. \A k \in 1..Len(s) : s[k] # NL
    BY DEF HasNL
  <2>3. i \in 1..pl \/ i - pl \in 1..sl
    <3>1. i \in 1..hl
      OBVIOUS
    <3> HIDE DEF hl, pl, sl, h
    <3> QED BY <1>1, <1>2, <3>1, SMT
  <2>4. CASE i \in 1..pl
    <3>1. h[i] = p.held[i]
      BY <1>1, <2>4, JoinFront
    <3> QED BY <2>1, <2>4, <3>1
  <2>5. CASE i - pl \in 1..sl
    <3> DEFINE k == i - pl
    <3>1. k \in 1..sl /\ i = pl + k
      <4>1. i \in Int
        OBVIOUS
      <4> HIDE DEF pl, sl
      <4> QED BY <1>1, <2>5, <4>1, SMT
    <3> HIDE DEF k
    <3>2. h[pl + k] = s[k]
      BY <1>1, <3>1, JoinBack, ZenonT(60)
    <3> QED BY <2>2, <3>1, <3>2
  <2> QED BY <2>3, <2>4, <2>5
<1>5. hl <= z /\ at + hl <= MaxContent
  <2>1. pl + sl <= z /\ at + pl + sl <= MaxContent
    OBVIOUS
  <2> HIDE DEF hl, pl, sl, at, z
  <2> QED BY <1>1, <1>2, <2>1, SMT
<1>6. InBuffer(p, p.act, p.rpos, p.unread, p.pushed, p.held)
  BY DEF BufRight
<1> HIDE DEF h, q, pl, sl
<1>7. InBuffer(p, p.act, p.rpos, p.unread, p.pushed, h)
  BY <1>4, <1>5, <1>6 DEF InBuffer
<1>8. q = Turned(p, p.act, p.rpos, p.unread, p.pushed, h, p.eof, p.err)
  BY <1>1, <1>2, <1>3 DEF Turned, FileType
<1>9. TurnedTo(p, q, p.act, p.rpos, p.unread, p.pushed, h, p.eof, p.err)
  <2>1. /\ DeviceSound(p) /\ p.unread \in Seq(Cell) /\ p.act \in Acts
        /\ p.rpos \in Int /\ p.pushed \in Nat /\ p.eof \in BOOLEAN /\ p.err \in BOOLEAN
    BY <1>1
  <2> QED BY <1>2, <1>8, <2>1, TurnedIs
<1>10. BufRight(q)
  BY <1>7, <1>9, TurnedRight
<1> QED BY <1>9, <1>10 DEF TurnedTo, q, h, Join

\* putc_unlocked and __overflow
LEMMA PutcIs ==
  ASSUME NEW p, NEW c \in Cell, MayTake(p, <<c>>), NEW o \in Putc(p, c)
  PROVE  BufRight(o.p) /\ Same(p, o.p)
<1> DEFINE q == Writing(p)
           s == <<c>>
<1>1. BufRight(p) /\ s \in Seq(Cell)
  BY DEF MayTake
<1>2. /\ BufRight(q) /\ Fitting(q, s) /\ Same(p, q) /\ q.lbf = p.lbf /\ q.act = "write"
  BY WritingIs
<1>3. CASE o \in Refused(p)
  <2>1. o.p = [p EXCEPT !.err = TRUE]
    BY <1>3 DEF Refused
  <2> QED BY <1>1, <2>1, RefusedIs
<1>4. CASE Room(q) > 0 /\ ~(q.lbf /\ c = NL) /\ o = [p |-> Held(q, s), n |-> 1]
  <2> DEFINE hl == Len(q.held)
             sl == Len(s)
             z == q.size
  <2>1. hl \in Nat /\ z \in Nat /\ z - hl > 0 /\ sl = 1
    BY <1>2, <1>4, RightIs DEF Room
  <2>2. hl + sl <= z
    <3> HIDE DEF hl, sl, z
    <3> QED BY <2>1, SMT
  <2>3. q.lbf => ~HasNL(s)
    <3> SUFFICES ASSUME q.lbf PROVE ~HasNL(s)
      OBVIOUS
    <3>1. c # NL
      BY <1>4
    <3> QED BY <3>1, SMT DEF HasNL
  <2>4. At(q) + Len(q.held) + Len(s) <= MaxContent /\ s \in Seq(Cell)
    BY <1>2 DEF Fitting
  <2> HIDE DEF q, s
  <2>5. BufRight(Held(q, s)) /\ Same(q, Held(q, s))
    BY <1>2, <2>2, <2>3, <2>4, HeldIs
  <2>6. o.p = Held(q, s)
    BY <1>4
  <2> QED BY <1>2, <2>5, <2>6 DEF Same
<1>5. CASE o \in WriteOp(q, s)
  <2> HIDE DEF q, s
  <2>1. Wrote(q, s, o)
    BY <1>2, <1>5, WriteOpIs
  <2>2. BufRight(o.p)
    BY <1>2, <2>1, WroteRight
  <2>3. Same(q, o.p)
    BY <2>1 DEF Wrote
  <2> QED BY <1>2, <2>2, <2>3 DEF Same
<1> QED BY <1>3, <1>4, <1>5 DEF Putc

\* A part of what has a place has one.
LEMMA FittingPart ==
  ASSUME NEW p, NEW s, Fitting(p, s), NEW i \in 0..Len(s)
  PROVE  Fitting(p, SubSeq(s, 1, i)) /\ Len(SubSeq(s, 1, i)) = i
<1> DEFINE t == SubSeq(s, 1, i)
           tl == Len(t)
           sl == Len(s)
           at == At(p)
           hl == Len(p.held)
<1>1. s \in Seq(Cell) /\ sl \in Nat /\ at \in Nat /\ hl \in Nat /\ at + hl + sl <= MaxContent /\ MaxContent \in Nat
  BY AllIs, AtIs, FileBufferAssumption DEF Fitting
<1>2. i \in Nat /\ i <= sl /\ 1 \in Nat \ {0}
  <2>1. i \in 0..sl
    OBVIOUS
  <2> HIDE DEF sl
  <2> QED BY <1>1, <2>1, SMT
<1>3. t \in Seq(Cell) /\ tl = IF 1 <= i THEN i - 1 + 1 ELSE 0
  BY <1>1, <1>2, SubSeqIs
<1> HIDE DEF t, tl, sl, at, hl
<1>4. tl = i
  BY <1>2, <1>3, SMT
<1>5. at + hl + tl <= MaxContent
  BY <1>1, <1>2, <1>4, SMT
<1> QED BY <1>3, <1>4, <1>5 DEF Fitting, t, tl, at, hl

\* __fwritex: what is left in the buffer is behind the last newline.
LEMMA FwritexIs ==
  ASSUME NEW p, NEW s, MayTake(p, s), NEW o \in Fwritex(p, s)
  PROVE  BufRight(o.p) /\ Same(p, o.p)
<1> DEFINE q == Writing(p)
           i == IF q.lbf THEN LastNL(s) ELSE 0
           rest == SubSeq(s, i + 1, Len(s))
           Way(k) == IF i > 0 /\ k.n < i THEN {k} ELSE {[p |-> Held(k.p, rest), n |-> Len(s)]}
           Ways == IF i > 0 THEN WriteOp(q, SubSeq(s, 1, i)) ELSE {[p |-> q, n |-> 0]}
<1>1. BufRight(p) /\ s \in Seq(Cell) /\ Len(s) \in Nat
  BY LenIs DEF MayTake
<1>2. /\ BufRight(q) /\ Fitting(q, s) /\ Same(p, q) /\ q.lbf = p.lbf /\ q.act = "write"
  BY WritingIs
<1>3. i \in 0..Len(s) /\ (q.lbf => ~HasNL(rest))
  <2>1. LastNL(s) \in 0..Len(s) /\ ~HasNL(SubSeq(s, LastNL(s) + 1, Len(s)))
    BY <1>1, LastNLIs
  <2>2. 0 \in 0..Len(s)
    BY <1>1, SMT
  <2> QED BY <2>1, <2>2
<1>4. /\ rest \in Seq(Cell) /\ Len(rest) = Len(s) - i
  <2> DEFINE l == Len(s)
             rl == Len(rest)
  <2>1. i + 1 \in Nat \ {0} /\ l \in Nat /\ l <= l /\ i \in 0..l
    <3> HIDE DEF i
    <3> QED BY <1>1, <1>3, SMT
  <2>2. rest \in Seq(Cell) /\ rl = IF i + 1 <= l THEN l - (i + 1) + 1 ELSE 0
    BY <1>1, <2>1, SubSeqIs
  <2> HIDE DEF l, i, rl, rest
  <2>3. rl = l - i
    BY <2>1, <2>2, SMT
  <2> QED BY <2>2, <2>3 DEF l, rl
<1>5. \/ o \in Refused(p)
      \/ o \in WriteOp(q, s)
      \/ Len(s) <= Room(q) /\ \E k \in Ways : o \in Way(k)
  <2>1. Room(q) \in Int
    BY <1>2, RightIs, SMT DEF Room
  <2>2. Len(s) > Room(q) \/ Len(s) <= Room(q)
    BY <1>1, <2>1, SMT
  <2>3. o \in IF ~CanWrite(p) THEN Refused(p) ELSE IF Len(s) > Room(q) THEN WriteOp(q, s)
              ELSE UNION {Way(k) : k \in Ways}
    BY DEF Fwritex
  <2> HIDE DEF Way, Ways, q
  <2> QED BY <2>2, <2>3
<1>6. CASE o \in Refused(p)
  <2>1. o.p = [p EXCEPT !.err = TRUE]
    BY <1>6 DEF Refused
  <2> QED BY <1>1, <2>1, RefusedIs
<1>7. CASE o \in WriteOp(q, s)
  <2> HIDE DEF q
  <2>1. Wrote(q, s, o)
    BY <1>2, <1>7, WriteOpIs
  <2>2. BufRight(o.p)
    BY <1>2, <2>1, WroteRight
  <2>3. Same(q, o.p)
    BY <2>1 DEF Wrote
  <2> QED BY <1>2, <2>2, <2>3 DEF Same
<1>8. CASE Len(s) <= Room(q) /\ \E k \in Ways : o \in Way(k)
  <2>1. PICK k \in Ways : o \in Way(k)
    BY <1>8
  <2> DEFINE front == SubSeq(s, 1, i)
             r == k.p
  <2>2. Fitting(q, front) /\ Len(front) = i
    BY <1>2, <1>3, FittingPart
  <2>3. i > 0 => k \in WriteOp(q, front)
    BY <2>1
  <2>4. ~(i > 0) => k = [p |-> q, n |-> 0]
    BY <2>1
  <2> HIDE DEF Ways, front, rest, q, i
  <2>5. i > 0 => Wrote(q, front, k)
    BY <2>2, <2>3, WriteOpIs
  <2>6. BufRight(r) /\ Same(q, r)
    <3>1. CASE i > 0
      BY <1>2, <2>2, <2>5, <3>1, WroteRight DEF Wrote
    <3>2. CASE ~(i > 0)
      BY <1>2, <2>4, <3>2 DEF Same
    <3> QED BY <3>1, <3>2
  <2>7. o = k \/ (~(i > 0 /\ k.n < i) /\ o.p = Held(r, rest))
    BY <2>1
  <2>8. CASE o = k
    BY <1>2, <2>6, <2>8 DEF Same
  <2>9. CASE ~(i > 0 /\ k.n < i) /\ o.p = Held(r, rest)
    <3> DEFINE rl == Len(rest)
               sl == Len(s)
               ql == Len(q.held)
               hl == Len(r.held)
               aq == At(q)
               ar == At(r)
               z == q.size
    <3>1. /\ rl = sl - i /\ sl \in Nat /\ i \in 0..sl /\ ql \in Nat /\ hl \in Nat /\ aq \in Nat /\ ar \in Nat
          /\ z \in Nat /\ sl <= z - ql /\ aq + ql + sl <= MaxContent /\ MaxContent \in Nat
      BY <1>1, <1>2, <1>3, <1>4, <1>8, <2>6, RightIs, FileBufferAssumption DEF Room, Fitting
    <3>2. /\ r.act = "write" /\ (hl = 0 \/ hl = ql)
          /\ ar + hl <= aq + ql + i
      <4>1. CASE i > 0
        <5> DEFINE fl == Len(front)
        <5>1. /\ r.held = <<>> \/ r.held = q.held
              /\ ar + hl <= aq + ql + fl
              /\ r.act = "write" \/ front = <<>> \/ k.n < fl
          BY <2>5, <4>1 DEF Wrote
        <5>2. fl = i /\ front # <<>>
          <6>1. front \in Seq(Cell)
            BY <2>2 DEF Fitting
          <6>2. i # 0
            BY <3>1, <4>1, SMT
          <6> QED BY <2>2, <6>1, <6>2, EmptyIs
        <5>3. hl = 0 \/ hl = ql
          BY <5>1, EmptySeq
        <5>4. ~(k.n < i)
          BY <2>9, <4>1
        <5> QED BY <5>1, <5>2, <5>3, <5>4
      <4>2. CASE ~(i > 0)
        <5>1. r = q /\ i = 0
          BY <2>4, <3>1, <4>2, SMT
        <5>2. ar = aq /\ hl = ql
          BY <5>1
        <5> HIDE DEF aq, ar, hl, ql
        <5>3. ar + hl <= aq + ql + i
          BY <3>1, <5>1, <5>2, SMT
        <5> QED BY <1>2, <5>1, <5>2, <5>3
      <4> QED BY <4>1, <4>2
    <3> HIDE DEF rl, sl, ql, hl, aq, ar, z
    <3>3. hl + rl <= z /\ ar + hl + rl <= MaxContent
      BY <3>1, <3>2, SMT
    <3>4. r.size = z /\ (r.lbf => q.lbf)
      BY <2>6 DEF Same, z
    <3> HIDE DEF r
    <3>5. BufRight(Held(r, rest)) /\ Same(r, Held(r, rest))
      <4>1. Len(r.held) + Len(rest) <= r.size /\ At(r) + Len(r.held) + Len(rest) <= MaxContent
        BY <3>3, <3>4 DEF hl, rl, ar
      <4>2. r.lbf => ~HasNL(rest)
        BY <1>3, <3>4
      <4> QED BY <1>4, <2>6, <3>2, <4>1, <4>2, HeldIs
    <3> QED BY <1>2, <2>6, <2>9, <3>5 DEF Same
  <2> QED BY <2>7, <2>8, <2>9
<1> QED BY <1>5, <1>6, <1>7, <1>8

-----------------------------------------------------------------------------
(* Pushing back and moving.                                                *)

\* A byte is put before rpos, and there is room for one more.
LEMMA PushedBack ==
  ASSUME NEW p, BufRight(p), p.act = "read", p.rpos > -UNGET, NEW c \in Seq(Cell), Len(c) = 1,
         NEW g \in Nat, g <= Len(p.unread) + 1, NEW e \in BOOLEAN
  PROVE  LET q == [p EXCEPT !.unread = c \o @, !.rpos = @ - 1, !.pushed = g, !.eof = e]
         IN BufRight(q) /\ Same(p, q)
<1> DEFINE u == Join(c, p.unread)
           r == p.rpos - 1
           pr == p.rpos
           l == Len(p.unread)
           cl == Len(c)
           ul == Len(u)
           z == p.size
           q == [p EXCEPT !.unread = c \o @, !.rpos = @ - 1, !.pushed = g, !.eof = e]
<1>1. /\ DeviceSound(p) /\ p \in FileType /\ p.unread \in Seq(Cell) /\ p.held = <<>> /\ p.held \in Seq(Cell)
      /\ p.act \in Acts /\ pr \in Int /\ p.err \in BOOLEAN /\ l \in Nat /\ z \in Nat
  <2>1. p.held = <<>>
    BY DEF BufRight, InBuffer
  <2> QED BY <2>1, RightIs
<1>2. u \in Seq(Cell) /\ ul = cl + l
  BY <1>1, JoinIs
<1>3. pr > -UNGET /\ pr + l <= z /\ cl = 1 /\ g <= l + 1 /\ r = pr - 1 /\ UNGET \in Nat
  BY FileBufferAssumption DEF BufRight, InBuffer
<1>4. q = [p EXCEPT !.unread = u, !.rpos = r, !.pushed = g, !.eof = e]
  BY <1>1 DEF Join, FileType
<1>5. InBuffer(p, p.act, p.rpos, p.unread, p.pushed, p.held)
  BY DEF BufRight
<1> HIDE DEF u, r, pr, l, cl, ul, z, q
<1>6. r \in Int /\ r >= -UNGET /\ r + ul <= z /\ g <= ul
  BY <1>1, <1>2, <1>3, SMT
<1>7. q = Turned(p, p.act, r, u, g, p.held, e, p.err)
  BY <1>1, <1>2, <1>4, <1>6 DEF Turned, FileType
<1>8. TurnedTo(p, q, p.act, r, u, g, p.held, e, p.err)
  <2>1. DeviceSound(p) /\ p.held \in Seq(Cell) /\ p.act \in Acts /\ p.err \in BOOLEAN /\ u \in Seq(Cell) /\ r \in Int
    BY <1>1, <1>2, <1>6
  <2> QED BY <1>7, <2>1, TurnedIs
<1>9. InBuffer(p, p.act, r, u, g, p.held)
  BY <1>5, <1>6 DEF InBuffer, ul, z
<1>10. BufRight(q)
  BY <1>8, <1>9, TurnedRight
<1> QED BY <1>8, <1>10 DEF TurnedTo, q

LEMMA UngetcIs ==
  ASSUME NEW p, BufRight(p), NEW c \in Cell, NEW o \in Ungetc(p, c)
  PROVE  BufRight(o.p) /\ Same(p, o.p)
<1> DEFINE Push(q) == [q EXCEPT !.unread = <<c>> \o @, !.rpos = @ - 1, !.pushed = @ + 1, !.eof = FALSE]
<1>1. PICK q \in IF p.act = "read" THEN {p} ELSE ToRead(p) :
             o = IF q.act # "read" \/ q.rpos <= -UNGET THEN [p |-> q, n |-> 0]
                 ELSE [p |-> Push(q), n |-> 1]
  BY DEF Ungetc
<1>2. BufRight(q) /\ Same(p, q)
  <2>1. CASE q = p
    BY <2>1 DEF Same
  <2>2. CASE q \in ToRead(p)
    BY <2>2, ToReadIs
  <2> QED BY <1>1, <2>1, <2>2
<1>3. CASE o.p = q
  BY <1>2, <1>3
<1>4. CASE q.act = "read" /\ ~(q.rpos <= -UNGET) /\ o.p = Push(q)
  <2> DEFINE g == q.pushed + 1
             pg == q.pushed
             l == Len(q.unread)
             pr == q.rpos
  <2>1. q \in FileType /\ pg \in Nat /\ l \in Nat /\ pg <= l /\ pr \in Int /\ UNGET \in Nat
    BY <1>2, RightIs, FileBufferAssumption
  <2>2. g = pg + 1 /\ ~(pr <= -UNGET)
    BY <1>4
  <2>3. Push(q) = [q EXCEPT !.unread = <<c>> \o @, !.rpos = @ - 1, !.pushed = g, !.eof = FALSE]
    BY <2>1 DEF FileType
  <2> HIDE DEF g, pg, pr, l
  <2>4. g \in Nat /\ g <= l + 1 /\ pr > -UNGET
    BY <2>1, <2>2, SMT
  <2> DEFINE s == <<c>>
             e == FALSE
  <2>5. s \in Seq(Cell) /\ Len(s) = 1 /\ e \in BOOLEAN
    OBVIOUS
  <2>6. Push(q) = [q EXCEPT !.unread = s \o @, !.rpos = @ - 1, !.pushed = g, !.eof = e]
    BY <2>3
  <2> HIDE DEF s, e, Push
  <2> DEFINE v == [q EXCEPT !.unread = s \o @, !.rpos = @ - 1, !.pushed = g, !.eof = e]
  <2>7. BufRight(v) /\ Same(q, v)
    <3>1. BufRight(q) /\ q.act = "read" /\ q.rpos > -UNGET /\ g \in Nat /\ g <= Len(q.unread) + 1
      BY <1>2, <1>4, <2>4 DEF l, pr
    <3> QED BY <2>5, <3>1, PushedBack
  <2>8. o.p = v
    BY <1>4, <2>6
  <2> HIDE DEF v
  <2> QED BY <1>2, <2>7, <2>8 DEF Same
<1> QED BY <1>1, <1>3, <1>4

\* Nothing is in the buffer and it is used neither way.
LEMMA IdledIs ==
  ASSUME NEW p, DeviceSound(p)
  PROVE  LET q == Idled(p)
         IN BufRight(q) /\ TurnedTo(p, q, "none", 0, <<>>, 0, <<>>, p.eof, p.err)
<1> DEFINE q == Idled(p)
<1>1. p \in FileType /\ p.eof \in BOOLEAN /\ p.err \in BOOLEAN
  <2>1. p \in FileType
    BY DEF DeviceSound
  <2> QED BY <2>1, Types
<1>2. q = Turned(p, "none", 0, <<>>, 0, <<>>, p.eof, p.err)
  BY <1>1 DEF Idled, NotWriting, Turned, FileType
<1> HIDE DEF q
<1>3. TurnedTo(p, q, "none", 0, <<>>, 0, <<>>, p.eof, p.err)
  BY <1>1, <1>2, Values, TurnedIs
<1>4. InBuffer(p, "none", 0, <<>>, 0, <<>>)
  BY Values, NothingIn
<1>5. BufRight(q)
  BY <1>3, <1>4, TurnedRight
<1> QED BY <1>3, <1>5 DEF q

\* The device is moved.
LEMMA SoughtIs ==
  ASSUME NEW p, DeviceSound(p), NEW t \in Nat, t <= MaxContent, p.dev # "grow" => t <= Len(p.file)
  PROVE  LET q == [p EXCEPT !.off = t]
         IN /\ DeviceSound(q) /\ Same(p, q) /\ SameUnread(p, q) /\ SameHeld(p, q) /\ q.lbf = p.lbf
            /\ q.file = p.file /\ q.off = t
            /\ At(q) = IF p.app THEN At(p) ELSE t
<1> DEFINE q == [p EXCEPT !.off = t]
<1>1. p \in FileType
  BY DEF DeviceSound
<1>2. q \in FileType /\ q.off = t
  BY <1>1 DEF FileType
<1>3. /\ Same(p, q) /\ SameUnread(p, q) /\ SameHeld(p, q) /\ q.lbf = p.lbf
      /\ q.file = p.file /\ q.tail = p.tail /\ q.told = p.told
  BY <1>1 DEF FileType, Same, SameUnread, SameHeld
<1> HIDE DEF q
<1>4. DeviceSound(q)
  BY <1>2, <1>3 DEF DeviceSound, Same
<1>5. At(q) = IF p.app THEN At(p) ELSE t
  BY <1>2, <1>3 DEF At, Same
<1> QED BY <1>2, <1>3, <1>4, <1>5 DEF q

\* lseek and its kin: the position is t, or nothing has changed.
LEMMA SeekOpIs ==
  ASSUME NEW p, DeviceSound(p), NEW t \in Int, NEW k \in SeekOp(p, t)
  PROVE  \/ k.p = p /\ k.n = -1
         \/ t >= 0 /\ k.p = [p EXCEPT !.off = t] /\ k.n = t
BY DEF SeekOp

LEMMA TargetIs ==
  ASSUME NEW p, DeviceSound(p), NEW w \in {"SET", "CUR", "END"}, NEW o \in Int
  PROVE  Target(p, w, o) \in Int
<1> DEFINE f == p.off
           l == Len(p.file)
<1>1. f \in Nat /\ l \in Nat
  <2>1. p \in FileType
    BY DEF DeviceSound
  <2> QED BY <2>1, Types, LenIs
<1> HIDE DEF f, l
<1>2. o \in Int /\ f + o \in Int /\ l + o \in Int
  BY <1>1, SMT
<1> QED BY <1>2 DEF Target, f, l

\* __fseeko_unlocked, to a place the client seeks to.
LEMMA FseekIs ==
  ASSUME NEW p, BufRight(p), NEW w \in {"SET", "CUR", "END"}, NEW o \in Int, NEW r \in FseekFrom(p, w, o),
         Reachable(r.p) \/ (w = "SET" /\ o = 0)
  PROVE  BufRight(r.p) /\ Same(p, r.p)
<1> DEFINE adj == IF w = "CUR" THEN o - Len(p.unread) ELSE o
           After(k) == IF k.n < 0 THEN [p |-> k.p, n |-> -1]
                       ELSE [p |-> [Idled(k.p) EXCEPT !.eof = FALSE], n |-> 0]
<1>1. adj \in Int
  <2> DEFINE l == Len(p.unread)
  <2>1. l \in Nat
    BY RightIs
  <2> HIDE DEF l
  <2>2. o \in Int /\ o - l \in Int
    BY <2>1, SMT
  <2> QED BY <2>2 DEF l
<1>2. PICK q \in Flushed(p) :
         \/ q.act = "none" /\ p.held # <<>> /\ r = [p |-> q, n |-> -1]
         \/ \E k \in SeekOp(NotWriting(q), Target(q, w, adj)) : r = After(k)
  <2> DEFINE Seek1(q) == {After(k) : k \in SeekOp(NotWriting(q), Target(q, w, adj))}
  <2>1. PICK q \in Flushed(p) : r \in IF q.act = "none" /\ p.held # <<>> THEN {[p |-> q, n |-> -1]}
                                      ELSE Seek1(q)
    BY DEF FseekFrom
  <2> QED BY <2>1
<1>3. BufRight(q) /\ Same(p, q)
  BY FlushedIs
<1>4. CASE q.act = "none" /\ p.held # <<>> /\ r = [p |-> q, n |-> -1]
  BY <1>3, <1>4
<1>5. CASE \E k \in SeekOp(NotWriting(q), Target(q, w, adj)) : r = After(k)
  <2> DEFINE t == Target(q, w, adj)
             m == NotWriting(q)
  <2>1. PICK k \in SeekOp(m, t) : r = After(k)
    BY <1>5
  <2>2. BufRight(m) /\ Same(q, m) /\ DeviceSound(m) /\ m.off = q.off
    <3>1. BufRight(m) /\ Same(q, m) /\ m.off = q.off
      BY <1>3, NotWritingIs
    <3> QED BY <3>1 DEF BufRight
  <2>3. t \in Int
    BY <1>1, <1>3, RightIs, TargetIs
  <2>4. w = "SET" /\ o = 0 => t = 0
    BY DEF Target
  <2>5. Same(p, m)
    BY <1>3, <2>2 DEF Same
  <2> HIDE DEF t, m, adj
  <2>6. \/ k.p = m /\ k.n = -1
        \/ t >= 0 /\ k.p = [m EXCEPT !.off = t] /\ k.n = t
    BY <2>2, <2>3, SeekOpIs
  <2>7. CASE k.p = m /\ k.n = -1
    <3>1. k.n < 0
      BY <2>7, SMT
    <3>2. r.p = m
      BY <2>1, <2>7, <3>1
    <3> QED BY <2>2, <2>5, <3>2
  <2>8. CASE t >= 0 /\ k.p = [m EXCEPT !.off = t] /\ k.n = t
    <3>1. ~(k.n < 0) /\ t \in Nat
      BY <2>3, <2>8, SMT
    <3> DEFINE v == [m EXCEPT !.off = t]
    <3>2. r.p = [Idled(v) EXCEPT !.eof = FALSE]
      BY <2>1, <2>8, <3>1
    <3>3. m \in FileType
      BY <2>2 DEF DeviceSound
    <3>4. /\ r.p.off = t /\ r.p.file = m.file /\ r.p.dev = m.dev
      BY <3>1, <3>2, <3>3 DEF Idled, NotWriting, FileType
    <3>5. t <= MaxContent /\ (m.dev # "grow" => t <= Len(m.file))
      <4>1. CASE Reachable(r.p)
        <5>1. t <= IF m.dev = "grow" THEN MaxContent ELSE Len(m.file)
          BY <3>4, <4>1 DEF Reachable
        <5>2. Len(m.file) <= MaxContent /\ Len(m.file) \in Nat /\ MaxContent \in Nat
          BY <2>2, <3>3, Types, LenIs, FileBufferAssumption DEF DeviceSound
        <5> QED BY <3>1, <5>1, <5>2, SMT
      <4>2. CASE w = "SET" /\ o = 0
        <5>1. Len(m.file) \in Nat /\ MaxContent \in Nat
          BY <3>3, Types, LenIs, FileBufferAssumption
        <5>2. t = 0
          BY <2>4, <4>2
        <5> QED BY <5>1, <5>2, SMT
      <4> QED BY <4>1, <4>2
    <3>6. DeviceSound(v) /\ Same(m, v)
      BY <2>2, <3>1, <3>5, SoughtIs
    <3> HIDE DEF v
    <3> DEFINE i == Idled(v)
    <3>7. BufRight(i) /\ TurnedTo(v, i, "none", 0, <<>>, 0, <<>>, v.eof, v.err)
      BY <3>6, IdledIs
    <3>8. /\ DeviceSound(i) /\ i \in FileType /\ Same(v, i) /\ i.act = "none" /\ i.rpos = 0 /\ i.unread = <<>>
          /\ i.pushed = 0 /\ i.held = <<>> /\ i.err \in BOOLEAN
      <4>1. /\ DeviceSound(i) /\ Same(v, i) /\ i.act = "none" /\ i.rpos = 0 /\ i.unread = <<>>
            /\ i.pushed = 0 /\ i.held = <<>>
        BY <3>7 DEF TurnedTo
      <4> QED BY <3>7, <4>1, RightIs
    <3> HIDE DEF i
    <3> DEFINE e == FALSE
    <3>9. r.p = Turned(i, "none", 0, <<>>, 0, <<>>, e, i.err)
      BY <3>2, <3>8, ZenonT(60) DEF Turned, FileType, i
    <3>10. TurnedTo(i, r.p, "none", 0, <<>>, 0, <<>>, e, i.err)
      <4>1. DeviceSound(i) /\ i.err \in BOOLEAN /\ e \in BOOLEAN
        BY <3>8
      <4> HIDE DEF e
      <4> QED BY <3>9, <4>1, Values, TurnedIs
    <3>11. InBuffer(i, "none", 0, <<>>, 0, <<>>)
      BY <3>8, Values, NothingIn
    <3>12. BufRight(r.p)
      BY <3>10, <3>11, TurnedRight
    <3>13. Same(i, r.p)
      BY <3>10 DEF TurnedTo
    <3> QED BY <2>5, <3>6, <3>8, <3>12, <3>13 DEF Same
  <2> QED BY <2>6, <2>7, <2>8
<1> QED BY <1>2, <1>4, <1>5

\* __fflush_unlocked
LEMMA FflushIs ==
  ASSUME NEW p, BufRight(p), NEW o \in FflushUnlocked(p)
  PROVE  /\ BufRight(o.p) /\ Same(p, o.p)
         /\ \E q \in Flushed(p) :
              /\ o.p.file = q.file /\ o.p.lost = q.lost /\ o.p.err = q.err
              /\ o.n = 0 => ~(q.act = "none" /\ p.held # <<>>)
<1> DEFINE Ways(q) == IF q.unread = <<>> THEN {[p |-> q]} ELSE SeekOp(q, q.off - Len(q.unread))
<1>1. PICK q \in Flushed(p) :
         \/ q.act = "none" /\ p.held # <<>> /\ o = [p |-> q, n |-> -1]
         \/ ~(q.act = "none" /\ p.held # <<>>) /\ \E k \in Ways(q) : o = [p |-> Idled(k.p), n |-> 0]
  <2> DEFINE All(q) == {[p |-> Idled(k.p), n |-> 0] : k \in Ways(q)}
  <2>1. PICK q \in Flushed(p) : o \in IF q.act = "none" /\ p.held # <<>> THEN {[p |-> q, n |-> -1]}
                                      ELSE All(q)
    BY DEF FflushUnlocked
  <2> QED BY <2>1
<1>2. BufRight(q) /\ Same(p, q)
  BY FlushedIs
<1>3. CASE q.act = "none" /\ p.held # <<>> /\ o = [p |-> q, n |-> -1]
  <2>1. o.p = q /\ o.n # 0
    BY <1>3
  <2> QED BY <1>2, <2>1
<1>4. CASE ~(q.act = "none" /\ p.held # <<>>) /\ \E k \in Ways(q) : o = [p |-> Idled(k.p), n |-> 0]
  <2>1. PICK k \in Ways(q) : o = [p |-> Idled(k.p), n |-> 0]
    BY <1>4
  <2> DEFINE m == k.p
  <2>2. DeviceSound(m) /\ Same(q, m) /\ m.file = q.file /\ m.lost = q.lost /\ m.err = q.err
    <3>1. CASE m = q
      BY <1>2, <3>1 DEF Same, BufRight
    <3>2. CASE k \in SeekOp(q, q.off - Len(q.unread))
      <4> DEFINE t == q.off - Len(q.unread)
                 f == q.off
                 l == Len(q.unread)
      <4>1. DeviceSound(q) /\ f \in Nat /\ l \in Nat
        BY <1>2, RightIs, Types
      <4>2. t \in Int /\ t <= f
        <5> HIDE DEF f, l
        <5>1. f - l \in Int /\ f - l <= f
          BY <4>1, SMT
        <5> QED BY <5>1 DEF f, l
      <4>3. f <= MaxContent /\ (q.dev # "grow" => f <= Len(q.file)) /\ Len(q.file) \in Nat /\ MaxContent \in Nat
        <5>1. q \in FileType
          BY <4>1 DEF DeviceSound
        <5> QED BY <4>1, <5>1, Types, LenIs, FileBufferAssumption DEF DeviceSound
      <4> HIDE DEF t, f, l
      <4>4. m = q \/ (t >= 0 /\ m = [q EXCEPT !.off = t])
        BY <3>2, <4>1, <4>2, SeekOpIs DEF t, f, l
      <4>5. CASE t >= 0 /\ m = [q EXCEPT !.off = t]
        <5>1. t \in Nat /\ t <= MaxContent /\ (q.dev # "grow" => t <= Len(q.file))
          BY <4>1, <4>2, <4>3, <4>5, SMT
        <5> DEFINE v == [q EXCEPT !.off = t]
        <5>2. DeviceSound(v) /\ Same(q, v) /\ v.file = q.file /\ SameHeld(q, v)
          BY <4>1, <5>1, SoughtIs
        <5> HIDE DEF v
        <5>3. m = v
          BY <4>5 DEF v
        <5> HIDE DEF m
        <5> QED BY <5>2, <5>3 DEF SameHeld
      <4> QED BY <3>1, <4>4, <4>5
    <3> QED BY <2>1, <3>1, <3>2
  <2>3. o.p = Idled(m) /\ o.n = 0
    BY <2>1
  <2> HIDE DEF m
  <2>4. BufRight(Idled(m)) /\ TurnedTo(m, Idled(m), "none", 0, <<>>, 0, <<>>, m.eof, m.err)
    BY <2>2, IdledIs
  <2>5. BufRight(o.p) /\ Same(m, o.p) /\ o.p.file = m.file /\ o.p.lost = m.lost /\ o.p.err = m.err
    BY <2>3, <2>4 DEF TurnedTo
  <2> QED BY <1>2, <1>4, <2>2, <2>5 DEF Same
<1> QED BY <1>1, <1>3, <1>4

-----------------------------------------------------------------------------
(* The calls.                                                              *)

\* A call whose loop runs has no more than it asked for.
CallRight ==
  /\ call.op \in {"none", "fread", "fgets", "getdelim"}
  /\ call.op # "none" =>
       /\ call = [op |-> call.op, want |-> call.want, got |-> call.got, cap |-> call.cap, from |-> call.from]
       /\ call.want \in Nat /\ call.got \in Seq(Cell) /\ call.cap \in Nat
  /\ call.op = "fread" => Len(call.got) <= call.want
  /\ call.op = "fgets" => Len(call.got) < call.want
  /\ call.op = "getdelim" => Len(call.got) <= call.cap

\* setvbuf finds a buffer that nothing was done with.
Fresh == Idle /\ ret.op = "open" => fp.act = "none"

\* The inductive invariant.
BufferInv == BufRight(fp) /\ CallRight /\ Fresh

\* A call without a loop.
LEMMA AtOnce ==
  ASSUME BufferInv, Idle, NEW p, BufRight(p), fp' = p, UNCHANGED call, ret'.op # "open"
  PROVE  BufferInv'
BY DEF BufferInv, CallRight, Fresh

\* The end of a call with a loop.
LEMMA EndIs ==
  ASSUME NEW p, BufRight(p), NEW o \in {"get", "line"}, NEW s, End(p, o, s)
  PROVE  BufferInv'
<1>1. fp' = p /\ call' = [op |-> "none"] /\ ret' = [op |-> o, arg |-> <<call.want>>, val |-> s]
  BY DEF End, NoCall, Returns
<1>2. call'.op = "none" /\ ret'.op = o
  BY <1>1
<1>3. CallRight'
  BY <1>2 DEF CallRight
<1>4. Fresh'
  BY <1>2 DEF Fresh
<1> QED BY <1>1, <1>3, <1>4 DEF BufferInv

\* A turn of its loop.
LEMMA TurnIs ==
  ASSUME CallRight, call.op # "none", NEW p, BufRight(p), NEW s \in Seq(Cell), NEW c \in Nat, Turn(p, s, c),
         call.op = "fread" => Len(s) <= call.want,
         call.op = "fgets" => Len(s) < call.want,
         call.op = "getdelim" => Len(s) <= c
  PROVE  BufferInv'
<1>1. fp' = p /\ call' = [call EXCEPT !.got = s, !.cap = c]
  BY DEF Turn
<1>2. call = [op |-> call.op, want |-> call.want, got |-> call.got, cap |-> call.cap, from |-> call.from]
  BY DEF CallRight
<1>3. call' = [op |-> call.op, want |-> call.want, got |-> s, cap |-> c, from |-> call.from]
  BY <1>1, <1>2
<1>4. /\ call'.op = call.op /\ call'.want = call.want /\ call'.got = s /\ call'.cap = c
      /\ call'.from = call.from
  BY <1>3
<1>5. CallRight'
  <2>1. call.op \in {"none", "fread", "fgets", "getdelim"} /\ call.want \in Nat
    BY DEF CallRight
  <2> QED BY <1>3, <1>4, <2>1 DEF CallRight
<1>6. Fresh'
  BY <1>4 DEF Fresh, Idle
<1> QED BY <1>1, <1>5, <1>6 DEF BufferInv

LEMMA BeginIs ==
  ASSUME BufferInv, NEW o \in {"fread", "fgets", "getdelim"}, NEW n \in Nat, NEW c \in Nat, Begin(o, n, c),
         o = "fgets" => n > 0
  PROVE  BufferInv'
<1>1. /\ fp' = fp /\ call' = [op |-> o, want |-> n, got |-> <<>>, cap |-> c, from |-> Stream(fp)]
  BY DEF Begin
<1>2. /\ call'.op = o /\ call'.want = n /\ call'.got = <<>> /\ call'.cap = c
      /\ call'.from = Stream(fp)
  BY <1>1
<1>3. <<>> \in Seq(Cell) /\ Len(<<>>) = 0
  BY EmptySeq
<1>4. /\ o \in {"none", "fread", "fgets", "getdelim"} /\ o # "none"
      /\ Len(<<>>) <= n /\ Len(<<>>) <= c /\ (o = "fgets" => Len(<<>>) < n)
  <2> DEFINE z == Len(<<>>)
  <2>1. z = 0
    BY <1>3
  <2> HIDE DEF z
  <2>2. z <= n /\ z <= c /\ (o = "fgets" => z < n)
    BY <2>1, SMT
  <2> QED BY <2>2 DEF z
<1>5. CallRight'
  <2>1. call'.op \in {"none", "fread", "fgets", "getdelim"} /\ call'.op # "none"
    BY <1>2, <1>4
  <2>2. call' = [op |-> call'.op, want |-> call'.want, got |-> call'.got, cap |-> call'.cap, from |-> call'.from]
    BY <1>1, <1>2
  <2>3. call'.want \in Nat /\ call'.got \in Seq(Cell) /\ call'.cap \in Nat
    BY <1>2, <1>3
  <2>4. Len(call'.got) <= call'.want /\ Len(call'.got) <= call'.cap /\ (call'.op = "fgets" => Len(call'.got) < call'.want)
    BY <1>2, <1>4
  <2> QED BY <2>1, <2>2, <2>3, <2>4 DEF CallRight
<1>6. Fresh'
  BY <1>2 DEF Fresh, Idle
<1>7. BufRight(fp)'
  BY <1>1 DEF BufferInv
<1> QED BY <1>5, <1>6, <1>7 DEF BufferInv

\* What has a place in the content has one in the file.
LEMMA FitsIs ==
  ASSUME BufRight(fp), NEW s \in Seq(Cell), fp.unread = <<>>, Fits(Len(s))
  PROVE  MayTake(fp, s)
<1> DEFINE w == Stream(fp).content
           at == At(fp)
           hl == Len(fp.held)
           sl == Len(s)
           wl == Len(w)
           f == fp.off
           fl == Len(fp.file)
<1>1. /\ DeviceSound(fp) /\ fp \in FileType /\ fp.held \in Seq(Cell) /\ at \in Nat /\ hl \in Nat /\ sl \in Nat
      /\ f \in Nat /\ fl \in Nat
  BY RightIs, Types, LenIs
<1>2. Most(wl, f) + sl <= MaxContent
  BY DEF Fits
<1>3. (at = fl \/ at = f) /\ MaxContent \in Nat
  BY FileBufferAssumption DEF At
<1>4. CASE fp.held = <<>>
  <2>1. w = fp.file
    BY <1>4 DEF Stream
  <2>2. wl = fl /\ hl = 0
    BY <1>4, <2>1, EmptySeq
  <2> HIDE DEF w, at, hl, sl, wl, f, fl
  <2>3. at + hl + sl <= MaxContent
    BY <1>1, <1>2, <1>3, <2>2, SMT DEF Most
  <2> QED BY <2>3 DEF MayTake, at, hl, sl
<1>5. CASE fp.held # <<>>
  <2>1. w = Written(fp, fp.held)
    BY <1>5 DEF Stream, Written, At
  <2>2. wl = Most(fl, at + hl)
    BY <1>1, <2>1, WrittenIs
  <2> HIDE DEF w, at, hl, sl, wl, f, fl
  <2>3. at + hl + sl <= MaxContent
    BY <1>1, <1>2, <1>3, <2>2, SMT DEF Most
  <2> QED BY <2>3 DEF MayTake, at, hl, sl
<1> QED BY <1>4, <1>5

LEMMA StringIs ==
  ASSUME NEW m \in Nat, NEW s \in Strings(m)
  PROVE  s \in Seq(Cell) /\ Len(s) \in Nat /\ Len(s) <= m /\ \A i \in 1..Len(s) : s[i] \in Byte
<1>1. PICK n \in 0..m : s \in [1..n -> Byte]
  BY DEF Strings
<1>2. n \in Nat /\ n <= m
  BY SMT
<1>3. s \in [1..n -> Cell]
  BY <1>1 DEF Cell
<1>4. s \in Seq(Cell) /\ Len(s) = n
  BY <1>2, <1>3, SMT
<1> QED BY <1>1, <1>2, <1>4

LEMMA FputcInv ==
  ASSUME BufferInv, fputc
  PROVE  BufferInv'
<1>1. PICK c \in Byte : \E o \in Putc(fp, c) :
         MayPut(1) /\ fp' = o.p /\ Returns("put", <<c>>, o.n) /\ UNCHANGED call
  BY DEF fputc
<1>2. PICK o \in Putc(fp, c) :
         MayPut(1) /\ fp' = o.p /\ Returns("put", <<c>>, o.n) /\ UNCHANGED call
  BY <1>1
<1> DEFINE s == <<c>>
<1>3. s \in Seq(Cell) /\ Len(s) = 1 /\ c \in Cell
  BY DEF Cell
<1>4. Idle /\ fp.unread = <<>> /\ Fits(Len(s)) /\ BufRight(fp)
  BY <1>2, <1>3 DEF MayPut, BufferInv
<1> HIDE DEF s
<1>5. MayTake(fp, s)
  BY <1>3, <1>4, FitsIs
<1>6. MayTake(fp, <<c>>)
  BY <1>5 DEF s
<1>7. BufRight(o.p)
  BY <1>2, <1>3, <1>6, PutcIs
<1>8. ret'.op # "open"
  BY <1>2 DEF Returns
<1> QED BY <1>2, <1>4, <1>7, <1>8, AtOnce

LEMMA FwriteInv ==
  ASSUME BufferInv, fwrite
  PROVE  BufferInv'
<1>1. PICK s \in Strings(MaxContent) \ {<<>>} : \E o \in Fwritex(fp, s) :
         MayPut(Len(s)) /\ fp' = o.p /\ Returns("put", s, o.n) /\ UNCHANGED call
  BY DEF fwrite
<1>2. PICK o \in Fwritex(fp, s) :
         MayPut(Len(s)) /\ fp' = o.p /\ Returns("put", s, o.n) /\ UNCHANGED call
  BY <1>1
<1>3. s \in Seq(Cell)
  BY FileBufferAssumption, StringIs
<1>4. Idle /\ fp.unread = <<>> /\ Fits(Len(s)) /\ BufRight(fp)
  BY <1>2 DEF MayPut, BufferInv
<1>5. MayTake(fp, s)
  BY <1>3, <1>4, FitsIs
<1>6. BufRight(o.p)
  BY <1>2, <1>5, FwritexIs
<1>7. ret'.op # "open"
  BY <1>2 DEF Returns
<1> QED BY <1>2, <1>4, <1>6, <1>7, AtOnce

LEMMA FgetcInv ==
  ASSUME BufferInv, fgetc
  PROVE  BufferInv'
<1>1. PICK o \in Getc(fp) : fp' = o.p /\ Returns("get", <<1>>, o.s) /\ UNCHANGED call
  BY DEF fgetc
<1>2. Idle /\ BufRight(fp)
  BY DEF fgetc, BufferInv
<1>3. BufRight(o.p)
  BY <1>1, <1>2, GetcIs
<1>4. ret'.op # "open"
  BY <1>1 DEF Returns
<1> QED BY <1>1, <1>2, <1>3, <1>4, AtOnce

LEMMA BeginInv ==
  ASSUME BufferInv, fread \/ fgets \/ getdelim
  PROVE  BufferInv'
<1>1. MaxContent \in Nat /\ MaxContent > 0 /\ 1 \in Nat /\ 0 \in Nat /\ 2 \in Nat /\ 1 > 0
  BY FileBufferAssumption, SMT
<1>2. CASE fread
  <2>1. PICK n \in {1, MaxContent} : Begin("fread", n, 0)
    BY <1>2 DEF fread
  <2> QED BY <1>1, <2>1, BeginIs
<1>3. CASE fgets
  <2>1. PICK n \in {1, MaxContent} : Begin("fgets", n, 0)
    BY <1>3 DEF fgets
  <2>2. n \in Nat /\ n > 0
    BY <1>1
  <2> QED BY <1>1, <2>1, <2>2, BeginIs
<1>4. CASE getdelim
  <2>1. PICK c \in {0, 2} : Begin("getdelim", 0, c)
    BY <1>4 DEF getdelim
  <2>2. c \in Nat
    BY <1>1
  <2> QED BY <1>1, <2>1, <2>2, BeginIs
<1> QED BY <1>2, <1>3, <1>4

\* k more bytes from the buffer.
LEMMA MoreIs ==
  ASSUME NEW g \in Seq(Cell), NEW u \in Seq(Cell), NEW k \in 0..Len(u)
  PROVE  /\ g \o SubSeq(u, 1, k) \in Seq(Cell)
         /\ Len(g \o SubSeq(u, 1, k)) = Len(g) + k
         /\ Len(g) \in Nat
<1> DEFINE t == SubSeq(u, 1, k)
           l == Len(u)
           tl == Len(t)
<1>1. k \in 0..l /\ l \in Nat
  BY LenIs
<1>2. k \in Nat /\ k <= l /\ 1 \in Nat \ {0}
  <2> HIDE DEF l
  <2> QED BY <1>1, SMT
<1>3. t \in Seq(Cell) /\ tl = IF 1 <= k THEN k - 1 + 1 ELSE 0
  BY <1>2, SubSeqIs
<1>4. tl = k
  <2> HIDE DEF tl, t
  <2> QED BY <1>2, <1>3, SMT
<1> HIDE DEF t
<1>5. Join(g, t) \in Seq(Cell) /\ Len(Join(g, t)) = Len(g) + Len(t) /\ Len(g) \in Nat
  BY <1>3, JoinIs, LenIs
<1> QED BY <1>4, <1>5 DEF Join, t, tl

\* What a read got.
LEMMA GotIs ==
  ASSUME NEW g \in Seq(Cell), NEW s \in Seq(Cell)
  PROVE  /\ g \o s \in Seq(Cell) /\ Len(g \o s) = Len(g) + Len(s)
         /\ Len(g) \in Nat /\ Len(s) \in Nat
BY JoinIs, LenIs DEF Join

LEMMA FreadInv ==
  ASSUME BufferInv, FreadTurn
  PROVE  BufferInv'
<1> DEFINE got == call.got
           gl == Len(got)
           w == call.want
           left == w - gl
           ul == Len(fp.unread)
           k == Least(ul, left)
<1>1. /\ BufRight(fp) /\ CallRight /\ call.op = "fread" /\ got \in Seq(Cell) /\ gl \in Nat /\ w \in Nat /\ gl <= w
      /\ fp.unread \in Seq(Cell) /\ ul \in Nat
  <2>1. BufRight(fp) /\ CallRight /\ call.op = "fread"
    BY DEF BufferInv, FreadTurn
  <2>2. fp.unread \in Seq(Cell) /\ ul \in Nat
    BY <2>1, RightIs
  <2>3. got \in Seq(Cell) /\ w \in Nat /\ gl <= w
    BY <2>1 DEF CallRight
  <2> QED BY <2>1, <2>2, <2>3, LenIs
<1>2. \/ left = 0 /\ End(fp, "get", got)
      \/ left # 0 /\ k > 0 /\ Turn(Take(fp, k), got \o SubSeq(fp.unread, 1, k), 0)
      \/ left # 0 /\ \E o \in Fill(fp, left) :
            IF o.s = <<>> THEN End(o.p, "get", got) ELSE Turn(o.p, got \o o.s, 0)
  BY DEF FreadTurn
<1>3. left \in Nat /\ (left # 0 => left >= 1)
  <2>1. left = w - gl
    OBVIOUS
  <2> HIDE DEF left, w, gl
  <2> QED BY <1>1, <2>1, SMT
<1>4. CASE left = 0 /\ End(fp, "get", got)
  BY <1>1, <1>4, EndIs
<1>5. CASE left # 0 /\ k > 0 /\ Turn(Take(fp, k), got \o SubSeq(fp.unread, 1, k), 0)
  <2>0. k \in Int /\ k <= ul /\ k <= left
    <3> HIDE DEF ul, left
    <3>1. ul \in Int /\ left \in Int
      BY <1>1, <1>3, SMT
    <3> QED BY <3>1, LeastIs
  <2>1. k \in 0..Len(fp.unread) /\ gl + k <= w
    <3>1. left = w - gl
      OBVIOUS
    <3> HIDE DEF ul, left, k, w, gl
    <3>2. k \in 0..ul /\ gl + k <= w
      BY <1>1, <1>5, <2>0, <3>1, SMT
    <3> QED BY <3>2 DEF ul
  <2> DEFINE s == got \o SubSeq(fp.unread, 1, k)
             p == Take(fp, k)
  <2>2. s \in Seq(Cell) /\ Len(s) = gl + k
    BY <1>1, <2>1, MoreIs
  <2>3. BufRight(p)
    BY <1>1, <2>1, TakeIs
  <2>4. Turn(p, s, 0)
    BY <1>5
  <2>5. 0 \in Nat /\ call.op # "none" /\ call.op # "fgets" /\ call.op # "getdelim" /\ Len(s) <= call.want
    BY <1>1, <2>1, <2>2
  <2> HIDE DEF s, p
  <2> QED BY <1>1, <2>2, <2>3, <2>4, <2>5, TurnIs
<1>6. CASE left # 0 /\ \E o \in Fill(fp, left) :
            IF o.s = <<>> THEN End(o.p, "get", got) ELSE Turn(o.p, got \o o.s, 0)
  <2>1. PICK o \in Fill(fp, left) : IF o.s = <<>> THEN End(o.p, "get", got) ELSE Turn(o.p, got \o o.s, 0)
    BY <1>6
  <2>2. BufRight(o.p) /\ o.s \in Seq(Cell) /\ (o.s # <<>> => Len(o.s) <= left)
    <3> HIDE DEF left
    <3> QED BY <1>1, <1>3, <1>6, FillIs
  <2>3. CASE o.s = <<>>
    BY <2>1, <2>2, <2>3, EndIs
  <2>4. CASE o.s # <<>>
    <3> DEFINE s == got \o o.s
               sl == Len(s)
               ol == Len(o.s)
    <3>1. s \in Seq(Cell) /\ sl = gl + ol /\ ol \in Nat
      BY <1>1, <2>2, GotIs
    <3>2. Turn(o.p, s, 0)
      BY <2>1, <2>4
    <3>3. ol <= left /\ left = w - gl
      BY <2>2, <2>4
    <3> HIDE DEF s
    <3>4. sl <= w
      <4> HIDE DEF sl, ol, w, gl, left
      <4> QED BY <1>1, <3>1, <3>3, SMT
    <3>5. 0 \in Nat /\ call.op # "none" /\ call.op # "fgets" /\ call.op # "getdelim" /\ Len(s) <= call.want
      BY <1>1, <3>4
    <3> QED BY <1>1, <2>2, <3>1, <3>2, <3>5, TurnIs
  <2> QED BY <2>3, <2>4
<1> QED BY <1>2, <1>4, <1>5, <1>6

LEMMA FgetsInv ==
  ASSUME BufferInv, FgetsTurn
  PROVE  BufferInv'
<1> DEFINE got == call.got
           gl == Len(got)
           w == call.want
           left == w - gl
           nl == ToNL(fp.unread)
           k == Least(nl, left)
           p == Take(fp, k)
           s == got \o SubSeq(fp.unread, 1, k)
           sl == Len(s)
           ul == Len(fp.unread)
<1>1. /\ BufRight(fp) /\ CallRight /\ call.op = "fgets" /\ got \in Seq(Cell) /\ gl \in Nat /\ w \in Nat /\ gl < w
      /\ fp.unread \in Seq(Cell) /\ ul \in Nat
  <2>1. BufRight(fp) /\ CallRight /\ call.op = "fgets"
    BY DEF BufferInv, FgetsTurn
  <2>2. fp.unread \in Seq(Cell) /\ ul \in Nat
    BY <2>1, RightIs
  <2>3. got \in Seq(Cell) /\ w \in Nat /\ gl < w
    BY <2>1 DEF CallRight
  <2> QED BY <2>1, <2>2, <2>3, LenIs
<1>2. \/ End(p, "line", s)
      \/ ~(k > 0 /\ k = left) /\ \E o \in Getc(p) :
            LET t == s \o o.s
            IN IF o.s = <<>> THEN End(o.p, "line", IF o.p.eof THEN t ELSE <<>>)
               ELSE IF o.s = <<NL>> \/ Len(t) = w THEN End(o.p, "line", t)
               ELSE Turn(o.p, t, 0)
  BY DEF FgetsTurn
<1>3. k \in 0..ul /\ left >= 1 /\ k <= left /\ left \in Nat
  <2>1. nl \in 0..ul
    BY <1>1, ToNLIs
  <2>2. left = w - gl /\ k = Least(nl, left)
    OBVIOUS
  <2> HIDE DEF left, w, gl, nl, ul, k
  <2> QED BY <1>1, <2>1, <2>2, SMT DEF Least
<1>4. s \in Seq(Cell) /\ sl = gl + k
  BY <1>1, <1>3, MoreIs
<1>5. BufRight(p)
  BY <1>1, <1>3, TakeIs
<1>6. CASE End(p, "line", s)
  <2> HIDE DEF p, s
  <2> QED BY <1>5, <1>6, EndIs
<1>7. CASE ~(k > 0 /\ k = left) /\ \E o \in Getc(p) :
            LET t == s \o o.s
            IN IF o.s = <<>> THEN End(o.p, "line", IF o.p.eof THEN t ELSE <<>>)
               ELSE IF o.s = <<NL>> \/ Len(t) = w THEN End(o.p, "line", t)
               ELSE Turn(o.p, t, 0)
  <2> HIDE DEF p, s, k, left
  <2>1. PICK o \in Getc(p) :
            LET t == s \o o.s
            IN IF o.s = <<>> THEN End(o.p, "line", IF o.p.eof THEN t ELSE <<>>)
               ELSE IF o.s = <<NL>> \/ Len(t) = w THEN End(o.p, "line", t)
               ELSE Turn(o.p, t, 0)
    BY <1>7
  <2> DEFINE t == s \o o.s
             tl == Len(t)
             v == IF o.p.eof THEN t ELSE <<>>
             ol == Len(o.s)
  <2>2. BufRight(o.p) /\ (o.s = <<>> \/ (o.s \in Seq(Cell) /\ Len(o.s) = 1))
    BY <1>5, GetcIs
  <2>3. \/ End(o.p, "line", v)
        \/ End(o.p, "line", t)
        \/ o.s # <<>> /\ tl # w /\ Turn(o.p, t, 0)
    <3> HIDE DEF t, v
    <3> QED BY <2>1 DEF t, v
  <2> HIDE DEF v
  <2>4. CASE End(o.p, "line", v)
    BY <2>2, <2>4, EndIs
  <2>5. CASE End(o.p, "line", t)
    <3> HIDE DEF t
    <3> QED BY <2>2, <2>5, EndIs
  <2>6. CASE o.s # <<>> /\ tl # w /\ Turn(o.p, t, 0)
    <3>1. t \in Seq(Cell) /\ tl = sl + ol /\ ol = 1
      BY <1>4, <2>2, <2>6, GotIs
    <3>2. k < left /\ left = w - gl
      <4>1. left = w - gl
        BY DEF left
      <4>2. k \in Nat /\ k < left
        <5> HIDE DEF ul, w, gl
        <5> QED BY <1>1, <1>3, <1>7, SMT
      <4> QED BY <4>1, <4>2
    <3> HIDE DEF t
    <3>3. tl < w
      <4> HIDE DEF tl, sl, ol, w, gl, ul
      <4> QED BY <1>1, <1>3, <1>4, <2>6, <3>1, <3>2, SMT
    <3>4. 0 \in Nat /\ call.op # "none" /\ call.op # "fread" /\ call.op # "getdelim" /\ Len(t) < call.want
      BY <1>1, <3>3
    <3>5. Turn(o.p, t, 0)
      BY <2>6
    <3> QED BY <1>1, <2>2, <3>1, <3>4, <3>5, TurnIs
  <2> QED BY <2>3, <2>4, <2>5, <2>6
<1> QED BY <1>2, <1>6, <1>7

\* The size the storage gets has room for what is in it.
LEMMA SizesIs ==
  ASSUME NEW i \in Nat, NEW k \in Nat, NEW cap \in Nat, NEW z, NEW c \in Sizes(i, k, cap, z)
  PROVE  c \in Nat /\ i + k <= c
<1> DEFINE n == i + k + 2
           h == n \div 2
<1>1. n \in Nat /\ h \in Nat /\ i + k <= n
  BY SMT
<1>2. \/ i + k < cap /\ c = cap
      \/ c = n
      \/ c = n + h
  BY DEF Sizes
<1> HIDE DEF n, h
<1> QED BY <1>1, <1>2, SMT

LEMMA GetdelimInv ==
  ASSUME BufferInv, GetdelimTurn
  PROVE  BufferInv'
<1> DEFINE got == call.got
           i == Len(got)
           cap == call.cap
           k == ToNL(fp.unread)
           z == HasNL(fp.unread)
           p == Take(fp, k)
           s == got \o SubSeq(fp.unread, 1, k)
           sl == Len(s)
           ul == Len(fp.unread)
           short == cap - i
<1>1. /\ BufRight(fp) /\ CallRight /\ call.op = "getdelim" /\ got \in Seq(Cell) /\ i \in Nat /\ cap \in Nat /\ i <= cap
      /\ fp.unread \in Seq(Cell) /\ ul \in Nat
  <2>1. BufRight(fp) /\ CallRight /\ call.op = "getdelim"
    BY DEF BufferInv, GetdelimTurn
  <2>2. fp.unread \in Seq(Cell) /\ ul \in Nat
    BY <2>1, RightIs
  <2>3. got \in Seq(Cell) /\ cap \in Nat /\ i <= cap
    BY <2>1 DEF CallRight
  <2> QED BY <2>1, <2>2, <2>3, LenIs
<1>2. k \in 0..ul /\ (~z => k = ul) /\ k \in Nat
  <2>1. k \in 0..ul /\ (~z => k = ul)
    BY <1>1, ToNLIs
  <2> HIDE DEF ul, k
  <2> QED BY <1>1, <2>1, SMT
<1>3. \/ i + k >= cap /\ End([Take(fp, short) EXCEPT !.err = TRUE], "line", <<>>)
      \/ z /\ End(p, "line", s)
      \/ ~z /\ \E c \in Sizes(i, k, cap, z) : \E o \in Getc(p) :
            IF o.s = <<>> THEN End(o.p, "line", IF o.p.eof THEN s ELSE <<>>)
            ELSE IF Len(s) + 1 >= c
            THEN Turn([o.p EXCEPT !.unread = o.s \o @, !.rpos = @ - 1], s, c)
            ELSE IF o.s = <<NL>> THEN End(o.p, "line", s \o o.s)
            ELSE Turn(o.p, s \o o.s, c)
  BY DEF GetdelimTurn
<1>4. s \in Seq(Cell) /\ sl = i + k
  BY <1>1, <1>2, MoreIs
<1>5. BufRight(p) /\ Len(p.unread) = ul - k /\ p.unread \in Seq(Cell)
  <2>1. BufRight(p) /\ Len(p.unread) = ul - k
    BY <1>1, <1>2, TakeIs
  <2> QED BY <2>1, RightIs
<1>6. CASE i + k >= cap /\ End([Take(fp, short) EXCEPT !.err = TRUE], "line", <<>>)
  <2>1. short \in 0..Len(fp.unread)
    <3>1. short = cap - i
      OBVIOUS
    <3> HIDE DEF short, cap, i, k, ul
    <3>2. short \in 0..ul
      BY <1>1, <1>2, <1>6, <3>1, SMT
    <3> QED BY <3>2 DEF ul
  <2> DEFINE q == Take(fp, short)
  <2>2. BufRight(q)
    BY <1>1, <2>1, TakeIs
  <2> HIDE DEF q
  <2>3. BufRight([q EXCEPT !.err = TRUE])
    BY <2>2, RefusedIs
  <2> DEFINE v == [q EXCEPT !.err = TRUE]
             e == <<>>
  <2>4. End(v, "line", e)
    BY <1>6 DEF q
  <2> HIDE DEF v, e
  <2> QED BY <2>3, <2>4, EndIs DEF v
<1>7. CASE z /\ End(p, "line", s)
  <2> HIDE DEF p, s
  <2> QED BY <1>5, <1>7, EndIs
<1>8. CASE ~z /\ \E c \in Sizes(i, k, cap, z) : \E o \in Getc(p) :
            IF o.s = <<>> THEN End(o.p, "line", IF o.p.eof THEN s ELSE <<>>)
            ELSE IF Len(s) + 1 >= c
            THEN Turn([o.p EXCEPT !.unread = o.s \o @, !.rpos = @ - 1], s, c)
            ELSE IF o.s = <<NL>> THEN End(o.p, "line", s \o o.s)
            ELSE Turn(o.p, s \o o.s, c)
  <2>0. p.unread = <<>>
    <3> DEFINE pl == Len(p.unread)
    <3>1. pl = ul - k /\ k = ul
      BY <1>2, <1>5, <1>8
    <3> HIDE DEF pl, ul, k
    <3>2. pl = 0
      BY <1>1, <3>1, SMT
    <3> QED BY <1>5, <3>2, EmptyIs DEF pl
  <2> HIDE DEF p, s
  <2>1. PICK c \in Sizes(i, k, cap, z), o \in Getc(p) :
            IF o.s = <<>> THEN End(o.p, "line", IF o.p.eof THEN s ELSE <<>>)
            ELSE IF Len(s) + 1 >= c
            THEN Turn([o.p EXCEPT !.unread = o.s \o @, !.rpos = @ - 1], s, c)
            ELSE IF o.s = <<NL>> THEN End(o.p, "line", s \o o.s)
            ELSE Turn(o.p, s \o o.s, c)
    BY <1>8
  <2>2. c \in Nat /\ i + k <= c
    <3> HIDE DEF i, k, cap, z
    <3> QED BY <1>1, <1>2, SizesIs
  <2> DEFINE t == s \o o.s
             tl == Len(t)
             v == IF o.p.eof THEN s ELSE <<>>
             q == o.p
             b == [q EXCEPT !.unread = o.s \o @, !.rpos = @ - 1]
             ol == Len(o.s)
  <2>3. /\ BufRight(q) /\ (o.s = <<>> \/ (o.s \in Seq(Cell) /\ ol = 1))
        /\ o.s # <<>> => q.act = "read" /\ q.pushed = 0 /\ q.rpos >= 0
    BY <1>5, <2>0, GetcIs
  <2>4. \/ End(q, "line", v)
        \/ End(q, "line", t)
        \/ o.s # <<>> /\ Turn(b, s, c)
        \/ o.s # <<>> /\ ~(sl + 1 >= c) /\ Turn(q, t, c)
    <3> HIDE DEF t, v, b
    <3> QED BY <2>1 DEF t, v, b
  <2>5. /\ call.op # "none" /\ call.op # "fread" /\ call.op # "fgets"
    BY <1>1
  <2> HIDE DEF v, t
  <2>6. CASE End(q, "line", v)
    BY <2>3, <2>6, EndIs
  <2>7. CASE End(q, "line", t)
    BY <2>3, <2>7, EndIs
  <2>8. CASE o.s # <<>> /\ Turn(b, s, c)
    <3>1. /\ q \in FileType /\ q.pushed \in Nat /\ q.eof \in BOOLEAN /\ q.rpos \in Int /\ UNGET \in Nat \ {0}
          /\ q.pushed <= Len(q.unread) /\ Len(q.unread) \in Nat
      BY <2>3, RightIs, FileBufferAssumption
    <3> DEFINE r == q.rpos
               g == q.pushed
               e == q.eof
               l == Len(q.unread)
               d == o.s
    <3>2. r > -UNGET /\ g <= l + 1
      <4>1. r \in Int /\ r >= 0 /\ g \in Nat /\ l \in Nat /\ g <= l
        BY <2>3, <2>8, <3>1
      <4> HIDE DEF r, g, l
      <4> QED BY <3>1, <4>1, SMT
    <3>3. b = [q EXCEPT !.unread = d \o @, !.rpos = @ - 1, !.pushed = g, !.eof = e]
      BY <3>1 DEF FileType
    <3>4. /\ q.act = "read" /\ q.rpos > -UNGET /\ d \in Seq(Cell) /\ Len(d) = 1 /\ g \in Nat
          /\ g <= Len(q.unread) + 1 /\ e \in BOOLEAN
      BY <2>3, <2>8, <3>1, <3>2
    <3> HIDE DEF b, q, g, e, d
    <3> DEFINE m == [q EXCEPT !.unread = d \o @, !.rpos = @ - 1, !.pushed = g, !.eof = e]
    <3>5. BufRight(m)
      BY <2>3, <3>4, PushedBack
    <3>6. b = m
      BY <3>3
    <3> HIDE DEF m
    <3>7. BufRight(b) /\ Turn(b, s, c) /\ Len(s) <= c
      BY <1>4, <2>2, <2>8, <3>5, <3>6
    <3> QED BY <1>1, <1>4, <2>2, <2>5, <3>7, TurnIs
  <2>9. CASE o.s # <<>> /\ ~(sl + 1 >= c) /\ Turn(q, t, c)
    <3>1. t \in Seq(Cell) /\ tl = sl + ol /\ ol = 1 /\ sl \in Nat
      BY <1>4, <2>3, <2>9, GotIs DEF t
    <3>2. tl <= c
      <4> HIDE DEF tl, sl, ol
      <4> QED BY <2>2, <2>9, <3>1, SMT
    <3>3. Turn(q, t, c) /\ Len(t) <= c
      BY <2>9, <3>2
    <3> HIDE DEF q
    <3> QED BY <1>1, <2>2, <2>3, <2>5, <3>1, <3>3, TurnIs
  <2> QED BY <2>4, <2>6, <2>7, <2>8, <2>9
<1> QED BY <1>3, <1>6, <1>7, <1>8

LEMMA UngetcInv ==
  ASSUME BufferInv, ungetc
  PROVE  BufferInv'
<1>1. PICK c \in Byte : \E o \in Ungetc(fp, c) : fp' = o.p /\ Returns("unget", <<c>>, o.n) /\ UNCHANGED call
  BY DEF ungetc
<1>2. PICK o \in Ungetc(fp, c) : fp' = o.p /\ Returns("unget", <<c>>, o.n) /\ UNCHANGED call
  BY <1>1
<1>3. Idle /\ BufRight(fp) /\ c \in Cell
  BY DEF ungetc, BufferInv, Cell
<1>4. BufRight(o.p)
  BY <1>2, <1>3, UngetcIs
<1>5. ret'.op # "open"
  BY <1>2 DEF Returns
<1> QED BY <1>2, <1>3, <1>4, <1>5, AtOnce

LEMMA FseekInv ==
  ASSUME BufferInv, fseek
  PROVE  BufferInv'
<1>1. PICK w \in Seeks : \E r \in FseekFrom(fp, w[1], w[2]) :
         Reachable(r.p) /\ fp' = r.p /\ Returns("seek", w, r.n) /\ UNCHANGED call
  BY DEF fseek
<1>2. PICK r \in FseekFrom(fp, w[1], w[2]) :
         Reachable(r.p) /\ fp' = r.p /\ Returns("seek", w, r.n) /\ UNCHANGED call
  BY <1>1
<1>3. w[1] \in {"SET", "CUR", "END"} /\ w[2] \in Int
  BY DEF Seeks
<1>4. Idle /\ BufRight(fp)
  BY DEF fseek, BufferInv
<1>5. BufRight(r.p)
  BY <1>2, <1>3, <1>4, FseekIs
<1>6. ret'.op # "open"
  BY <1>2 DEF Returns
<1> QED BY <1>2, <1>4, <1>5, <1>6, AtOnce

\* The two flags are set to what they are to be.
LEMMA FlagsIs ==
  ASSUME NEW p, BufRight(p), NEW e \in BOOLEAN, NEW x \in BOOLEAN
  PROVE  BufRight([p EXCEPT !.eof = e, !.err = x])
<1> DEFINE q == [p EXCEPT !.eof = e, !.err = x]
<1>1. /\ DeviceSound(p) /\ p \in FileType /\ p.unread \in Seq(Cell) /\ p.held \in Seq(Cell) /\ p.act \in Acts
      /\ p.rpos \in Int /\ p.pushed \in Nat
  BY RightIs
<1>2. q = Turned(p, p.act, p.rpos, p.unread, p.pushed, p.held, e, x)
  BY <1>1 DEF Turned, FileType
<1> HIDE DEF q
<1>3. TurnedTo(p, q, p.act, p.rpos, p.unread, p.pushed, p.held, e, x)
  <2>1. /\ DeviceSound(p) /\ p.unread \in Seq(Cell) /\ p.held \in Seq(Cell) /\ p.act \in Acts
        /\ p.rpos \in Int /\ p.pushed \in Nat
    BY <1>1
  <2> QED BY <1>2, <2>1, TurnedIs
<1>4. InBuffer(p, p.act, p.rpos, p.unread, p.pushed, p.held)
  BY DEF BufRight
<1> QED BY <1>3, <1>4, TurnedRight DEF q

LEMMA RewindInv ==
  ASSUME BufferInv, rewind
  PROVE  BufferInv'
<1>1. PICK r \in FseekFrom(fp, "SET", 0) :
         fp' = [r.p EXCEPT !.err = FALSE] /\ Returns("rewind", <<>>, r.n) /\ UNCHANGED call
  BY DEF rewind
<1>2. Idle /\ BufRight(fp)
  BY DEF rewind, BufferInv
<1>3. BufRight(r.p)
  <2>1. "SET" \in {"SET", "CUR", "END"} /\ 0 \in Int
    OBVIOUS
  <2> QED BY <1>2, <2>1, FseekIs
<1> DEFINE p == r.p
           e == p.eof
           x == FALSE
<1>4. p \in FileType /\ e \in BOOLEAN /\ x \in BOOLEAN
  BY <1>3, RightIs
<1>5. fp' = [p EXCEPT !.eof = e, !.err = x]
  BY <1>1, <1>4 DEF FileType
<1> DEFINE q == [p EXCEPT !.eof = e, !.err = x]
<1>6. BufRight(q)
  <2> HIDE DEF p, e, x
  <2> QED BY <1>3, <1>4, FlagsIs DEF p
<1>7. ret'.op # "open"
  BY <1>1 DEF Returns
<1> HIDE DEF q
<1> QED BY <1>1, <1>2, <1>5, <1>6, <1>7, AtOnce DEF q

LEMMA FtellInv ==
  ASSUME BufferInv, ftell
  PROVE  BufferInv'
<1> DEFINE b == fp.dev = "fd" /\ fp.app /\ fp.held # <<>>
           f == fp.off
           fl == Len(fp.file)
           t == IF b THEN fl ELSE f
<1>1. PICK k \in SeekOp(fp, t) : fp' = k.p /\ UNCHANGED call /\ ret'.op # "open"
  <2>1. PICK k \in SeekOp(fp, t) :
          /\ fp' = k.p
          /\ Returns("tell", <<>>, IF k.n < 0 THEN -1
                             ELSE IF fp.act = "read" THEN k.n - Len(fp.unread)
                             ELSE k.n + Len(fp.held))
    BY DEF ftell
  <2>2. ret'.op # "open"
    BY <2>1 DEF Returns
  <2> QED BY <2>1, <2>2 DEF ftell
<1>2. Idle /\ BufRight(fp) /\ DeviceSound(fp) /\ fp \in FileType
  BY RightIs DEF ftell, BufferInv
<1>3. /\ t \in Nat /\ t \in Int /\ t <= MaxContent /\ (fp.dev # "grow" => t <= fl)
  <2>1. f \in Nat /\ fl \in Nat /\ f <= MaxContent /\ fl <= MaxContent /\ (fp.dev # "grow" => f <= fl)
    BY <1>2, Types, LenIs DEF DeviceSound
  <2> HIDE DEF b, f, fl
  <2> QED BY <2>1, SMT
<1>4. fp.app => b \/ t = f
  OBVIOUS
<1>5. ~fp.app => t = f
  OBVIOUS
<1> HIDE DEF b, t
<1>6. CASE k.p = fp
  BY <1>1, <1>2, <1>6, AtOnce
<1>7. CASE t >= 0 /\ k.p = [fp EXCEPT !.off = t]
  <2> DEFINE q == [fp EXCEPT !.off = t]
  <2>1. /\ DeviceSound(q) /\ Same(fp, q) /\ SameUnread(fp, q) /\ SameHeld(fp, q) /\ q.lbf = fp.lbf
        /\ At(q) = IF fp.app THEN At(fp) ELSE t
    BY <1>2, <1>3, SoughtIs DEF fl
  <2>2. At(q) = At(fp)
    BY <1>5, <2>1 DEF At, f
  <2> HIDE DEF q
  <2>3. InBuffer(fp, fp.act, fp.rpos, fp.unread, fp.pushed, fp.held)
    BY <1>2 DEF BufRight
  <2>4. InBuffer(q, q.act, q.rpos, q.unread, q.pushed, q.held)
    BY <2>1, <2>2, <2>3 DEF InBuffer, Same, SameUnread, SameHeld
  <2>5. BufRight(q) /\ fp' = q
    BY <1>1, <1>7, <2>1, <2>4 DEF BufRight, q
  <2> QED BY <1>1, <1>2, <2>5, AtOnce
<1>8. k.p = fp \/ (t >= 0 /\ k.p = [fp EXCEPT !.off = t])
  BY <1>2, <1>3, SeekOpIs
<1> QED BY <1>6, <1>7, <1>8

LEMMA FflushInv ==
  ASSUME BufferInv, fflush
  PROVE  BufferInv'
<1>1. PICK o \in FflushUnlocked(fp) : fp' = o.p /\ Returns("flush", <<>>, o.n) /\ UNCHANGED call
  BY DEF fflush
<1>2. Idle /\ BufRight(fp)
  BY DEF fflush, BufferInv
<1>3. BufRight(o.p)
  BY <1>2, FflushIs
<1>4. ret'.op # "open"
  BY <1>1 DEF Returns
<1> QED BY <1>1, <1>2, <1>3, <1>4, AtOnce

LEMMA ClearerrInv ==
  ASSUME BufferInv, clearerr
  PROVE  BufferInv'
<1>1. /\ fp' = [fp EXCEPT !.eof = FALSE, !.err = FALSE] /\ UNCHANGED call /\ Idle /\ BufRight(fp)
      /\ ret'.op # "open"
  BY DEF clearerr, Returns, BufferInv
<1>2. BufRight([fp EXCEPT !.eof = FALSE, !.err = FALSE])
  <2> DEFINE e == FALSE
  <2>1. e \in BOOLEAN
    OBVIOUS
  <2> HIDE DEF e
  <2>2. BufRight([fp EXCEPT !.eof = e, !.err = e])
    BY <1>1, <2>1, FlagsIs
  <2> QED BY <2>2 DEF e
<1> DEFINE q == [fp EXCEPT !.eof = FALSE, !.err = FALSE]
<1>3. fp' = q /\ BufRight(q)
  BY <1>1, <1>2
<1> HIDE DEF q
<1> QED BY <1>1, <1>3, AtOnce

LEMMA SetvbufInv ==
  ASSUME BufferInv, setvbuf
  PROVE  BufferInv'
<1>1. PICK mode \in {"NBF", "LBF", "FBF"} :
         fp' = [fp EXCEPT !.svb = TRUE, !.size = IF mode = "NBF" THEN 0 ELSE @,
                          !.lbf = mode = "LBF" /\ fp.size > 0]
  BY DEF setvbuf
<1>2. Idle /\ ret.op = "open" /\ UNCHANGED <<call, ret>> /\ BufRight(fp) /\ fp.act = "none" /\ CallRight
  BY DEF setvbuf, BufferInv, Fresh
<1>3. /\ DeviceSound(fp) /\ fp \in FileType /\ fp.size \in Nat /\ fp.unread = <<>> /\ fp.held = <<>>
      /\ fp.pushed <= Len(fp.unread)
  BY <1>2, RightIs
<1> DEFINE z == IF mode = "NBF" THEN 0 ELSE fp.size
           b == mode = "LBF" /\ fp.size > 0
           v == TRUE
           q == [fp EXCEPT !.svb = v, !.size = z, !.lbf = b]
<1>4. fp' = q
  BY <1>1, <1>3 DEF FileType
<1>5. z \in Nat /\ b \in BOOLEAN /\ v \in BOOLEAN
  BY <1>3
<1> HIDE DEF z, b, v
<1>6. q \in FileType
  BY <1>3, <1>5 DEF FileType
<1>7. /\ q.rd = fp.rd /\ q.app = fp.app /\ q.dev = fp.dev /\ q.cap = fp.cap
      /\ q.file = fp.file /\ q.tail = fp.tail /\ q.off = fp.off /\ q.told = fp.told
      /\ q.act = fp.act /\ q.unread = fp.unread /\ q.held = fp.held /\ q.pushed = fp.pushed
  BY <1>3, <1>5 DEF FileType
<1> HIDE DEF q
<1>8. DeviceSound(q)
  BY <1>3, <1>6, <1>7 DEF DeviceSound
<1>9. InBuffer(q, "none", 0, <<>>, 0, <<>>)
  BY <1>8, Values, NothingIn
<1>10. BufRight(q)
  BY <1>2, <1>3, <1>7, <1>8, <1>9 DEF BufRight, InBuffer
<1>11. Fresh' /\ CallRight'
  BY <1>2, <1>4, <1>7 DEF Fresh, CallRight, Idle
<1> QED BY <1>4, <1>10, <1>11 DEF BufferInv

-----------------------------------------------------------------------------
(* The beginning.                                                          *)

LEMMA BehindIs ==
  ASSUME NEW o \in Opens, NEW s \in Seq(Cell)
  PROVE  /\ Behind(o, s) \in Seq(Cell)
         /\ Len(Behind(o, s)) = Most(0, o.cap - Len(s))
         /\ Len(Behind(o, s)) > 0 /\ o.app => Behind(o, s)[1] = Zero
<1> DEFINE c == o.cap
           l == Len(s)
           n == Most(0, c - l)
           F(i) == IF i = 1 /\ (o.rd \/ o.app) THEN Zero ELSE NL
           b == [i \in 1..n |-> F(i)]
<1>1. c \in Nat /\ l \in Nat
  BY FileBufferAssumption, LenIs
<1>2. n \in Nat
  <2> HIDE DEF c, l
  <2> QED BY <1>1, SMT DEF Most
<1>3. Behind(o, s) = b
  BY DEF Behind
<1>4. \A i \in 1..n : F(i) \in Cell
  BY FileBufferAssumption DEF Cell
<1>5. o.app => F(1) = Zero
  OBVIOUS
<1> HIDE DEF c, l, n, F
<1>6. b \in Seq(Cell) /\ Len(b) = n /\ \A i \in 1..n : b[i] = F(i)
  BY <1>2, <1>4, IsASeq, SMT
<1>7. n > 0 => 1 \in 1..n
  BY <1>2, SMT
<1> HIDE DEF b
<1>8. Len(b) > 0 /\ o.app => b[1] = Zero
  BY <1>5, <1>6, <1>7
<1> QED BY <1>3, <1>6, <1>8 DEF n, c, l

LEMMA OpenedIs ==
  ASSUME NEW o \in Opens, NEW s \in Contents(o)
  PROVE  BufRight(Opened(o, s)) /\ Opened(o, s).act = "none"
<1> DEFINE p == Opened(o, s)
           t == Behind(o, s)
           b == o.dev = "mem" /\ o.app
           l == Len(s)
           tl == Len(t)
           c == o.cap
           f == IF b THEN l ELSE 0
           m == MaxContent
<1>1. /\ o.rd \in BOOLEAN /\ o.wr \in BOOLEAN /\ o.app \in BOOLEAN /\ o.seekable \in BOOLEAN
      /\ o.tty \in BOOLEAN /\ o.probe \in BOOLEAN /\ o.lbf \in BOOLEAN /\ o.size \in Nat
      /\ o.faulty \in BOOLEAN /\ o.dev \in Devices /\ o.trunc \in BOOLEAN /\ o.cap \in Nat
      /\ o.dumb \in BOOLEAN
      /\ o.dev = "grow" => ~o.rd /\ o.trunc
      /\ o.app => o.dev \in {"fd", "mem"}
      /\ o.dev # "mem" => o.cap = 0
  BY FileBufferAssumption DEF Devices
<1>2. m \in Nat /\ m - 1 \in Nat /\ m - 1 < m
  BY FileBufferAssumption, SMT
<1>3. /\ s \in Strings(m - 1)
      /\ o.trunc => s = <<>>
      /\ o.dev = "mem" => l \in IF o.app \/ o.trunc THEN 0..c ELSE {c}
  BY DEF Contents
<1>4. s \in Seq(Cell) /\ l \in Nat /\ l <= m - 1
  BY <1>2, <1>3, StringIs
<1>5. /\ t \in Seq(Cell) /\ tl = Most(0, c - l)
      /\ tl > 0 /\ o.app => t[1] = Zero
  BY <1>4, BehindIs
<1>6. o.trunc => l = 0
  BY <1>3, <1>4, EmptyIs
<1>7. f \in Nat /\ f <= l
  <2> HIDE DEF b, l
  <2> QED BY <1>4, SMT
<1>8. p = [rd |-> o.rd, wr |-> o.wr, app |-> o.app, seekable |-> o.seekable, tty |-> o.tty,
           probe |-> o.probe, lbf |-> o.lbf, size |-> o.size, faulty |-> o.faulty, dev |-> o.dev,
           trunc |-> o.trunc, cap |-> o.cap, dumb |-> o.dumb,
           file |-> s, tail |-> t, off |-> f, told |-> 0, act |-> "none", rpos |-> 0,
           unread |-> <<>>, held |-> <<>>, pushed |-> 0, svb |-> FALSE, eof |-> FALSE,
           err |-> FALSE, lost |-> FALSE]
  BY DEF Opened
<1> HIDE DEF p, t, f
<1>9. p \in FileType
  BY <1>1, <1>4, <1>5, <1>7, <1>8, Values DEF FileType
<1>10. /\ p.rd = o.rd /\ p.app = o.app /\ p.dev = o.dev /\ p.cap = c /\ p.size = o.size /\ p.file = s
       /\ p.tail = t /\ p.off = f /\ p.told = 0 /\ p.act = "none" /\ p.unread = <<>>
       /\ p.held = <<>> /\ p.pushed = 0
  BY <1>8
<1>11. c \in Nat /\ tl \in Nat
  BY <1>1, <1>5, LenIs
<1>12. DeviceSound(p)
  <2>1. Len(p.file) <= MaxContent /\ p.off <= MaxContent /\ p.told <= Len(p.file) /\ p.off <= Len(p.file)
    <3>1. l <= m /\ f <= m /\ 0 <= l /\ f <= l
      <4> HIDE DEF l, m
      <4> QED BY <1>2, <1>4, <1>7, SMT
    <3> QED BY <1>10, <3>1
  <2>2. p.app => p.dev \in {"fd", "mem"}
    BY <1>1, <1>10
  <2>3. p.dev = "mem" => Len(p.file) + Len(p.tail) = p.cap
    <3> SUFFICES ASSUME o.dev = "mem" PROVE Len(p.file) + Len(p.tail) = p.cap
      BY <1>10
    <3>1. l <= c
      <4>1. l \in 0..c \/ l = c
        BY <1>3
      <4> HIDE DEF l, c
      <4> QED BY <1>4, <1>11, <4>1, SMT
    <3>2. l + tl = c
      <4>1. tl = Most(0, c - l)
        BY <1>5
      <4> HIDE DEF l, c, tl
      <4> QED BY <1>4, <1>11, <3>1, <4>1, SMT DEF Most
    <3> QED BY <1>10, <3>2
  <2>4. p.dev = "grow" => /\ ~p.rd
                          /\ p.told > 0 => p.told < Len(p.file) + Len(p.tail)
                          /\ \A i \in 1..Len(p.tail) : p.tail[i] = Zero
    <3> SUFFICES ASSUME o.dev = "grow"
                 PROVE  /\ ~p.rd
                        /\ p.told > 0 => p.told < Len(p.file) + Len(p.tail)
                        /\ \A i \in 1..Len(p.tail) : p.tail[i] = Zero
      BY <1>10
    <3>1. c = 0 /\ l = 0 /\ ~o.rd
      BY <1>1, <1>6
    <3>2. tl = 0
      <4>1. tl = Most(0, c - l)
        BY <1>5
      <4> HIDE DEF l, c, tl
      <4> QED BY <3>1, <4>1, SMT DEF Most
    <3>3. ~(p.told > 0)
      BY <1>10, SMT
    <3>4. 1..Len(p.tail) = {}
      <4>1. Len(p.tail) = 0
        BY <1>10, <3>2
      <4> QED BY <4>1, SMT
    <3> QED BY <1>10, <3>1, <3>3, <3>4
  <2>5. p.dev = "mem" /\ p.file # <<>> /\ p.tail # <<>> => p.tail[1] = Zero
    <3> SUFFICES ASSUME o.dev = "mem", s # <<>>, t # <<>> PROVE t[1] = Zero
      BY <1>10
    <3>1. l # 0 /\ tl # 0
      BY <1>4, <1>5, EmptyIs
    <3>2. ~o.trunc
      BY <1>6, <3>1
    <3>3. o.app
      <4> SUFFICES ASSUME ~o.app PROVE FALSE
        OBVIOUS
      <4>1. l = c
        BY <1>3, <3>2
      <4>2. tl = Most(0, c - l)
        BY <1>5
      <4> HIDE DEF l, c, tl
      <4>3. tl = 0
        BY <1>11, <4>1, <4>2, SMT DEF Most
      <4> QED BY <3>1, <4>3
    <3>4. tl > 0
      <4> HIDE DEF tl
      <4> QED BY <1>11, <3>1, SMT
    <3> QED BY <1>5, <3>3, <3>4
  <2> QED BY <1>9, <2>1, <2>2, <2>3, <2>4, <2>5 DEF DeviceSound
<1>13. InBuffer(p, "none", 0, <<>>, 0, <<>>)
  BY <1>12, Values, NothingIn
<1>14. p.rpos = 0
  BY <1>8
<1>15. BufRight(p)
  BY <1>10, <1>12, <1>13, <1>14 DEF BufRight
<1> QED BY <1>10, <1>15 DEF p

LEMMA BufferInvInit == Init => BufferInv
<1> SUFFICES ASSUME Init PROVE BufferInv
  OBVIOUS
<1>1. PICK o \in Opens : fp \in {Opened(o, s) : s \in Contents(o)}
  BY DEF Init
<1>2. PICK s \in Contents(o) : fp = Opened(o, s)
  BY <1>1
<1>3. BufRight(fp) /\ fp.act = "none"
  BY <1>2, OpenedIs
<1>4. call.op = "none"
  BY DEF Init, NoCall
<1> QED BY <1>3, <1>4 DEF BufferInv, CallRight, Fresh

LEMMA BufferInvNext == BufferInv /\ [Next]_vars => BufferInv'
<1> SUFFICES ASSUME BufferInv, [Next]_vars PROVE BufferInv'
  OBVIOUS
<1>1. CASE fputc
  BY <1>1, FputcInv
<1>2. CASE fwrite
  BY <1>2, FwriteInv
<1>3. CASE fgetc
  BY <1>3, FgetcInv
<1>4. CASE fread \/ fgets \/ getdelim
  BY <1>4, BeginInv
<1>5. CASE FreadTurn
  BY <1>5, FreadInv
<1>6. CASE FgetsTurn
  BY <1>6, FgetsInv
<1>7. CASE GetdelimTurn
  BY <1>7, GetdelimInv
<1>8. CASE ungetc
  BY <1>8, UngetcInv
<1>9. CASE fseek
  BY <1>9, FseekInv
<1>10. CASE rewind
  BY <1>10, RewindInv
<1>11. CASE ftell
  BY <1>11, FtellInv
<1>12. CASE fflush
  BY <1>12, FflushInv
<1>13. CASE setvbuf
  BY <1>13, SetvbufInv
<1>14. CASE clearerr
  BY <1>14, ClearerrInv
<1>15. CASE UNCHANGED vars
  BY <1>15 DEF vars, BufferInv, CallRight, Fresh, Idle
<1> QED BY <1>1, <1>2, <1>3, <1>4, <1>5, <1>6, <1>7, <1>8, <1>9, <1>10, <1>11, <1>12, <1>13, <1>14, <1>15
        DEF Next

\* The inductive invariant gives what the run checks.
LEMMA BufferInvSound == BufferInv => BufferSound
<1> SUFFICES ASSUME BufferInv PROVE BufferSound
  OBVIOUS
<1> DEFINE p == fp
<1>1. BufRight(p) /\ DeviceSound(p) /\ p \in FileType
  BY RightIs DEF BufferInv
<1>2. /\ p.file \in Seq(Cell) /\ p.tail \in Seq(Cell) /\ p.held \in Seq(Cell) /\ p.unread \in Seq(Cell)
      /\ p.off \in Nat /\ p.told \in Nat /\ p.pushed \in Nat /\ p.act \in Acts
      /\ Len(p.file) \in Nat /\ Len(p.tail) \in Nat /\ Len(p.unread) \in Nat /\ MaxContent \in Nat
  BY <1>1, Types, LenIs, FileBufferAssumption
<1>3. /\ p.act # "read" => p.unread = <<>>
      /\ p.act # "write" => p.held = <<>>
      /\ p.act = "read" => p.rpos >= -UNGET /\ p.rpos + Len(p.unread) <= p.size
      /\ Len(p.held) <= p.size
      /\ p.lbf => ~HasNL(p.held)
      /\ p.pushed <= Len(p.unread)
  BY <1>1 DEF BufRight, InBuffer
<1>4. WithinBuffer /\ LinesGoOut
  BY <1>3 DEF WithinBuffer, LinesGoOut
<1>5. TypeOK
  <2>1. Len(p.file) <= MaxContent /\ p.off \in 0..MaxContent /\ p.told \in 0..Len(p.file)
        /\ p.pushed \in 0..Len(p.unread)
    <3> DEFINE fl == Len(p.file)
               ul == Len(p.unread)
               f == p.off
               d == p.told
               g == p.pushed
    <3>1. fl <= MaxContent /\ f <= MaxContent /\ d <= fl /\ g <= ul
      BY <1>1, <1>3 DEF DeviceSound
    <3>2. fl \in Nat /\ ul \in Nat /\ f \in Nat /\ d \in Nat /\ g \in Nat
      BY <1>2
    <3> HIDE DEF fl, ul, f, d, g
    <3>3. fl <= MaxContent /\ f \in 0..MaxContent /\ d \in 0..fl /\ g \in 0..ul
      BY <1>2, <3>1, <3>2, SMT
    <3> QED BY <3>3 DEF fl, ul, f, d, g
  <2>2. ASSUME NEW s \in {p.file, p.tail, p.held, p.unread}, NEW i \in 1..Len(s)
        PROVE  s[i] \in Byte \cup {Zero}
    <3>1. s \in Seq(Cell)
      BY <1>2
    <3> QED BY <3>1, ElementOfSeq DEF Cell
  <2>3. \A b \in {p.svb, p.eof, p.err, p.lost, p.lbf, p.probe} : b \in BOOLEAN
    BY <1>1 DEF FileType
  <2>4. call.op \in {"none", "fread", "fgets", "getdelim"}
    BY DEF BufferInv, CallRight
  <2> QED BY <1>2, <2>1, <2>2, <2>3, <2>4 DEF TypeOK, Acts
<1>6. MemorySound
  <2>1. Array(p) \in Seq(Cell) /\ Len(Array(p)) = Len(p.file) + Len(p.tail)
    BY <1>1, ArrayIs
  <2>2. p.dev = "mem" => Len(Array(p)) = p.cap /\ p.off <= p.cap
    <3> SUFFICES ASSUME p.dev = "mem" PROVE Len(Array(p)) = p.cap /\ p.off <= p.cap
      OBVIOUS
    <3> DEFINE fl == Len(p.file)
               tl == Len(p.tail)
               c == p.cap
               f == p.off
    <3>1. fl \in Nat /\ tl \in Nat /\ f \in Nat /\ f <= fl /\ fl + tl = c
      BY <1>1, <1>2 DEF DeviceSound
    <3> HIDE DEF fl, tl, c, f
    <3>2. f <= c
      BY <3>1, SMT
    <3> QED BY <2>1, <3>1, <3>2 DEF fl, tl, c, f
  <2>3. p.dev = "grow" /\ p.told > 0 => p.told < Len(Array(p))
    BY <1>1, <2>1 DEF DeviceSound
  <2>4. p.dev \in {"mem", "grow"} /\ p.file # <<>> /\ p.tail # <<>> => Head(p.tail) = Zero
    <3> SUFFICES ASSUME p.dev \in {"mem", "grow"}, p.file # <<>>, p.tail # <<>> PROVE Head(p.tail) = Zero
      OBVIOUS
    <3> DEFINE tl == Len(p.tail)
    <3>1. tl \in Nat /\ tl # 0
      BY <1>2, EmptyIs
    <3> HIDE DEF tl
    <3>2. 1 \in 1..tl
      BY <3>1, SMT
    <3>3. p.tail[1] = Zero
      BY <1>1, <3>2 DEF DeviceSound, tl
    <3> QED BY <1>2, <3>3, HeadTailProperties
  <2> QED BY <2>2, <2>3, <2>4 DEF MemorySound
<1> QED BY <1>4, <1>5, <1>6 DEF BufferSound

\* For all ways a stream may be opened, and any bytes: the two uses of the
\* buffer never overlap and neither leaves it, a complete line never waits in
\* a line-buffered stream, fmemopen's array keeps its size, and what
\* open_memstream tells its creator is followed by a byte of the array.
THEOREM BufferIsSound == Spec => []BufferSound
<1>1. Init => BufferInv
  BY BufferInvInit
<1>2. BufferInv /\ [Next]_vars => BufferInv'
  BY BufferInvNext
<1>3. BufferInv => BufferSound
  BY BufferInvSound
<1> QED BY <1>1, <1>2, <1>3, PTL DEF Spec

-----------------------------------------------------------------------------
(* What a flush leaves in the file.                                        *)

\* Memory of a fixed size takes a content up to where it ends; only the last
\* byte of a full array may be another.
LEMMA MemPutFront ==
  ASSUME NEW p, DeviceSound(p), p.dev = "mem",
         NEW s \in Seq(Cell), At(p) + Len(s) <= MaxContent
  PROVE  LET o == MemPut(p, s)
             f == o.p.file
         IN /\ f \in Seq(Cell) /\ Len(p.file) <= Len(f) /\ Len(f) <= p.cap
            /\ \A i \in 1..Len(f) : i # p.cap => f[i] = Overlay(p.file, At(p), s)[i]
            /\ o.n < Len(s) \/ (o.p.lost /\ ~p.lost) => Len(f) = p.cap
<1> DEFINE o == MemPut(p, s)
           q == o.p
           n == o.n
           at == At(p)
           pf == p.file
           fl == Len(pf)
           f == q.file
           ql == Len(f)
           sl == Len(s)
           cap == p.cap
           t == SubSeq(s, 1, n)
           w == Overlay(pf, at, t)
           v == Overlay(pf, at, s)
<1>1. /\ DeviceSound(q) /\ Same(p, q)
      /\ n \in 0..sl
      /\ n < sl => at + n = cap
      /\ ql = Len(w) /\ (\A i \in 1..Len(w) : i # cap => f[i] = w[i])
      /\ q.lost /\ ~p.lost => ql = cap
  BY MemPutIs
<1> HIDE DEF o
<1>2. /\ pf \in Seq(Cell) /\ f \in Seq(Cell) /\ fl \in Nat /\ ql \in Nat /\ sl \in Nat /\ cap \in Nat
      /\ at \in 0..fl
  <2>1. p \in FileType /\ q \in FileType
    BY <1>1 DEF DeviceSound
  <2> QED BY <2>1, Types, LenIs, AtIs
<1>3. fl <= cap /\ ql <= cap
  <2> DEFINE tl == Len(p.tail)
             rl == Len(q.tail)
  <2>1. fl + tl = cap /\ ql + rl = cap
    <3>1. q.dev = "mem" /\ q.cap = p.cap
      BY <1>1 DEF Same
    <3> QED BY <1>1, <3>1 DEF DeviceSound
  <2>2. tl \in Nat /\ rl \in Nat
    <3>1. p \in FileType /\ q \in FileType
      BY <1>1 DEF DeviceSound
    <3> QED BY <3>1, Types, LenIs
  <2> HIDE DEF fl, tl, ql, rl, cap
  <2> QED BY <1>2, <2>1, <2>2, SMT
<1> HIDE DEF q, at, pf, f, n, cap
<1>4. t \in Seq(Cell) /\ Len(t) = n /\ n \in Nat /\ n <= sl /\ \A j \in 1..n : t[j] = s[j]
  <2>1. n \in Nat /\ n <= Len(s) /\ n <= sl /\ 1 \in Nat \ {0}
    BY <1>1, <1>2, SMT
  <2>2. /\ t \in Seq(Cell) /\ Len(t) = IF 1 <= n THEN n - 1 + 1 ELSE 0
        /\ \A j \in 1..(n - 1 + 1) : t[j] = s[1 + j - 1]
    BY <2>1, SubSeqIs
  <2> HIDE DEF t
  <2>3. Len(t) = n
    BY <2>1, <2>2, SMT
  <2>4. \A j \in 1..n : t[j] = s[j]
    BY <2>1, <2>2, SMT
  <2> QED BY <2>1, <2>2, <2>3, <2>4
<1>5. Len(w) = Most(fl, at + n)
  <2>1. pf \in Seq(Cell) /\ t \in Seq(Cell) /\ at \in 0..Len(pf)
    BY <1>2, <1>4
  <2>2. Len(t) = n
    BY <1>4
  <2> HIDE DEF t
  <2>3. Len(w) = Most(Len(pf), at + Len(t))
    BY <2>1, OverlayIs
  <2> QED BY <2>2, <2>3
<1>6. fl <= ql /\ (n < sl => ql = cap)
  <2> HIDE DEF fl, ql, sl, w
  <2>1. ql = Most(fl, at + n)
    BY <1>1, <1>5
  <2>2. at \in Int /\ n \in Int
    BY <1>2, <1>4, SMT
  <2> QED BY <1>1, <1>2, <1>3, <2>1, <2>2, SMT DEF Most
<1>7. ASSUME NEW i \in 1..ql, i # cap
      PROVE  f[i] = v[i]
  <2>1. i \in 1..Len(w)
    BY <1>1
  <2>2. f[i] = w[i]
    BY <1>1, <1>7, <2>1
  <2>3. w[i] = v[i]
    <3>1. CASE n = sl
      <4>1. t = s
        <5>1. SubSeq(s, 1, Len(s)) = s
          BY SubSeqFull
        <5> QED BY <3>1, <5>1
      <4> QED BY <4>1
    <3>2. CASE n # sl
      <4>1. at + n = cap /\ i <= at + n /\ i \in Nat \ {0} /\ i <= at + sl
        <5> HIDE DEF ql, sl
        <5>1. n < sl
          BY <1>2, <1>4, <3>2, SMT
        <5>2. at \in Int /\ i \in Int /\ 1 <= i /\ i <= ql
          BY <1>2, <1>7, SMT
        <5>3. at + n = cap
          BY <1>1, <5>1
        <5> QED BY <1>2, <1>3, <1>4, <5>1, <5>2, <5>3, SMT
      <4>2. CASE at < i
        <5> DEFINE j == i - at
        <5>1. j \in 1..n /\ j \in 1..sl /\ at + j = i
          BY <1>2, <1>4, <4>1, <4>2, SMT
        <5>2. j \in 1..Len(t) /\ j \in 1..Len(s)
          BY <1>4, <5>1
        <5>2a. pf \in Seq(Cell) /\ at \in 0..Len(pf) /\ t \in Seq(Cell)
          BY <1>2, <1>4
        <5> HIDE DEF j, t
        <5>3. w[at + j] = t[j]
          BY <5>2, <5>2a, OverlayIn
        <5>3a. v[at + j] = s[j]
          BY <5>2, <5>2a, OverlayIn
        <5>4. t[j] = s[j]
          BY <1>4, <5>1
        <5> QED BY <5>1, <5>3, <5>3a, <5>4
      <4>3. CASE ~(at < i)
        <5>1. i \in 1..Len(pf)
          BY <1>2, <4>1, <4>3, SMT DEF fl
        <5>2. ~(at < i /\ i <= at + Len(t)) /\ ~(at < i /\ i <= at + Len(s))
          BY <4>3
        <5> HIDE DEF t
        <5>3. w[i] = pf[i] /\ v[i] = pf[i]
          BY <1>2, <1>4, <5>1, <5>2, OverlayOut
        <5> QED BY <5>3
      <4> QED BY <4>2, <4>3
    <3> QED BY <3>1, <3>2
  <2> QED BY <2>2, <2>3
<1> QED BY <1>1, <1>2, <1>3, <1>6, <1>7 DEF o, q, n, at, pf, f, cap

\* A content, cut to an array of cap bytes.
CutTo(cap, f, c) == Len(f) = cap /\ \A i \in 1..(cap - 1) : f[i] = c[i]

LEMMA MemCut ==
  ASSUME NEW p, Fitting(p, <<>>), p.dev = "mem", NEW o \in MemWrite(p, <<>>), o.p.lost, ~p.lost
  PROVE  CutTo(p.cap, o.p.file, Overlay(p.file, At(p), p.held))
<1> DEFINE e == Emptied(p)
           c == p.held
           h == MemPut(e, c)
           hp == h.p
           z == <<>>
           r == MemPut(hp, z)
           rp == r.p
           v == Overlay(p.file, At(p), c)
           cap == p.cap
<1>1. /\ DeviceSound(p) /\ p \in FileType /\ c \in Seq(Cell) /\ z \in Seq(Cell) /\ Len(z) = 0
      /\ Len(c) \in Nat /\ At(p) + Len(c) + Len(z) <= MaxContent /\ At(p) \in Nat
      /\ MaxContent \in Nat
  BY AllIs, AtIs, EmptySeq, FileBufferAssumption DEF Fitting
<1>2. /\ DeviceSound(e) /\ Same(p, e) /\ At(e) = At(p) /\ e.lost = p.lost /\ e.file = p.file
  BY <1>1, EmptiedIs
<1>3. e.dev = "mem" /\ e.cap = cap /\ cap \in Nat
  BY <1>1, <1>2, Types DEF Same
<1>4. o = [p |-> Lost(hp, TRUE), n |-> 0] \/ o = [p |-> Lost(rp, r.n < Len(z)), n |-> r.n]
  BY DEF MemWrite, Emptied
<1>4a. (h.n < Len(c) /\ o.p = Lost(hp, TRUE)) \/ (~(h.n < Len(c)) /\ o.p = Lost(rp, r.n < Len(z)))
  <2> DEFINE x == Lost(hp, TRUE)
             y == Lost(rp, r.n < Len(z))
             b == h.n < Len(c)
             n == r.n
  <2>0. b \in BOOLEAN
    OBVIOUS
  <2>1. o \in IF b THEN {[p |-> x, n |-> 0]} ELSE {[p |-> y, n |-> n]}
    BY DEF MemWrite, Emptied
  <2> HIDE DEF x, y, n, b
  <2>2. (b /\ o.p = x) \/ (~b /\ o.p = y)
    <3>1. CASE b
      BY <2>1, <3>1
    <3>2. CASE ~b
      BY <2>1, <3>2
    <3> QED BY <2>0, <3>1, <3>2
  <2> QED BY <2>2 DEF x, y, b
<1>5. At(e) + Len(c) <= MaxContent
  <2> DEFINE a == At(p)
             l == Len(c)
             k == Len(z)
  <2>1. a \in Nat /\ l \in Nat /\ k = 0 /\ a + l + k <= MaxContent
    BY <1>1
  <2> HIDE DEF a, l, k
  <2>2. a + l <= MaxContent
    BY <1>1, <2>1, SMT
  <2> QED BY <1>2, <2>2 DEF a, l
<1> DEFINE hf == hp.file
<1>6. /\ DeviceSound(hp) /\ Same(e, hp)
      /\ h.n \in 0..Len(c) /\ At(hp) = At(e) + h.n
      /\ ~hp.lost => hf = Overlay(e.file, At(e), SubSeq(c, 1, h.n))
  <2> HIDE DEF e, c
  <2> QED BY <1>1, <1>2, <1>3, <1>5, MemPutIs
<1>7. /\ hf \in Seq(Cell) /\ Len(hf) <= cap
      /\ \A i \in 1..Len(hf) : i # cap => hf[i] = v[i]
      /\ h.n < Len(c) \/ (hp.lost /\ ~p.lost) => Len(hf) = cap
  <2>1. /\ hf \in Seq(Cell) /\ Len(hf) <= e.cap
        /\ \A i \in 1..Len(hf) : i # e.cap => hf[i] = Overlay(e.file, At(e), c)[i]
        /\ h.n < Len(c) \/ (hp.lost /\ ~e.lost) => Len(hf) = e.cap
    <3> HIDE DEF e, c
    <3> QED BY <1>1, <1>2, <1>3, <1>5, MemPutFront
  <2> HIDE DEF e, h
  <2> QED BY <1>2, <1>3, <2>1
<1>7a. ~hp.lost => hf = Overlay(p.file, At(p), SubSeq(c, 1, h.n))
  <2> HIDE DEF h, c, e
  <2> QED BY <1>2, <1>6
<1> HIDE DEF h, c, e
<1>7b. SubSeq(c, 1, Len(c)) = c
  BY <1>1, SubSeqFull
<1>7c. ~hp.lost /\ h.n = Len(c) => hf = v
  <2>1. ASSUME ~hp.lost, h.n = Len(c) PROVE hf = v
    <3>1. SubSeq(c, 1, h.n) = c
      BY <1>7b, <2>1
    <3> QED BY <1>7a, <2>1, <3>1
  <2> QED BY <2>1
<1> HIDE DEF v
<1>8. ASSUME NEW f, Len(f) = cap, \A i \in 1..Len(f) : i # cap => f[i] = v[i]
      PROVE  CutTo(cap, f, v)
  <2>1. \A i \in 1..(cap - 1) : i \in 1..Len(f) /\ i # cap
    BY <1>3, <1>8, SMT
  <2> QED BY <1>8, <2>1 DEF CutTo
<1> HIDE DEF cap
<1>9. CASE h.n < Len(c) /\ o.p = Lost(hp, TRUE)
  <2> DEFINE b == TRUE
  <2>1. b \in BOOLEAN /\ o.p = Lost(hp, b) /\ DeviceSound(hp)
    BY <1>6, <1>9
  <2> HIDE DEF b, hp
  <2>2. o.p.file = hp.file
    BY <2>1, LostIs
  <2>3. CutTo(cap, hf, v)
    BY <1>7, <1>8, <1>9 DEF hp
  <2> QED BY <2>2, <2>3 DEF cap, v, c
<1>10. CASE ~(h.n < Len(c)) /\ o.p = Lost(rp, r.n < Len(z))
  <2> DEFINE b == r.n < Len(z)
             rf == rp.file
  <2>1. hp.dev = "mem" /\ hp.cap = cap
    BY <1>3, <1>6 DEF Same
  <2>2. At(hp) + Len(z) <= MaxContent /\ At(hp) \in 0..Len(hf)
    <3>1. At(hp) <= MaxContent /\ At(hp) \in Nat /\ At(hp) \in 0..Len(hf)
      <4>1. hp.dev # "grow"
        BY <2>1
      <4> HIDE DEF hp
      <4> QED BY <1>6, <4>1, AtIs DEF hp
    <3> DEFINE a == At(hp)
    <3> HIDE DEF a
    <3>2. a + 0 = a
      BY <3>1, SMT DEF a
    <3> QED BY <1>1, <3>1, <3>2 DEF a
  <2>3. /\ DeviceSound(rp) /\ r.n \in 0..Len(z)
    <3> HIDE DEF hp, z
    <3> QED BY <1>1, <1>6, <2>1, <2>2, MemPutIs
  <2>4. /\ rf \in Seq(Cell) /\ Len(hf) <= Len(rf) /\ Len(rf) <= cap
        /\ \A i \in 1..Len(rf) : i # cap => rf[i] = Overlay(hf, At(hp), z)[i]
        /\ rp.lost /\ ~hp.lost => Len(rf) = cap
    <3> HIDE DEF hp, z
    <3>1. /\ rf \in Seq(Cell) /\ Len(hp.file) <= Len(rf) /\ Len(rf) <= hp.cap
          /\ \A i \in 1..Len(rf) : i # hp.cap => rf[i] = Overlay(hp.file, At(hp), z)[i]
          /\ r.n < Len(z) \/ (rp.lost /\ ~hp.lost) => Len(rf) = hp.cap
      BY <1>1, <1>6, <2>1, <2>2, MemPutFront
    <3> QED BY <2>1, <3>1
  <2>5. b \in BOOLEAN /\ ~b
    <3>1. ~(r.n < 0)
      <4>1. r.n \in 0..0
        BY <1>1, <2>3
      <4> DEFINE n == r.n
      <4> HIDE DEF n
      <4>2. ~(n < 0)
        BY <4>1, SMT DEF n
      <4> QED BY <4>2 DEF n
    <3> QED BY <1>1, <3>1
  <2>6. o.p = Lost(rp, b)
    BY <1>10
  <2> HIDE DEF b, r
  <2>7. o.p.file = rf /\ o.p.lost = (rp.lost \/ b)
    <3>1. DeviceSound(rp) /\ b \in BOOLEAN
      BY <2>3, <2>5
    <3> DEFINE x == Lost(rp, b)
    <3> HIDE DEF rp
    <3>2. x.file = rp.file /\ x.lost = (rp.lost \/ b)
      BY <3>1, LostIs
    <3> HIDE DEF x
    <3>3. o.p = x
      BY <2>6 DEF x
    <3> QED BY <3>2, <3>3
  <2>8. rp.lost
    BY <2>5, <2>7
  <2>9. Len(rf) = cap
    <3>1. CASE hp.lost
      <4>1. Len(hf) = cap
        BY <1>7, <3>1
      <4> DEFINE x == Len(rf)
      <4>2. x \in Nat /\ cap <= x /\ x <= cap
        BY <2>4, <4>1, LenIs
      <4> HIDE DEF x
      <4>3. x = cap
        BY <1>3, <4>2, SMT DEF cap
      <4> QED BY <4>3 DEF x
    <3>2. CASE ~hp.lost
      BY <2>4, <2>8, <3>2
    <3> QED BY <3>1, <3>2
  <2>10. Len(hf) = cap \/ ~hp.lost
    BY <1>7
  <2>11. Overlay(hf, At(hp), z) = hf
    <3>1. hf \in Seq(Cell) /\ At(hp) \in 0..Len(hf)
      BY <1>7, <2>2
    <3> DEFINE g == hf
               a == At(hp)
               y == Overlay(g, a, z)
    <3>2. y \in Seq(Cell) /\ Len(y) = Most(Len(g), a + Len(z))
      BY <1>1, <3>1, OverlayIs
    <3>3. \A i \in 1..Len(g) : y[i] = g[i]
      <4>1. ASSUME NEW i \in 1..Len(g) PROVE y[i] = g[i]
        <5>1. ~(a < i /\ i <= a + Len(z))
          <6> HIDE DEF a, g
          <6>1. a \in Int /\ i \in Int
            BY <3>1, SMT DEF a, g
          <6>2. ~(a < i /\ i <= a + 0)
            BY <6>1, SMT
          <6> QED BY <1>1, <6>2
        <5> HIDE DEF g, a, z
        <5> QED BY <1>1, <3>1, <5>1, OverlayOut DEF g, a
      <4> QED BY <4>1
    <3> HIDE DEF y, g, a
    <3>4. Len(y) = Len(g)
      <4> DEFINE l == Len(g)
      <4>1. l \in Nat /\ a \in 0..l /\ Len(y) = Most(l, a + 0)
        BY <1>1, <3>1, <3>2, LenIs DEF g, a
      <4> HIDE DEF l
      <4>2. Len(y) = l
        BY <4>1, SMT DEF Most
      <4> QED BY <4>2 DEF l
    <3>5. g \in Seq(Cell)
      BY <3>1 DEF g
    <3>6. y = g
      BY <3>2, <3>3, <3>4, <3>5, SeqEqual
    <3> QED BY <3>6 DEF y, g, a
  <2>12. \A i \in 1..Len(rf) : i # cap => rf[i] = v[i]
    <3>1. ASSUME NEW i \in 1..Len(rf), i # cap PROVE rf[i] = v[i]
      <4>1. rf[i] = hf[i]
        BY <2>4, <2>11, <3>1
      <4>2. CASE hp.lost
        BY <1>7, <2>9, <3>1, <4>1, <4>2
      <4>3. CASE ~hp.lost
        <5>1. h.n = Len(c)
          <6> DEFINE l == Len(c)
                     n == h.n
          <6>1. l \in Nat /\ n \in 0..l /\ ~(n < l)
            BY <1>1, <1>6, <1>10
          <6> HIDE DEF l, n
          <6>2. n = l
            BY <6>1, SMT
          <6> QED BY <6>2 DEF l, n
        <5> QED BY <1>7c, <4>1, <4>3, <5>1
      <4> QED BY <4>2, <4>3
    <3> QED BY <3>1
  <2>13. CutTo(cap, rf, v)
    BY <1>8, <2>9, <2>12
  <2> QED BY <2>7, <2>13 DEF cap, v, c
<1> QED BY <1>4a, <1>9, <1>10

\* Memory that grows is told where the content ends, and is short only when
\* the array has to grow.
LEMMA GrowPutTold ==
  ASSUME NEW p, DeviceSound(p), p.dev = "grow", NEW s \in Seq(Cell), NEW o \in GrowPut(p, s)
  PROVE  \/ o.n = Len(s) /\ o.p.lost = p.lost /\ o.p.told = p.off + Len(s) /\ o.p.off = p.off + Len(s)
         \/ o.n = 0 /\ o.p.file = p.file /\ ~(p.off + Len(s) < Len(Array(p)))
<1> DEFINE end == p.off + Len(s)
           n == Len(s)
           space == Len(Array(p))
<1>1. p \in FileType
  BY DEF DeviceSound
<1>2. \/ \E arr : o = [p |-> StoredIn(p, arr, s, end), n |-> n]
      \/ ~(end < space) /\ o = [p |-> Lost(p, TRUE), n |-> 0]
  <2> DEFINE x(arr) == [p |-> StoredIn(p, arr, s, end), n |-> n]
             y == [p |-> Lost(p, TRUE), n |-> 0]
             A == Array(p)
             B(more) == Padded(A, more, Zero)
             M == BitOr(2 * space + 1, end + 1)
             b == end < space
  <2>0. b \in BOOLEAN
    OBVIOUS
  <2>1. o \in IF b THEN {x(A)} ELSE {x(B(more)) : more \in M} \cup (IF p.faulty THEN {y} ELSE {})
    BY DEF GrowPut, StoredIn
  <2> HIDE DEF x, y, A, B, M, b
  <2>2. CASE b
    <3>1. o = x(A)
      BY <2>1, <2>2
    <3> QED BY <3>1 DEF x
  <2>3. CASE ~b
    <3>1. (\E more \in M : o = x(B(more))) \/ o = y
      BY <2>1, <2>3
    <3> QED BY <2>3, <3>1 DEF x, y, b
  <2> QED BY <2>0, <2>2, <2>3
<1>3. CASE \E arr : o = [p |-> StoredIn(p, arr, s, end), n |-> n]
  <2>1. PICK arr : o = [p |-> StoredIn(p, arr, s, end), n |-> n]
    BY <1>3
  <2> DEFINE d == Overlay(arr, p.off, s)
             m == Most(end, Len(p.file))
             f == SubSeq(d, 1, m)
             g == SubSeq(d, m + 1, Len(d))
  <2>2. o.p = [Filled(p, d, m) EXCEPT !.off = end, !.told = end] /\ o.n = n
    BY <2>1 DEF StoredIn
  <2>3. Filled(p, d, m) = [p EXCEPT !.file = f, !.tail = g]
    BY DEF Filled
  <2> HIDE DEF f, g, n, end, d, m
  <2>4. o.p.lost = p.lost /\ o.p.told = end /\ o.p.off = end
    BY <1>1, <2>2, <2>3 DEF FileType
  <2> QED BY <2>2, <2>4 DEF n, end
<1>4. CASE ~(end < space) /\ o = [p |-> Lost(p, TRUE), n |-> 0]
  <2> DEFINE b == TRUE
             q == Lost(p, b)
  <2>1. b \in BOOLEAN /\ o.p = q /\ o.n = 0
    BY <1>4
  <2> HIDE DEF b
  <2>2. q.file = p.file
    BY <2>1, LostIs
  <2> QED BY <1>4, <2>1, <2>2
<1> QED BY <1>2, <1>3, <1>4

LEMMA GrowCut ==
  ASSUME NEW p, Fitting(p, <<>>), p.dev = "grow", p.held # <<>>, NEW o \in GrowWrite(p, <<>>),
         o.p.lost, ~p.lost
  PROVE  o.p.file = p.file
<1> DEFINE e == Emptied(p)
           c == p.held
           z == <<>>
<1>1. /\ DeviceSound(p) /\ c \in Seq(Cell) /\ z \in Seq(Cell) /\ Len(z) = 0
      /\ Len(c) \in Nat /\ At(p) + Len(c) + Len(z) <= MaxContent /\ At(p) \in Nat
      /\ MaxContent \in Nat
  BY AllIs, AtIs, EmptySeq, FileBufferAssumption DEF Fitting
<1>2. /\ DeviceSound(e) /\ Same(p, e) /\ At(e) = At(p) /\ e.lost = p.lost /\ e.file = p.file
  BY <1>1, EmptiedIs
<1>3. e.dev = "grow" /\ ~e.app /\ At(e) = e.off
  <2>1. e.dev = "grow"
    BY <1>2 DEF Same
  <2>2. ~e.app
    BY <1>2, <2>1 DEF DeviceSound
  <2> QED BY <2>1, <2>2 DEF At
<1>4. At(e) + Len(c) <= MaxContent
  <2> DEFINE a == At(p)
             l == Len(c)
             k == Len(z)
  <2>1. a \in Nat /\ l \in Nat /\ k = 0 /\ a + l + k <= MaxContent
    BY <1>1
  <2> HIDE DEF a, l, k
  <2>2. a + l <= MaxContent
    BY <1>1, <2>1, SMT
  <2> QED BY <1>2, <2>2 DEF a, l
<1>5. PICK h \in GrowPut(e, c) : o \in IF h.n < Len(c) THEN {h} ELSE GrowPut(h.p, z)
  BY DEF GrowWrite, Emptied
<1>6. Len(c) > 0
  <2> DEFINE l == Len(c)
  <2>1. l \in Nat /\ l # 0
    BY <1>1, EmptyIs
  <2> HIDE DEF l
  <2>2. l > 0
    BY <2>1, SMT
  <2> QED BY <2>2 DEF l
<1> HIDE DEF e, c, z
<1>7. /\ DeviceSound(h.p) /\ Same(e, h.p)
      /\ \/ /\ h.n = Len(c) /\ h.p.lost = e.lost
            /\ h.p.told = e.off + Len(c) /\ h.p.off = e.off + Len(c)
         \/ h.n = 0 /\ h.p.file = e.file
  <2>1. DeviceSound(h.p) /\ Same(e, h.p)
    BY <1>1, <1>2, <1>3, <1>4, <1>5, GrowPutIs
  <2>2. \/ /\ h.n = Len(c) /\ h.p.lost = e.lost
           /\ h.p.told = e.off + Len(c) /\ h.p.off = e.off + Len(c)
        \/ h.n = 0 /\ h.p.file = e.file
    BY <1>1, <1>2, <1>3, <1>5, GrowPutTold
  <2> QED BY <2>1, <2>2
<1>8. CASE h.n = 0 /\ h.p.file = e.file
  <2>1. o = h
    <3> DEFINE l == Len(c)
    <3>1. 0 < l
      BY <1>1, <1>6
    <3> HIDE DEF l
    <3>2. h.n < l
      BY <1>8, <3>1
    <3> QED BY <1>5, <3>2 DEF l
  <2> QED BY <1>2, <1>8, <2>1
<1>9. CASE h.n = Len(c) /\ h.p.lost = e.lost /\ h.p.told = e.off + Len(c) /\ h.p.off = e.off + Len(c)
  <2> DEFINE hp == h.p
             l == Len(c)
             u == hp.off
             n == h.n
             sp == Len(Array(hp))
  <2>1. l \in Nat /\ l > 0 /\ n = l /\ u = e.off + l /\ e.off \in Nat /\ hp.told = u
    BY <1>1, <1>2, <1>3, <1>6, <1>9
  <2>2. o \in GrowPut(hp, z)
    <3>1. ~(n < l)
      <4> HIDE DEF n, l
      <4> QED BY <2>1, SMT
    <3> QED BY <1>5, <3>1
  <2>3. hp.dev = "grow" /\ hp \in FileType
    BY <1>3, <1>7 DEF Same, DeviceSound
  <2>4. hp.told > 0 => hp.told < sp
    <3>1. sp = Len(hp.file) + Len(hp.tail)
      BY <2>3, ArrayIs
    <3> QED BY <1>7, <2>3, <3>1 DEF DeviceSound
  <2> HIDE DEF hp, l, u, n, sp
  <2>5. u > 0 /\ u + 0 = u
    <3> DEFINE a == e.off
    <3>1. u = a + l /\ a \in Nat
      BY <2>1
    <3> HIDE DEF a
    <3> QED BY <2>1, <3>1, SMT
  <2>6. u + Len(z) < sp
    BY <1>1, <2>1, <2>4, <2>5
  <2>7. DeviceSound(hp)
    BY <1>7 DEF hp
  <2>8. hp.off + Len(z) < Len(Array(hp))
    BY <2>6 DEF u, sp
  <2>9. o.p.lost = hp.lost
    BY <1>1, <2>2, <2>3, <2>7, <2>8, GrowPutTold
  <2> QED BY <1>2, <1>9, <2>9 DEF hp
<1> QED BY <1>7, <1>8, <1>9

\* A flush that does not fail: what was unwritten is out, or it was cut short.
LEMMA FlushOut ==
  ASSUME NEW p, BufRight(p), ~p.lost, NEW o \in FflushUnlocked(p), o.n = 0
  PROVE  IF o.p.lost THEN CutShort(p, Stream(p).content, o.p.file)
         ELSE o.p.file = Stream(p).content
<1>1. PICK q \in Flushed(p) : o.p.file = q.file /\ o.p.lost = q.lost /\ ~(q.act = "none" /\ p.held # <<>>)
  BY FflushIs
<1>2. p.lost \in BOOLEAN /\ DeviceSound(p) /\ p.dev \in Devices
  BY RightIs, Types
<1>3. CASE p.held = <<>>
  <2>1. q = p
    BY <1>3, FlushedIs
  <2>2. Stream(p).content = p.file
    BY <1>3 DEF Stream
  <2> QED BY <1>1, <2>1, <2>2
<1>4. CASE p.held # <<>>
  <2>1. Fitting(p, <<>>) /\ \E w \in WriteOp(p, <<>>) : q = w.p /\ Wrote(p, <<>>, w)
    BY <1>4, FlushedIs
  <2>2. PICK w \in WriteOp(p, <<>>) : q = w.p /\ Wrote(p, <<>>, w)
    BY <2>1
  <2>3. Stream(p).content = Written(p, p.held)
    BY <1>4 DEF Stream, Written, At
  <2>4. p.held \o <<>> = p.held /\ p.held \in Seq(Cell)
    <3>1. p.held \in Seq(Cell)
      BY RightIs
    <3> QED BY <3>1
  <2>5. CASE ~q.lost
    <3>1. ~NotOut(p, w)
      BY <1>1, <1>4, <2>2, <2>5 DEF NotOut
    <3>2. AllOut(p, <<>>, w)
      BY <2>2, <3>1 DEF Wrote
    <3>3. q.file = Written(p, p.held \o <<>>)
      BY <2>2, <3>2 DEF AllOut
    <3> QED BY <1>1, <2>3, <2>4, <2>5, <3>3
  <2>6. CASE q.lost
    <3>1. CASE p.dev = "mem"
      <4>1. w \in MemWrite(p, <<>>)
        BY <2>2, <3>1 DEF WriteOp
      <4>2. CutTo(p.cap, w.p.file, Overlay(p.file, At(p), p.held))
        BY <2>1, <2>2, <2>6, <3>1, <4>1, MemCut
      <4>3. Written(p, p.held) = Overlay(p.file, At(p), p.held)
        BY <1>2, <2>4, <3>1, WrittenIs
      <4>4. CutTo(p.cap, q.file, Stream(p).content)
        BY <2>2, <2>3, <4>2, <4>3
      <4>5. CutShort(p, Stream(p).content, q.file)
        BY <3>1, <4>4 DEF CutShort, CutTo
      <4> QED BY <1>1, <2>6, <4>5
    <3>2. CASE p.dev = "grow"
      <4>1. w \in GrowWrite(p, <<>>)
        BY <2>2, <3>2 DEF WriteOp
      <4>2. q.file = p.file
        BY <1>4, <2>1, <2>2, <2>6, <3>2, <4>1, GrowCut
      <4> QED BY <1>1, <2>6, <3>2, <4>2 DEF CutShort
    <3>3. CASE p.dev \notin {"mem", "grow"}
      BY <1>1, <2>6, <3>3 DEF CutShort
    <3> QED BY <3>1, <3>2, <3>3
  <2> QED BY <2>5, <2>6
<1> QED BY <1>3, <1>4

\* Only fflush says that it flushed.
LEMMA FlushStep ==
  ASSUME BufferInv, [Next]_vars
  PROVE  Idle /\ ret'.op = "flush" /\ ret'.val = 0 /\ ret' # ret /\ ~fp.lost
           => IF fp'.lost THEN CutShort(fp, Seen.content, fp'.file) ELSE fp'.file = Seen.content
<1> SUFFICES ASSUME Idle, ret'.op = "flush", ret'.val = 0, ret' # ret, ~fp.lost
             PROVE  IF fp'.lost THEN CutShort(fp, Seen.content, fp'.file) ELSE fp'.file = Seen.content
  OBVIOUS
<1>1. fflush
  <2>1. ~(fputc \/ fwrite \/ fgetc \/ ungetc \/ fseek \/ rewind \/ ftell \/ clearerr)
    <3>1. ~fputc /\ ~fwrite /\ ~fgetc /\ ~ungetc
      BY DEF fputc, fwrite, fgetc, ungetc, Returns
    <3>2. ~fseek /\ ~rewind /\ ~ftell /\ ~clearerr
      BY DEF fseek, rewind, ftell, clearerr, Returns
    <3> QED BY <3>1, <3>2
  <2>2. ~(fread \/ fgets \/ getdelim \/ setvbuf)
    BY DEF fread, fgets, getdelim, setvbuf, Begin
  <2>3. ~(FreadTurn \/ FgetsTurn \/ GetdelimTurn)
    BY DEF FreadTurn, FgetsTurn, GetdelimTurn, Idle
  <2>4. ~UNCHANGED vars
    BY DEF vars
  <2> QED BY <2>1, <2>2, <2>3, <2>4 DEF Next
<1>2. PICK o \in FflushUnlocked(fp) : fp' = o.p /\ Returns("flush", <<>>, o.n)
  BY <1>1 DEF fflush
<1>3. o.n = 0
  BY <1>2 DEF Returns
<1>4. Seen = Stream(fp)
  BY DEF Seen, Idle
<1>5. BufRight(fp)
  BY DEF BufferInv
<1>6. IF o.p.lost THEN CutShort(fp, Stream(fp).content, o.p.file) ELSE o.p.file = Stream(fp).content
  BY <1>2, <1>3, <1>5, FlushOut
<1> QED BY <1>2, <1>4, <1>6

\* For all ways a stream may be opened: when fflush returns 0 the file holds
\* all that the client has written, or memory was short and what it took of
\* it is right.
THEOREM FlushesAreOut == Spec => FlushedIsOut
<1>1. Init => BufferInv
  BY BufferInvInit
<1>2. BufferInv /\ [Next]_vars => BufferInv'
  BY BufferInvNext
<1>3. BufferInv /\ [Next]_vars
        => [Idle /\ ret'.op = "flush" /\ ret'.val = 0 /\ ret' # ret /\ ~fp.lost
              => IF fp'.lost THEN CutShort(fp, Seen.content, fp'.file) ELSE fp'.file = Seen.content]_vars
  BY FlushStep
<1> QED BY <1>1, <1>2, <1>3, PTL DEF Spec, FlushedIsOut
=============================================================================
