---------------------------- MODULE PromiseProofs ----------------------------
(***************************************************************************)
(* A FILE keeps ByteStream's promise: its buffer, whatever the device      *)
(* under it does, is not seen by its client.  Over what BufferProofs says  *)
(* of devices and buffers: what is unread is what the file has before the  *)
(* position of its device, so that reading takes what an unbuffered stream *)
(* would, and a call's loop has in hand what was read since it began.      *)
(***************************************************************************)
EXTENDS BufferProofs

-----------------------------------------------------------------------------
(* The front of a sequence, and what is left without it.                   *)

Front(c, n) == SubSeq(c, 1, n)
Drop(c, n) == SubSeq(c, n + 1, Len(c))

\* The front of a sequence, and its length.
LEMMA FrontIs ==
  ASSUME NEW S, NEW c \in Seq(S), NEW n \in 0..Len(c)
  PROVE  Front(c, n) \in Seq(S) /\ Len(Front(c, n)) = n /\ \A i \in 1..n : Front(c, n)[i] = c[i]
<1> DEFINE l == Len(c)
           f == SubSeq(c, 1, n)
<1>1. l \in Nat /\ n \in Nat /\ n <= l /\ 1 \in Nat \ {0}
  <2>1. l \in Nat /\ n \in 0..l
    BY LenIs
  <2> HIDE DEF l
  <2> QED BY <2>1, SMT
<1>2. n <= Len(c)
  BY <1>1
<1>3. /\ f \in Seq(S) /\ Len(f) = IF 1 <= n THEN n - 1 + 1 ELSE 0
      /\ \A i \in 1..(n - 1 + 1) : f[i] = c[1 + i - 1]
  BY <1>1, <1>2, SubSeqIs
<1> HIDE DEF l, f
<1>4. Len(f) = n
  BY <1>1, <1>3, SMT
<1>5. \A i \in 1..n : f[i] = c[i]
  BY <1>1, <1>3, SMT
<1> QED BY <1>3, <1>4, <1>5 DEF f, Front

\* What is left without the front.
LEMMA DropIs ==
  ASSUME NEW S, NEW c \in Seq(S), NEW n \in Nat
  PROVE  /\ Drop(c, n) \in Seq(S) /\ Len(Drop(c, n)) = Most(0, Len(c) - n)
         /\ \A i \in 1..(Len(c) - n) : Drop(c, n)[i] = c[n + i]
<1> DEFINE l == Len(c)
           m == n + 1
           d == SubSeq(c, m, l)
<1>1. l \in Nat /\ m \in Nat \ {0} /\ l <= Len(c)
  <2>1. l \in Nat
    BY LenIs
  <2>2. l <= l /\ m \in Nat \ {0}
    <3> HIDE DEF l
    <3> QED BY <2>1, SMT
  <2> QED BY <2>1, <2>2
<1>2. /\ d \in Seq(S) /\ Len(d) = IF m <= l THEN l - m + 1 ELSE 0
      /\ \A i \in 1..(l - m + 1) : d[i] = c[m + i - 1]
  <2> HIDE DEF l, m
  <2> QED BY <1>1, SubSeqIs
<1> HIDE DEF l, d
<1>3. Len(d) = Most(0, l - n)
  BY <1>1, <1>2, SMT DEF Most
<1>4. ASSUME NEW i \in 1..(l - n) PROVE d[i] = c[n + i]
  <2>1. i \in 1..(l - m + 1) /\ m + i - 1 = n + i
    BY <1>1, SMT
  <2> QED BY <1>2, <2>1
<1> QED BY <1>2, <1>3, <1>4 DEF d, l, Drop

\* Two sequences with the same bytes.
LEMMA SameBytes ==
  ASSUME NEW S, NEW a \in Seq(S), NEW b \in Seq(S), Len(a) = Len(b), \A i \in 1..Len(a) : a[i] = b[i]
  PROVE  a = b
BY SeqEqual

\* Dropping twice.
LEMMA DropDrop ==
  ASSUME NEW S, NEW c \in Seq(S), NEW m \in Nat, NEW k \in Nat
  PROVE  Drop(Drop(c, m), k) = Drop(c, m + k)
<1> DEFINE l == Len(c)
           d == Drop(c, m)
           e == Drop(d, k)
           mk == m + k
           f == Drop(c, mk)
           dl == Len(d)
<1>1. l \in Nat /\ mk \in Nat
  <2>1. l \in Nat
    BY LenIs
  <2> QED BY <2>1, SMT
<1>2. d \in Seq(S) /\ dl = Most(0, l - m) /\ \A i \in 1..(l - m) : d[i] = c[m + i]
  BY DropIs
<1>3. f \in Seq(S) /\ Len(f) = Most(0, l - mk) /\ \A i \in 1..(l - mk) : f[i] = c[mk + i]
  <2> HIDE DEF mk
  <2> QED BY <1>1, DropIs
<1> HIDE DEF d, f, l
<1>4. e \in Seq(S) /\ Len(e) = Most(0, dl - k) /\ \A i \in 1..(dl - k) : e[i] = d[k + i]
  BY <1>2, DropIs
<1> HIDE DEF e, dl
<1>5. Len(e) = Len(f)
  BY <1>1, <1>2, <1>3, <1>4, SMT DEF Most
<1>6. ASSUME NEW i \in 1..Len(e) PROVE e[i] = f[i]
  <2>1. i \in 1..(dl - k) /\ k + i \in 1..(l - m) /\ i \in 1..(l - mk) /\ m + (k + i) = mk + i
    BY <1>1, <1>2, <1>3, <1>4, SMT DEF Most
  <2> QED BY <1>2, <1>3, <1>4, <2>1
<1>7. e = f
  BY <1>3, <1>4, <1>5, <1>6, SameBytes
<1> QED BY <1>7 DEF e, f, d

\* Dropping from two sequences in a row.
LEMMA DropJoin ==
  ASSUME NEW S, NEW a \in Seq(S), NEW b \in Seq(S), NEW n \in Nat
  PROVE  Drop(Join(a, b), n) = Join(Drop(a, n), Drop(b, Most(0, n - Len(a))))
<1> DEFINE al == Len(a)
           bl == Len(b)
           c == Join(a, b)
           m == Most(0, n - al)
           x == Drop(a, n)
           y == Drop(b, m)
           xl == Len(x)
           yl == Len(y)
           d == Drop(c, n)
           e == Join(x, y)
<1>1. al \in Nat /\ bl \in Nat
  BY LenIs
<1>2. c \in Seq(S) /\ Len(c) = al + bl
  BY JoinIs
<1>2a. (\A i \in 1..al : c[i] = a[i]) /\ (\A i \in 1..bl : c[al + i] = b[i])
  BY JoinFront, JoinBack
<1>3. m \in Nat
  <2> HIDE DEF al
  <2> QED BY <1>1, SMT DEF Most
<1>4. x \in Seq(S) /\ xl = Most(0, al - n) /\ \A i \in 1..(al - n) : x[i] = a[n + i]
  BY DropIs
<1>5. y \in Seq(S) /\ yl = Most(0, bl - m) /\ \A i \in 1..(bl - m) : y[i] = b[m + i]
  <2> HIDE DEF m
  <2> QED BY <1>3, DropIs
<1>6. m = Most(0, n - al)
  OBVIOUS
<1> HIDE DEF m, x, y
<1>7. e \in Seq(S) /\ Len(e) = xl + yl
  BY <1>4, <1>5, JoinIs
<1>7a. (\A i \in 1..xl : e[i] = x[i]) /\ (\A i \in 1..yl : e[xl + i] = y[i])
  <2>1. x \in Seq(S) /\ y \in Seq(S)
    BY <1>4, <1>5
  <2>2. \A i \in 1..xl : e[i] = x[i]
    BY <2>1, JoinFront
  <2>3. \A i \in 1..yl : e[xl + i] = y[i]
    BY <2>1, JoinBack
  <2> QED BY <2>2, <2>3
<1> HIDE DEF c, e
<1>8. d \in Seq(S) /\ Len(d) = Most(0, (al + bl) - n) /\ \A i \in 1..((al + bl) - n) : d[i] = c[n + i]
  <2>1. /\ d \in Seq(S) /\ Len(d) = Most(0, Len(c) - n)
        /\ \A i \in 1..(Len(c) - n) : d[i] = c[n + i]
    BY <1>2, DropIs
  <2> HIDE DEF d, al, bl
  <2> QED BY <1>2, <2>1
<1> HIDE DEF d, al, bl, xl, yl
<1>9. Len(d) = Len(e)
  BY <1>1, <1>3, <1>4, <1>5, <1>6, <1>7, <1>8, SMT DEF Most
<1>10. ASSUME NEW i \in 1..Len(d) PROVE d[i] = e[i]
  <2>1. i \in 1..((al + bl) - n) /\ n + i \in 1..(al + bl) /\ i \in 1..(xl + yl) /\ i \in Int /\ xl \in Nat /\ yl \in Nat
    BY <1>1, <1>3, <1>4, <1>5, <1>6, <1>7, <1>8, <1>9, SMT DEF Most
  <2>2. d[i] = c[n + i]
    BY <1>8, <2>1
  <2>3. CASE i <= xl
    <3>1. i \in 1..xl /\ i \in 1..(al - n) /\ n + i \in 1..al
      BY <1>1, <1>4, <2>1, <2>3, SMT DEF Most
    <3> QED BY <1>2a, <1>4, <1>7a, <2>2, <3>1
  <2>4. CASE ~(i <= xl)
    <3> DEFINE j == i - xl
               k == n + i - al
    <3>1. j \in 1..yl /\ xl + j = i /\ j \in 1..(bl - m) /\ k \in 1..bl /\ al + k = n + i /\ m + j = k
      BY <1>1, <1>3, <1>4, <1>5, <1>6, <2>1, <2>4, SMT DEF Most
    <3> HIDE DEF j, k
    <3>2. e[i] = y[j] /\ y[j] = b[m + j]
      BY <1>5, <1>7a, <3>1
    <3>3. c[n + i] = b[k]
      BY <1>2a, <3>1
    <3> QED BY <2>2, <3>1, <3>2, <3>3
  <2> QED BY <2>3, <2>4
<1>11. d = e
  BY <1>7, <1>8, <1>9, <1>10, SameBytes
<1> QED BY <1>11 DEF d, e, c, x, y, m, al

\* The front of what follows a front.
LEMMA FrontMore ==
  ASSUME NEW S, NEW c \in Seq(S), NEW n \in Nat, NEW k \in Nat, n + k <= Len(c)
  PROVE  /\ Join(Front(c, n), Front(Drop(c, n), k)) = Front(c, n + k)
         /\ k <= Len(Drop(c, n))
<1> DEFINE l == Len(c)
           nk == n + k
           d == Drop(c, n)
           x == Front(c, n)
           y == Front(d, k)
           e == Join(x, y)
           f == Front(c, nk)
<1>1. l \in Nat /\ n \in 0..l /\ nk \in 0..l
  <2>1. l \in Nat /\ n + k <= l
    BY LenIs
  <2> HIDE DEF l
  <2> QED BY <2>1, SMT
<1>2. d \in Seq(S) /\ Len(d) = Most(0, l - n) /\ \A i \in 1..(l - n) : d[i] = c[n + i]
  BY DropIs
<1>3. n \in 0..Len(c) /\ nk \in 0..Len(c)
  BY <1>1
<1>4. x \in Seq(S) /\ Len(x) = n /\ \A i \in 1..n : x[i] = c[i]
  BY <1>3, FrontIs
<1>5. f \in Seq(S) /\ Len(f) = nk /\ \A i \in 1..nk : f[i] = c[i]
  <2> HIDE DEF nk
  <2> QED BY <1>3, FrontIs
<1> HIDE DEF d, x, f, l
<1>6. k \in 0..Len(d) /\ k <= Len(d)
  BY <1>1, <1>2, SMT DEF Most
<1>7. y \in Seq(S) /\ Len(y) = k /\ \A i \in 1..k : y[i] = d[i]
  BY <1>2, <1>6, FrontIs
<1> HIDE DEF y
<1>8. e \in Seq(S) /\ Len(e) = n + k
  BY <1>4, <1>7, JoinIs
<1>9. (\A i \in 1..n : e[i] = x[i]) /\ (\A i \in 1..k : e[n + i] = y[i])
  <2>1. x \in Seq(S) /\ y \in Seq(S) /\ Len(x) = n /\ Len(y) = k
    BY <1>4, <1>7
  <2>2. \A i \in 1..Len(x) : e[i] = x[i]
    BY <2>1, JoinFront
  <2>3. \A i \in 1..Len(y) : e[Len(x) + i] = y[i]
    BY <2>1, JoinBack
  <2> HIDE DEF e
  <2> QED BY <2>1, <2>2, <2>3
<1> HIDE DEF e
<1>10. ASSUME NEW i \in 1..Len(e) PROVE e[i] = f[i]
  <2>1. i \in 1..nk
    BY <1>8
  <2>2. CASE i <= n
    <3>1. i \in 1..n
      BY <2>1, <2>2, SMT
    <3> QED BY <1>4, <1>5, <1>9, <2>1, <3>1
  <2>3. CASE ~(i <= n)
    <3> DEFINE j == i - n
    <3>1. j \in 1..k /\ j \in 1..(l - n) /\ n + j = i
      BY <1>1, <2>1, <2>3, SMT
    <3> HIDE DEF j
    <3> QED BY <1>2, <1>5, <1>7, <1>9, <2>1, <3>1
  <2> QED BY <2>2, <2>3
<1>11. e = f
  BY <1>5, <1>8, <1>10, SameBytes
<1> QED BY <1>6, <1>11 DEF e, f, x, y, d

\* A front of the first of two sequences.
LEMMA FrontOfJoin ==
  ASSUME NEW S, NEW a \in Seq(S), NEW b \in Seq(S), NEW k \in 0..Len(a)
  PROVE  Front(Join(a, b), k) = Front(a, k) /\ k \in 0..Len(Join(a, b))
<1> DEFINE c == Join(a, b)
           x == Front(c, k)
           y == Front(a, k)
           al == Len(a)
           bl == Len(b)
<1>1. al \in Nat /\ bl \in Nat /\ c \in Seq(S) /\ Len(c) = al + bl
  BY LenIs, JoinIs
<1>2. \A i \in 1..al : c[i] = a[i]
  BY JoinFront
<1>3. k \in 0..al
  OBVIOUS
<1> HIDE DEF c, al, bl
<1>4. k \in 0..(al + bl) /\ \A i \in 1..k : i \in 1..al
  BY <1>1, <1>3, SMT
<1>5. k \in 0..Len(c)
  BY <1>1, <1>4
<1>6. x \in Seq(S) /\ Len(x) = k /\ \A i \in 1..k : x[i] = c[i]
  BY <1>1, <1>5, FrontIs
<1>7. y \in Seq(S) /\ Len(y) = k /\ \A i \in 1..k : y[i] = a[i]
  BY <1>3, FrontIs
<1>8. x = y
  BY <1>2, <1>4, <1>6, <1>7, SameBytes
<1> QED BY <1>5, <1>8 DEF c, x, y

\* A piece of a sequence is in front of what follows a place in it.
LEMMA PieceFront ==
  ASSUME NEW c \in Seq(Cell), NEW at \in Nat, NEW s, Piece(c, at, s)
  PROVE  /\ s = Front(Drop(c, at), Len(s)) /\ Len(s) \in 0..Len(Drop(c, at))
         /\ Drop(c, at) = Join(s, Drop(c, at + Len(s)))
<1> DEFINE l == Len(c)
           sl == Len(s)
           d == Drop(c, at)
           x == Front(d, sl)
           as == at + sl
           z == Drop(c, as)
           y == Join(s, z)
<1>1. s \in Seq(Cell) /\ l \in Nat /\ sl \in Nat /\ at + sl <= l /\ \A i \in 1..sl : s[i] = c[at + i]
  BY LenIs DEF Piece
<1>2. d \in Seq(Cell) /\ Len(d) = Most(0, l - at) /\ \A i \in 1..(l - at) : d[i] = c[at + i]
  BY DropIs
<1> HIDE DEF sl, d, l
<1>3. sl \in 0..Len(d) /\ as \in Nat
  BY <1>1, <1>2, SMT DEF Most
<1>4. x \in Seq(Cell) /\ Len(x) = sl /\ \A i \in 1..sl : x[i] = d[i]
  BY <1>2, <1>3, FrontIs
<1> HIDE DEF x
<1>5. ASSUME NEW i \in 1..Len(s) PROVE s[i] = x[i]
  <2>1. i \in 1..sl
    BY DEF sl
  <2>2. i \in 1..(l - at)
    BY <1>1, <2>1, SMT
  <2> QED BY <1>1, <1>2, <1>4, <2>1, <2>2
<1>6. s = x
  <2>1. Len(s) = Len(x)
    BY <1>4 DEF sl
  <2> QED BY <1>1, <1>4, <1>5, <2>1, SameBytes
<1>7. z \in Seq(Cell) /\ Len(z) = Most(0, l - as) /\ \A i \in 1..(l - as) : z[i] = c[as + i]
  <2> HIDE DEF as
  <2> QED BY <1>3, DropIs DEF l
<1> HIDE DEF z
<1>8. y \in Seq(Cell) /\ Len(y) = sl + Len(z)
  BY <1>1, <1>7, JoinIs DEF sl
<1>9. (\A i \in 1..sl : y[i] = s[i]) /\ (\A i \in 1..Len(z) : y[sl + i] = z[i])
  BY <1>1, <1>7, JoinFront, JoinBack DEF sl
<1> HIDE DEF y
<1>10. Len(d) = Len(y)
  BY <1>1, <1>2, <1>7, <1>8, SMT DEF Most
<1>11. ASSUME NEW i \in 1..Len(d) PROVE d[i] = y[i]
  <2>1. i \in 1..(l - at)
    BY <1>1, <1>2, SMT DEF Most
  <2>2. CASE i <= sl
    <3>1. i \in 1..sl
      BY <1>1, <2>1, <2>2, SMT
    <3> QED BY <1>1, <1>2, <1>9, <2>1, <3>1
  <2>3. CASE ~(i <= sl)
    <3> DEFINE j == i - sl
    <3>1. j \in 1..Len(z) /\ j \in 1..(l - as) /\ sl + j = i /\ as + j = at + i
      BY <1>1, <1>3, <1>7, <2>1, <2>3, SMT DEF Most
    <3> HIDE DEF j
    <3> QED BY <1>2, <1>7, <1>9, <2>1, <3>1
  <2> QED BY <2>2, <2>3
<1>12. d = y
  BY <1>2, <1>8, <1>10, <1>11, SameBytes
<1> QED BY <1>3, <1>6, <1>12 DEF x, y, d, sl, z

\* No front.
LEMMA FrontNone ==
  ASSUME NEW S, NEW c \in Seq(S)
  PROVE  Front(c, 0) = <<>> /\ Drop(c, 0) = c
<1>1. 0 \in 0..Len(c)
  <2>1. Len(c) \in Nat
    BY LenIs
  <2> DEFINE l == Len(c)
  <2> HIDE DEF l
  <2>2. 0 \in 0..l
    BY <2>1, SMT DEF l
  <2> QED BY <2>2 DEF l
<1>2. Front(c, 0) = <<>>
  BY <1>1, FrontIs, EmptyIs
<1>3. SubSeq(c, 1, Len(c)) = c
  BY SubSeqFull
<1> QED BY <1>2, <1>3 DEF Drop

\* Three in a row, and one with nothing.
LEMMA JoinAll ==
  ASSUME NEW S, NEW a \in Seq(S), NEW b \in Seq(S), NEW c \in Seq(S)
  PROVE  /\ Join(a, Join(b, c)) = Join(Join(a, b), c)
         /\ Join(<<>>, a) = a /\ Join(a, <<>>) = a
<1>1. Join(a, Join(b, c)) = Join(Join(a, b), c)
  <2> DEFINE al == Len(a)
             bl == Len(b)
             cl == Len(c)
             x == Join(b, c)
             y == Join(a, b)
             l == Join(a, x)
             r == Join(y, c)
  <2>1. al \in Nat /\ bl \in Nat /\ cl \in Nat
    BY LenIs
  <2>2. x \in Seq(S) /\ Len(x) = bl + cl /\ y \in Seq(S) /\ Len(y) = al + bl
    BY JoinIs
  <2>3. (\A i \in 1..bl : x[i] = b[i]) /\ (\A i \in 1..cl : x[bl + i] = c[i])
    BY JoinFront, JoinBack
  <2>4. (\A i \in 1..al : y[i] = a[i]) /\ (\A i \in 1..bl : y[al + i] = b[i])
    BY JoinFront, JoinBack
  <2> HIDE DEF x, y
  <2>5. l \in Seq(S) /\ Len(l) = al + Len(x) /\ r \in Seq(S) /\ Len(r) = Len(y) + cl
    BY <2>2, JoinIs
  <2>6. (\A i \in 1..al : l[i] = a[i]) /\ (\A i \in 1..Len(x) : l[al + i] = x[i])
    <3>1. \A i \in 1..al : l[i] = a[i]
      BY <2>2, JoinFront
    <3>2. \A i \in 1..Len(x) : l[al + i] = x[i]
      BY <2>2, JoinBack
    <3> QED BY <3>1, <3>2
  <2>7. (\A i \in 1..Len(y) : r[i] = y[i]) /\ (\A i \in 1..cl : r[Len(y) + i] = c[i])
    <3>1. \A i \in 1..Len(y) : r[i] = y[i]
      BY <2>2, JoinFront
    <3>2. \A i \in 1..cl : r[Len(y) + i] = c[i]
      BY <2>2, JoinBack
    <3> QED BY <3>1, <3>2
  <2> HIDE DEF l, r, al, bl, cl
  <2>8. Len(l) = Len(r) /\ Len(l) = al + bl + cl
    BY <2>1, <2>2, <2>5, SMT
  <2>9. ASSUME NEW i \in 1..Len(l) PROVE l[i] = r[i]
    <3>1. i \in 1..(al + bl + cl) /\ i \in Int
      BY <2>1, <2>8, SMT
    <3>2. CASE i <= al
      <4>1. i \in 1..al /\ i \in 1..Len(y)
        BY <2>1, <2>2, <3>1, <3>2, SMT
      <4> QED BY <2>4, <2>6, <2>7, <4>1
    <3>3. CASE al < i /\ i <= al + bl
      <4> DEFINE j == i - al
      <4>1. j \in 1..bl /\ j \in 1..Len(x) /\ i \in 1..Len(y) /\ al + j = i
        BY <2>1, <2>2, <3>1, <3>3, SMT
      <4> HIDE DEF j
      <4> QED BY <2>3, <2>4, <2>6, <2>7, <4>1
    <3>4. CASE al + bl < i
      <4> DEFINE j == i - al
                 k == i - (al + bl)
      <4>1. k \in 1..cl /\ j \in 1..Len(x) /\ al + j = i /\ bl + k = j /\ Len(y) + k = i
        BY <2>1, <2>2, <3>1, <3>4, SMT
      <4> HIDE DEF j, k
      <4> QED BY <2>3, <2>6, <2>7, <4>1
    <3> QED BY <2>1, <3>1, <3>2, <3>3, <3>4, SMT
  <2>10. l = r
    BY <2>5, <2>8, <2>9, SameBytes
  <2> QED BY <2>10 DEF l, r, x, y
<1>2. Join(<<>>, a) = a /\ Join(a, <<>>) = a
  BY DEF Join
<1> QED BY <1>1, <1>2

\* The front and the rest are the whole.
LEMMA FrontDrop ==
  ASSUME NEW S, NEW c \in Seq(S), NEW n \in 0..Len(c)
  PROVE  Join(Front(c, n), Drop(c, n)) = c
<1> DEFINE l == Len(c)
           x == Front(c, n)
           y == Drop(c, n)
           e == Join(x, y)
<1>1. l \in Nat /\ n \in 0..l /\ n \in Nat
  <2>1. l \in Nat /\ n \in 0..l
    BY LenIs
  <2> HIDE DEF l
  <2> QED BY <2>1, SMT
<1>2. x \in Seq(S) /\ Len(x) = n /\ \A i \in 1..n : x[i] = c[i]
  BY FrontIs
<1>3. y \in Seq(S) /\ Len(y) = Most(0, l - n) /\ \A i \in 1..(l - n) : y[i] = c[n + i]
  BY <1>1, DropIs
<1> HIDE DEF x, y
<1>4. e \in Seq(S) /\ Len(e) = n + Len(y)
  BY <1>2, <1>3, JoinIs
<1>5. \A i \in 1..Len(x) : e[i] = x[i]
  BY <1>2, <1>3, JoinFront
<1>6. \A i \in 1..Len(y) : e[Len(x) + i] = y[i]
  <2>1. x \in Seq(S) /\ y \in Seq(S)
    BY <1>2, <1>3
  <2> QED BY <2>1, JoinBack
<1> HIDE DEF e, l
<1>7. Len(e) = l /\ Len(y) = l - n
  BY <1>1, <1>3, <1>4, SMT DEF Most
<1>8. ASSUME NEW i \in 1..Len(e) PROVE e[i] = c[i]
  <2>1. i \in 1..l
    BY <1>7
  <2>2. CASE i <= n
    <3>1. i \in 1..n
      BY <2>1, <2>2, SMT
    <3> QED BY <1>2, <1>5, <3>1
  <2>3. CASE ~(i <= n)
    <3> DEFINE j == i - n
    <3>1. j \in 1..(l - n) /\ n + j = i
      BY <1>1, <2>1, <2>3, SMT
    <3> HIDE DEF j
    <3> QED BY <1>2, <1>3, <1>6, <1>7, <3>1
  <2> QED BY <2>2, <2>3
<1>9. e = c
  BY <1>4, <1>7, <1>8, SameBytes DEF l
<1> QED BY <1>9 DEF e, x, y

\* What is left of a piece without its front.
LEMMA PieceDrop ==
  ASSUME NEW c \in Seq(Cell), NEW at \in Nat, NEW s, Piece(c, at, s), NEW m \in 0..Len(s)
  PROVE  Piece(c, at + m, Drop(s, m)) /\ Len(Drop(s, m)) = Len(s) - m
<1> DEFINE l == Len(c)
           sl == Len(s)
           d == Drop(s, m)
<1>1. s \in Seq(Cell) /\ l \in Nat /\ sl \in Nat /\ at + sl <= l /\ \A i \in 1..sl : s[i] = c[at + i]
  BY LenIs DEF Piece
<1>2. m \in 0..sl
  OBVIOUS
<1>3. m \in Nat
  <2> HIDE DEF sl
  <2> QED BY <1>1, <1>2, SMT
<1>4. d \in Seq(Cell) /\ Len(d) = Most(0, sl - m) /\ \A i \in 1..(sl - m) : d[i] = s[m + i]
  BY <1>1, <1>3, DropIs
<1> HIDE DEF d, sl, l
<1>5. Len(d) = sl - m /\ (at + m) + (sl - m) <= l
  BY <1>1, <1>2, <1>4, SMT DEF Most
<1>6. ASSUME NEW i \in 1..Len(d) PROVE d[i] = c[(at + m) + i]
  <2>1. i \in 1..(sl - m) /\ m + i \in 1..sl /\ at + (m + i) = (at + m) + i
    BY <1>1, <1>2, <1>3, <1>5, SMT
  <2> QED BY <1>1, <1>4, <2>1
<1> QED BY <1>4, <1>5, <1>6 DEF Piece, d, l, sl

-----------------------------------------------------------------------------
(* The stream as its client sees it, and reading from it.                  *)

StreamType ==
  [content : Seq(Cell), pos : Nat, pushed : Seq(Cell), eof : BOOLEAN, err : BOOLEAN, app : BOOLEAN,
   late : BOOLEAN]

Ahead(st) == Join(st.pushed, Drop(st.content, st.pos))

\* From f, t was read, which leaves g.
Reads(f, g, t) ==
  /\ f \in StreamType /\ g \in StreamType
  /\ g.content = f.content /\ g.err = f.err /\ g.app = f.app /\ g.late = f.late
  /\ g.pushed = Drop(f.pushed, Len(t)) /\ g.pos = f.pos + Most(0, Len(t) - Len(f.pushed))
  /\ Len(t) \in 0..Len(Ahead(f)) /\ t = Front(Ahead(f), Len(t))

\* What the fields of a stream are.
LEMMA StreamTypes ==
  ASSUME NEW f \in StreamType
  PROVE  /\ f.content \in Seq(Cell) /\ f.pos \in Nat /\ f.pushed \in Seq(Cell)
         /\ f.eof \in BOOLEAN /\ f.err \in BOOLEAN /\ f.app \in BOOLEAN /\ f.late \in BOOLEAN
         /\ Len(f.pushed) \in Nat /\ Len(f.content) \in Nat
         /\ Ahead(f) \in Seq(Cell) /\ Len(Ahead(f)) \in Nat
         /\ Len(Ahead(f)) = Len(f.pushed) + Most(0, Len(f.content) - f.pos)
<1>1. /\ f.content \in Seq(Cell) /\ f.pos \in Nat /\ f.pushed \in Seq(Cell)
      /\ f.eof \in BOOLEAN /\ f.err \in BOOLEAN /\ f.app \in BOOLEAN /\ f.late \in BOOLEAN
  BY DEF StreamType
<1>2. Drop(f.content, f.pos) \in Seq(Cell) /\ Len(Drop(f.content, f.pos)) = Most(0, Len(f.content) - f.pos)
  BY <1>1, DropIs
<1> DEFINE d == Drop(f.content, f.pos)
           h == f.pushed
<1> HIDE DEF d
<1>3. Join(h, d) \in Seq(Cell) /\ Len(Join(h, d)) = Len(h) + Len(d)
  BY <1>1, <1>2, JoinIs DEF d
<1> QED BY <1>1, <1>2, <1>3, LenIs DEF Ahead, d

\* Reading nothing.
LEMMA ReadsNothing ==
  ASSUME NEW f \in StreamType, NEW g \in StreamType,
         g.content = f.content, g.err = f.err, g.app = f.app, g.late = f.late,
         g.pushed = f.pushed, g.pos = f.pos
  PROVE  Reads(f, g, <<>>)
<1> DEFINE a == Ahead(f)
           h == f.pushed
           b == Len(h)
           al == Len(a)
           ps == f.pos
<1>1. h \in Seq(Cell) /\ a \in Seq(Cell) /\ al \in Nat /\ b \in Nat /\ ps \in Nat /\ Len(<<>>) = 0
  BY StreamTypes, EmptySeq
<1> HIDE DEF a, h, b, al, ps
<1>2. ps = ps + Most(0, 0 - b) /\ 0 \in 0..al
  BY <1>1, SMT DEF Most
<1>3. Front(a, 0) = <<>> /\ Drop(h, 0) = h
  BY <1>1, FrontNone
<1> QED BY <1>1, <1>2, <1>3 DEF Reads, a, h, b, al, ps

\* What is ahead once n bytes were read.
LEMMA AheadAfter ==
  ASSUME NEW f, NEW g, NEW t, Reads(f, g, t)
  PROVE  Ahead(g) = Drop(Ahead(f), Len(t)) /\ t \in Seq(Cell) /\ Len(t) \in Nat
<1> DEFINE n == Len(t)
           h == f.pushed
           c == f.content
           ps == f.pos
           b == Len(h)
           m == Most(0, n - b)
           A == Ahead(f)
<1>1. h \in Seq(Cell) /\ c \in Seq(Cell) /\ ps \in Nat /\ b \in Nat /\ A \in Seq(Cell) /\ Len(A) \in Nat
      /\ n \in 0..Len(A) /\ t = Front(A, n)
  BY StreamTypes DEF Reads
<1>2. n \in Nat
  <2> DEFINE l == Len(A)
  <2> HIDE DEF l, n
  <2>1. l \in Nat /\ n \in 0..l
    BY <1>1 DEF l
  <2> QED BY <2>1, SMT
<1>3. t \in Seq(Cell)
  <2> HIDE DEF n, A
  <2> QED BY <1>1, FrontIs
<1>4. m \in Nat
  <2> HIDE DEF n, b
  <2> QED BY <1>1, <1>2, SMT DEF Most
<1>5. A = Join(h, Drop(c, ps))
  BY DEF Ahead
<1>6. g.pushed = Drop(h, n) /\ g.content = c /\ g.pos = ps + m
  BY DEF Reads
<1>7. Ahead(g) = Join(Drop(h, n), Drop(c, ps + m))
  BY <1>6 DEF Ahead
<1> DEFINE d == Drop(c, ps)
<1>8. d \in Seq(Cell) /\ Drop(d, m) = Drop(c, ps + m)
  <2>1. d \in Seq(Cell)
    BY <1>1, DropIs
  <2> HIDE DEF m, c, ps
  <2> QED BY <1>1, <1>4, <2>1, DropDrop
<1> HIDE DEF d, n, h, c
<1>9. Drop(Join(h, d), n) = Join(Drop(h, n), Drop(d, m))
  BY <1>1, <1>2, <1>8, DropJoin
<1> QED BY <1>2, <1>3, <1>5, <1>7, <1>8, <1>9 DEF d, n

\* Reading twice is reading once.
LEMMA ReadsMore ==
  ASSUME NEW f, NEW g, NEW t, Reads(f, g, t), NEW h, NEW u, Reads(g, h, u)
  PROVE  Reads(f, h, Join(t, u)) /\ Len(Join(t, u)) = Len(t) + Len(u)
         /\ Len(t) \in Nat /\ Len(u) \in Nat
<1> DEFINE n == Len(t)
           k == Len(u)
           A == Ahead(f)
           B == Ahead(g)
           v == Join(t, u)
           al == Len(A)
           nk == n + k
<1>1. t \in Seq(Cell) /\ u \in Seq(Cell) /\ n \in Nat /\ k \in Nat /\ B = Drop(A, n)
  BY AheadAfter
<1>2. v \in Seq(Cell) /\ Len(v) = n + k
  BY <1>1, JoinIs
<1>3. A \in Seq(Cell) /\ al \in Nat /\ n \in 0..al /\ t = Front(A, n)
      /\ k \in 0..Len(B) /\ u = Front(B, k)
  BY StreamTypes DEF Reads
<1>4. Len(B) = Most(0, al - n)
  BY <1>1, <1>3, DropIs
<1> HIDE DEF A, B, n, k, al
<1>5. n + k <= al /\ nk \in 0..al
  BY <1>1, <1>3, <1>4, SMT DEF Most
<1>6. Join(Front(A, n), Front(Drop(A, n), k)) = Front(A, nk)
  <2>1. n + k <= Len(A)
    BY <1>5 DEF al
  <2> QED BY <1>1, <1>3, <2>1, FrontMore
<1>7. v = Front(A, Len(v)) /\ Len(v) \in 0..Len(A)
  BY <1>1, <1>2, <1>3, <1>5, <1>6 DEF al
<1> DEFINE hp == f.pushed
           b == Len(hp)
           gp == g.pushed
           gb == Len(gp)
           ps == f.pos
<1>8. hp \in Seq(Cell) /\ b \in Nat /\ ps \in Nat /\ f \in StreamType /\ h \in StreamType
  BY StreamTypes DEF Reads
<1>9. gp = Drop(hp, n) /\ g.pos = ps + Most(0, n - b) /\ h.pushed = Drop(gp, k)
      /\ h.pos = g.pos + Most(0, k - gb)
  BY DEF Reads, n, k
<1>10. gb = Most(0, b - n)
  BY <1>1, <1>8, <1>9, DropIs
<1>11. Drop(Drop(hp, n), k) = Drop(hp, nk)
  BY <1>1, <1>8, DropDrop
<1> DEFINE gs == g.pos
           hs == h.pos
<1>12. gs = ps + Most(0, n - b) /\ hs = gs + Most(0, k - gb)
  BY <1>9
<1> HIDE DEF hp, b, gb, ps, gs, hs, gp
<1>13. hs = ps + Most(0, nk - b)
  BY <1>1, <1>8, <1>10, <1>12, SMT DEF Most
<1>14. h.pushed = Drop(f.pushed, Len(v)) /\ h.pos = f.pos + Most(0, Len(v) - Len(f.pushed))
  BY <1>2, <1>9, <1>11, <1>13 DEF hp, b, ps, hs
<1>15. h.content = f.content /\ h.err = f.err /\ h.app = f.app /\ h.late = f.late
  BY DEF Reads
<1> QED BY <1>1, <1>2, <1>7, <1>8, <1>14, <1>15 DEF Reads, n, k, A

\* What is in the buffer, behind the bytes pushed back, stands in the file
\* before the device's position.
ReadAhead(p) ==
  p.unread # <<>> =>
    LET k == Len(p.unread) - p.pushed
    IN k <= p.off /\ Piece(p.file, p.off - k, Drop(p.unread, p.pushed))

\* A FILE as its client relies on it: low is where rpos was when nothing was
\* pushed back, no lower than the buffer but in the turns of getdelim.
Kept(p, low) ==
  /\ BufRight(p) /\ ReadAhead(p)
  /\ p.eof => p.unread = <<>>
  /\ p.act = "read" => p.rd /\ p.rpos + p.pushed >= low /\ (low # 0 => p.pushed = 0)

\* No error and no loss is reported.
Clean(p) == ~p.err /\ ~p.lost

\* The fields of the stream, which what is unwritten has a part in.
Content(p) == IF p.held = <<>> THEN p.file ELSE Written(p, p.held)
Position(p) == IF p.held # <<>> THEN At(p) + Len(p.held) ELSE p.off - (Len(p.unread) - p.pushed)

\* The stream that the client of p sees.
LEMMA StreamIs ==
  ASSUME NEW p
  PROVE  Stream(p) = [content |-> Content(p), pos |-> Position(p), pushed |-> Front(p.unread, p.pushed),
                      eof |-> p.eof, err |-> p.err \/ p.lost, app |-> p.app, late |-> p.app /\ p.dev = "mem"]
BY DEF Stream, Content, Position, Front, Written, At

\* It is a stream of the promise.
LEMMA KeptIs ==
  ASSUME NEW p, BufRight(p), ReadAhead(p)
  PROVE  /\ Stream(p) \in StreamType
         /\ Stream(p).content = Content(p) /\ Stream(p).pos = Position(p)
         /\ Stream(p).pushed = Front(p.unread, p.pushed) /\ Len(Front(p.unread, p.pushed)) = p.pushed
         /\ Stream(p).eof = p.eof /\ Stream(p).err = (p.err \/ p.lost)
         /\ Stream(p).app = p.app /\ Stream(p).late = (p.app /\ p.dev = "mem")
         /\ Content(p) \in Seq(Cell) /\ Position(p) \in Nat
<1> DEFINE c == Content(p)
           ps == Position(p)
           u == Front(p.unread, p.pushed)
           e == p.eof
           x == p.err \/ p.lost
           a == p.app
           l == p.app /\ p.dev = "mem"
           g == p.pushed
           ul == Len(p.unread)
           off == p.off
           hl == Len(p.held)
           at == At(p)
<1>1. /\ p \in FileType /\ DeviceSound(p) /\ p.held \in Seq(Cell) /\ p.unread \in Seq(Cell)
      /\ g \in Nat /\ ul \in Nat /\ hl \in Nat /\ at \in Nat /\ g <= ul
  BY RightIs
<1>2. off \in Nat /\ p.file \in Seq(Cell) /\ e \in BOOLEAN /\ a \in BOOLEAN
  BY <1>1, Types
<1>3. x \in BOOLEAN /\ l \in BOOLEAN
  OBVIOUS
<1>4. c \in Seq(Cell)
  BY <1>1, <1>2, WrittenIs DEF Content
<1>5. ps \in Nat
  <2>1. CASE p.held # <<>>
    <3>1. ps = at + hl
      BY <2>1 DEF Position
    <3> HIDE DEF ps, at, hl
    <3> QED BY <1>1, <3>1, SMT
  <2>2. CASE p.held = <<>>
    <3>1. ps = off - (ul - g)
      BY <2>2 DEF Position
    <3>2. ul # 0 => ul - g <= off
      BY <1>1, EmptyIs DEF ReadAhead
    <3> HIDE DEF ps, ul, g, off
    <3> QED BY <1>1, <1>2, <3>1, <3>2, SMT
  <2> QED BY <2>1, <2>2
<1>6. u \in Seq(Cell) /\ Len(u) = g
  <2>1. g \in 0..ul
    <3> HIDE DEF g, ul
    <3> QED BY <1>1, SMT
  <2> QED BY <1>1, <2>1, FrontIs
<1>7. Stream(p) = [content |-> c, pos |-> ps, pushed |-> u, eof |-> e, err |-> x, app |-> a, late |-> l]
  BY StreamIs
<1> HIDE DEF c, ps, u, e, x, a, l, g
<1>8. /\ Stream(p) \in StreamType
      /\ Stream(p).content = c /\ Stream(p).pos = ps /\ Stream(p).pushed = u
      /\ Stream(p).eof = e /\ Stream(p).err = x /\ Stream(p).app = a /\ Stream(p).late = l
  BY <1>2, <1>3, <1>4, <1>5, <1>6, <1>7 DEF StreamType
<1> QED BY <1>4, <1>5, <1>6, <1>8 DEF c, ps, u, e, x, a, l, g

\* Two FILEs that are the same stream.
LEMMA SameStream ==
  ASSUME NEW p, NEW q, Content(p) = Content(q), Position(p) = Position(q),
         Front(p.unread, p.pushed) = Front(q.unread, q.pushed), p.eof = q.eof,
         (p.err \/ p.lost) = (q.err \/ q.lost), p.app = q.app, p.dev = q.dev
  PROVE  Stream(p) = Stream(q)
<1>1. Stream(p) = [content |-> Content(p), pos |-> Position(p), pushed |-> Front(p.unread, p.pushed),
                      eof |-> p.eof, err |-> p.err \/ p.lost, app |-> p.app, late |-> p.app /\ p.dev = "mem"]
  BY StreamIs
<1>2. Stream(q) = [content |-> Content(q), pos |-> Position(q), pushed |-> Front(q.unread, q.pushed),
                      eof |-> q.eof, err |-> q.err \/ q.lost, app |-> q.app, late |-> q.app /\ q.dev = "mem"]
  BY StreamIs
<1> QED BY <1>1, <1>2

\* Without unread bytes.
LEMMA NothingUnread ==
  ASSUME NEW p, p.unread = <<>>
  PROVE  ReadAhead(p) /\ (p.pushed = 0 => Front(p.unread, p.pushed) = <<>>)
         /\ (p.held = <<>> /\ p.pushed = 0 /\ p.off \in Nat => Position(p) = p.off)
<1>1. Len(<<>>) = 0 /\ Front(<<>>, 0) = <<>>
  BY EmptySeq, FrontNone
<1>2. ASSUME p.held = <<>>, p.pushed = 0, p.off \in Nat PROVE Position(p) = p.off
  <2> DEFINE o == p.off
  <2>1. Position(p) = o - (0 - 0)
    BY <1>1, <1>2 DEF Position
  <2> HIDE DEF o
  <2>2. o - (0 - 0) = o
    BY <1>2, SMT DEF o
  <2> QED BY <2>1, <2>2 DEF o
<1> QED BY <1>1, <1>2 DEF ReadAhead

\* A reader has before it what is in the buffer, then the rest of the file.
LEMMA AheadIs ==
  ASSUME NEW p, BufRight(p), ReadAhead(p), p.held = <<>>
  PROVE  Ahead(Stream(p)) = Join(p.unread, Drop(p.file, p.off))
<1> DEFINE u == p.unread
           g == p.pushed
           f == p.file
           off == p.off
           ul == Len(u)
           x == Front(u, g)
           y == Drop(u, g)
           z == Drop(f, off)
           yl == Len(y)
           k == ul - g
           ps == off - k
<1>1. /\ p \in FileType /\ u \in Seq(Cell) /\ g \in Nat /\ ul \in Nat /\ g <= ul
      /\ f \in Seq(Cell) /\ off \in Nat
  <2>1. p \in FileType /\ u \in Seq(Cell) /\ g \in Nat /\ ul \in Nat /\ g <= ul
    BY RightIs
  <2> QED BY <2>1, Types
<1>2. Stream(p).pushed = x /\ Stream(p).content = f /\ Stream(p).pos = ps
  <2>1. Content(p) = f /\ Position(p) = ps
    BY DEF Content, Position
  <2> QED BY <2>1, KeptIs
<1>3. z \in Seq(Cell) /\ g \in 0..ul
  <2>1. z \in Seq(Cell)
    BY <1>1, DropIs
  <2> HIDE DEF ul, g
  <2> QED BY <1>1, <2>1, SMT
<1>4. Ahead(Stream(p)) = Join(x, Drop(f, ps))
  BY <1>2 DEF Ahead
<1>5. CASE u = <<>>
  <2>1. ul = 0 /\ g = 0
    <3>1. ul = 0
      BY <1>5, EmptySeq
    <3> HIDE DEF ul, g
    <3>2. g = 0
      BY <1>1, <3>1, SMT
    <3> QED BY <3>1, <3>2
  <2>2. ps = off
    <3> HIDE DEF off, ul, g
    <3> QED BY <1>1, <2>1, SMT
  <2>3. x = <<>>
    BY <1>1, <2>1, FrontNone
  <2> HIDE DEF x, ps, z, u, f, off
  <2>4. Ahead(Stream(p)) = Join(<<>>, z)
    BY <1>4, <2>2, <2>3 DEF z
  <2>5. Join(<<>>, z) = z /\ Join(u, z) = z
    BY <1>3, <1>5, JoinAll
  <2> QED BY <2>4, <2>5 DEF u, z, f, off
<1>6. CASE u # <<>>
  <2>1. k <= off /\ Piece(f, ps, y)
    BY <1>6 DEF ReadAhead
  <2>2. y \in Seq(Cell) /\ yl = Most(0, ul - g)
    BY <1>1, DropIs
  <2>3. x \in Seq(Cell) /\ Join(x, y) = u
    BY <1>1, <1>3, FrontIs, FrontDrop
  <2> HIDE DEF y, x, ul, g, u, off
  <2>4. yl = k /\ ps \in Nat /\ ps + yl = off
    BY <1>1, <2>1, <2>2, SMT DEF Most
  <2> HIDE DEF k, ps, yl, z, f
  <2>5. Drop(f, ps) = Join(y, Drop(f, ps + Len(y)))
    BY <1>1, <2>1, <2>4, PieceFront
  <2>6. Drop(f, ps) = Join(y, z)
    BY <2>4, <2>5 DEF yl, z
  <2>7. Join(x, Join(y, z)) = Join(Join(x, y), z)
    BY <1>3, <2>2, <2>3, JoinAll
  <2> QED BY <1>4, <2>3, <2>6, <2>7 DEF u, z, f, off
<1> QED BY <1>5, <1>6

\* Bytes taken from the buffer are read.
LEMMA TakeReads ==
  ASSUME NEW p, BufRight(p), ReadAhead(p), NEW k \in 0..Len(p.unread), NEW q, q = Take(p, k)
  PROVE  /\ BufRight(q) /\ ReadAhead(q) /\ Same(p, q) /\ q.eof = p.eof /\ q.err = p.err /\ q.lost = p.lost
         /\ q.act = p.act /\ q.held = p.held /\ Len(q.unread) = Len(p.unread) - k
         /\ Reads(Stream(p), Stream(q), Front(p.unread, k)) /\ Len(Front(p.unread, k)) = k
         /\ q.rpos = p.rpos + k /\ q.pushed = Most(0, p.pushed - k)
<1> DEFINE u == p.unread
           ul == Len(u)
           g == p.pushed
           h == q.pushed
           r == p.rpos
           off == p.off
           f == p.file
<1>1. /\ p \in FileType /\ DeviceSound(p) /\ u \in Seq(Cell) /\ g \in Nat /\ ul \in Nat /\ g <= ul /\ r \in Int
      /\ (p.act # "read" => u = <<>>) /\ (p.act # "write" => p.held = <<>>)
  BY RightIs
<1>2. f \in Seq(Cell) /\ off \in Nat
  BY <1>1, Types
<1>3. /\ BufRight(q) /\ Same(p, q) /\ q.unread = Drop(u, k) /\ Len(q.unread) = ul - k
      /\ q.held = p.held /\ q.act = p.act /\ q.file = f /\ q.off = off
  BY TakeIs DEF Drop
<1>4. q.rpos = r + k /\ h = Most(0, g - k) /\ q.eof = p.eof /\ q.err = p.err /\ q.lost = p.lost
  <2> DEFINE x == SubSeq(p.unread, k + 1, Len(p.unread))
             y == p.rpos + k
             z == Most(0, p.pushed - k)
  <2>1. q = [p EXCEPT !.unread = x, !.rpos = y, !.pushed = z]
    BY DEF Take
  <2> HIDE DEF x, y, z
  <2>2. q.rpos = y /\ q.pushed = z /\ q.eof = p.eof /\ q.err = p.err /\ q.lost = p.lost
    BY <1>1, <2>1, ZenonT(60) DEF FileType
  <2> QED BY <2>2 DEF y, z
<1>5. k \in 0..ul /\ k \in Nat /\ k <= ul
  <2>1. k \in 0..ul
    OBVIOUS
  <2> HIDE DEF ul
  <2> QED BY <1>1, <2>1, SMT
<1>6. ReadAhead(q)
  <2> SUFFICES ASSUME q.unread # <<>>
               PROVE  LET d == Len(q.unread) - h
                      IN d <= off /\ Piece(f, off - d, Drop(q.unread, h))
    BY <1>3 DEF ReadAhead
  <2>1. ul # 0
    <3>1. Len(q.unread) # 0
      <4>1. q.unread \in Seq(Cell)
        BY <1>3, RightIs
      <4> QED BY <4>1, EmptyIs
    <3> DEFINE l == Len(q.unread)
    <3>2. l = ul - k /\ l # 0
      BY <1>3, <3>1
    <3> HIDE DEF l, ul
    <3> QED BY <1>1, <1>5, <3>2, SMT
  <2> DEFINE kk == ul - g
             y == Drop(u, g)
             m == Most(0, k - g)
             ps == off - kk
             l == Len(q.unread)
  <2>2. kk <= off /\ Piece(f, ps, y)
    <3>1. u # <<>>
      BY <1>1, <2>1, EmptyIs
    <3> QED BY <3>1 DEF ReadAhead
  <2>3. Len(y) = Most(0, ul - g)
    BY <1>1, DropIs
  <2>4. l = ul - k
    BY <1>3
  <2> HIDE DEF y, ul, g, l, h, off
  <2>5. /\ ps \in Nat /\ m \in 0..Len(y) /\ ps + m = off - (l - h) /\ l - h <= off
        /\ g + m = k + h /\ h \in Nat /\ m \in Nat
    BY <1>1, <1>2, <1>4, <1>5, <2>2, <2>3, <2>4, SMT DEF Most
  <2> HIDE DEF kk, m, ps
  <2>6. Piece(f, ps + m, Drop(y, m))
    BY <1>2, <2>2, <2>5, PieceDrop
  <2>7. Drop(y, m) = Drop(u, g + m)
    BY <1>1, <2>5, DropDrop DEF y
  <2>8. Drop(Drop(u, k), h) = Drop(u, k + h)
    <3>1. u \in Seq(Cell) /\ k \in Nat /\ h \in Nat
      BY <1>1, <1>5, <2>5
    <3> HIDE DEF u
    <3> QED BY <3>1, DropDrop, ZenonT(30)
  <2>9. Drop(q.unread, h) = Drop(y, m)
    BY <1>3, <2>5, <2>7, <2>8
  <2> QED BY <2>5, <2>6, <2>9 DEF l
<1>7. Len(Front(u, k)) = k /\ Front(u, k) \in Seq(Cell)
  BY <1>1, <1>5, FrontIs
<1>8. /\ Stream(p) \in StreamType /\ Stream(p).content = Content(p) /\ Stream(p).pos = Position(p)
      /\ Stream(p).pushed = Front(u, g) /\ Len(Front(u, g)) = g
      /\ Stream(p).eof = p.eof /\ Stream(p).err = (p.err \/ p.lost)
      /\ Stream(p).app = p.app /\ Stream(p).late = (p.app /\ p.dev = "mem")
  BY KeptIs
<1>9. /\ Stream(q) \in StreamType /\ Stream(q).content = Content(q) /\ Stream(q).pos = Position(q)
      /\ Stream(q).pushed = Front(q.unread, h)
      /\ Stream(q).eof = q.eof /\ Stream(q).err = (q.err \/ q.lost)
      /\ Stream(q).app = q.app /\ Stream(q).late = (q.app /\ q.dev = "mem")
  BY <1>3, <1>6, KeptIs
<1>10. Content(q) = Content(p) /\ q.app = p.app /\ q.dev = p.dev
  <2>1. q.app = p.app /\ q.dev = p.dev
    BY <1>3 DEF Same
  <2>2. At(q) = At(p)
    BY <1>3, <2>1 DEF At
  <2> QED BY <1>3, <2>1, <2>2 DEF Content, Written
<1>11. Position(q) = Position(p) + Most(0, k - g)
  <2> DEFINE P == Position(p)
             Q == Position(q)
             ql == Len(q.unread)
  <2>1. CASE p.held # <<>>
    <3>1. u = <<>>
      BY <1>1, <2>1
    <3>2. ul = 0
      BY <3>1, EmptySeq
    <3> DEFINE pa == At(p) + Len(p.held)
    <3>3. Q = pa /\ P = pa /\ pa \in Nat
      <4>1. At(q) = At(p)
        BY <1>3, <1>10 DEF At
      <4>2. P \in Nat
        BY KeptIs
      <4> QED BY <1>3, <2>1, <4>1, <4>2 DEF Position
    <3> HIDE DEF P, Q, ul, g, pa
    <3>4. Q = P + Most(0, k - g)
      BY <1>1, <1>5, <3>2, <3>3, SMT DEF Most
    <3> QED BY <3>4 DEF P, Q, g
  <2>2. CASE p.held = <<>>
    <3>1. P = off - (ul - g) /\ Q = off - (ql - h) /\ ql = ul - k
      BY <1>3, <2>2 DEF Position
    <3> HIDE DEF P, Q, ul, g, h, off, ql
    <3>2. Q = P + Most(0, k - g)
      BY <1>1, <1>2, <1>4, <1>5, <3>1, SMTT(30) DEF Most
    <3> QED BY <3>2 DEF P, Q, g
  <2> QED BY <2>1, <2>2
<1>12. Front(q.unread, h) = Drop(Front(u, g), k)
  <2> DEFINE a == Front(u, g)
             b == Front(q.unread, h)
             c == Drop(a, k)
             ql == Len(q.unread)
  <2>1. g \in 0..ul /\ h \in 0..ql
    <3>1. ql = ul - k
      BY <1>3
    <3> HIDE DEF g, h, ul, ql
    <3> QED BY <1>1, <1>4, <1>5, <3>1, SMT DEF Most
  <2>2. a \in Seq(Cell) /\ Len(a) = g /\ \A i \in 1..g : a[i] = u[i]
    BY <1>1, <2>1, FrontIs
  <2>3. q.unread \in Seq(Cell)
    BY <1>3, RightIs
  <2>4. b \in Seq(Cell) /\ Len(b) = h /\ \A i \in 1..h : b[i] = q.unread[i]
    BY <2>1, <2>3, FrontIs
  <2>5. c \in Seq(Cell) /\ Len(c) = Most(0, g - k) /\ \A i \in 1..(g - k) : c[i] = a[k + i]
    <3> HIDE DEF a
    <3>1. c \in Seq(Cell) /\ Len(c) = Most(0, Len(a) - k) /\ \A i \in 1..(Len(a) - k) : c[i] = a[k + i]
      <4>1. a \in Seq(Cell) /\ k \in Nat
        BY <1>5, <2>2
      <4> QED BY <4>1, DropIs
    <3> HIDE DEF c
    <3> QED BY <2>2, <3>1
  <2>6. \A i \in 1..(ul - k) : q.unread[i] = u[k + i]
    <3>1. u \in Seq(Cell) /\ k \in Nat
      BY <1>1, <1>5
    <3>2. \A i \in 1..(Len(u) - k) : Drop(u, k)[i] = u[k + i]
      BY <3>1, DropIs
    <3> QED BY <1>3, <3>2
  <2> HIDE DEF a, b, c, g, h, ul, ql
  <2>7. ASSUME NEW i \in 1..Len(b) PROVE b[i] = c[i]
    <3>1. i \in 1..h /\ i \in 1..(g - k) /\ k + i \in 1..g /\ i \in 1..(ul - k)
      BY <1>1, <1>4, <1>5, <2>1, <2>4, SMT DEF Most
    <3> QED BY <2>2, <2>4, <2>5, <2>6, <3>1
  <2>8. b = c
    BY <1>4, <2>4, <2>5, <2>7, SameBytes
  <2> QED BY <2>8 DEF a, b, c, g, h
<1>13. CASE k = 0
  <2>1. Drop(Front(u, g), 0) = Front(u, g) /\ Front(u, 0) = <<>>
    <3>1. Front(u, g) \in Seq(Cell)
      <4>1. g \in 0..ul
        <5> HIDE DEF g, ul
        <5> QED BY <1>1, SMT
      <4> QED BY <1>1, <4>1, FrontIs
    <3> QED BY <1>1, <3>1, FrontNone
  <2>2. Position(q) = Position(p)
    <3> DEFINE P == Position(p)
               Q == Position(q)
    <3>1. P \in Nat /\ Q = P + Most(0, 0 - g)
      BY <1>11, <1>13, KeptIs
    <3> HIDE DEF P, Q, g
    <3>2. Q = P
      BY <1>1, <3>1, SMT DEF Most
    <3> QED BY <3>2 DEF P, Q
  <2>3. Reads(Stream(p), Stream(q), <<>>)
    <3>1. Stream(q).pushed = Stream(p).pushed /\ Stream(q).pos = Stream(p).pos
      BY <1>8, <1>9, <1>12, <1>13, <2>1, <2>2
    <3>2. /\ Stream(q).content = Stream(p).content /\ Stream(q).err = Stream(p).err
          /\ Stream(q).app = Stream(p).app /\ Stream(q).late = Stream(p).late
      BY <1>4, <1>8, <1>9, <1>10
    <3> QED BY <1>8, <1>9, <3>1, <3>2, ReadsNothing
  <2> QED BY <1>3, <1>4, <1>6, <1>7, <1>13, <2>1, <2>3
<1>14. CASE k # 0
  <2>1. p.held = <<>>
    <3>1. u # <<>>
      <4>1. ul # 0
        <5> HIDE DEF ul
        <5> QED BY <1>1, <1>5, <1>14, SMT
      <4> QED BY <1>1, <4>1, EmptyIs
    <3> QED BY <1>1, <3>1
  <2> DEFINE z == Drop(f, off)
             t == Front(u, k)
  <2>2. Ahead(Stream(p)) = Join(u, z)
    BY <2>1, AheadIs
  <2>3. z \in Seq(Cell)
    BY <1>2, DropIs
  <2> HIDE DEF z
  <2>4. Front(Join(u, z), k) = t /\ k \in 0..Len(Join(u, z))
    BY <1>1, <1>5, <2>3, FrontOfJoin
  <2>5. Len(t) \in 0..Len(Ahead(Stream(p))) /\ t = Front(Ahead(Stream(p)), Len(t))
    BY <1>7, <2>2, <2>4
  <2>6. Stream(q).pushed = Drop(Stream(p).pushed, Len(t))
    BY <1>7, <1>8, <1>9, <1>12
  <2>7. Stream(q).pos = Stream(p).pos + Most(0, Len(t) - Len(Stream(p).pushed))
    BY <1>7, <1>8, <1>9, <1>11
  <2>8. /\ Stream(q).content = Stream(p).content /\ Stream(q).err = Stream(p).err
        /\ Stream(q).app = Stream(p).app /\ Stream(q).late = Stream(p).late
    BY <1>4, <1>8, <1>9, <1>10
  <2>9. Reads(Stream(p), Stream(q), t)
    BY <1>8, <1>9, <2>5, <2>6, <2>7, <2>8 DEF Reads
  <2> QED BY <1>3, <1>4, <1>6, <1>7, <2>9
<1> QED BY <1>13, <1>14

\* After a flush the stream is the same, unless an error or a loss is reported.
LEMMA FlushKeeps ==
  ASSUME NEW p, BufRight(p), NEW q \in Flushed(p)
  PROVE  /\ Same(p, q) /\ SameUnread(p, q) /\ BufRight(q) /\ (q.act = "read" => p.act = "read")
         /\ \/ q.lost
            \/ q.err /\ q.act = "none" /\ p.held # <<>>
            \/ /\ Stream(q) = Stream(p) /\ Content(q) = Content(p) /\ Position(q) = Position(p)
               /\ q.held = <<>> /\ q.act = p.act /\ q.err = p.err /\ q.lost = p.lost
<1>1. /\ BufRight(q) /\ Same(p, q) /\ SameUnread(p, q)
      /\ p.held = <<>> => q = p
      /\ p.held # <<>> => /\ p.act = "write"
                          /\ \E o \in WriteOp(p, <<>>) : q = o.p /\ Wrote(p, <<>>, o)
  BY FlushedIs
<1>2. CASE p.held = <<>>
  BY <1>1, <1>2
<1>3. CASE p.held # <<>>
  <2>1. PICK o \in WriteOp(p, <<>>) : q = o.p /\ Wrote(p, <<>>, o)
    BY <1>1, <1>3
  <2>2. (AllOut(p, <<>>, o) \/ NotOut(p, o)) /\ q.act \in {"write", "none"}
    BY <2>1 DEF Wrote
  <2>3. CASE NotOut(p, o)
    BY <1>1, <1>3, <2>1, <2>2, <2>3 DEF NotOut
  <2>4. CASE AllOut(p, <<>>, o)
    <3>1. /\ q.held = <<>> /\ q.act = "write" /\ q.err = p.err /\ q.lost = p.lost
          /\ q.file = Written(p, p.held \o <<>>) /\ q.off = At(p) + Len(p.held \o <<>>)
      BY <2>1, <2>4 DEF AllOut
    <3>2. p.held \o <<>> = p.held
      <4>1. p.held \in Seq(Cell)
        BY RightIs
      <4>2. Join(p.held, <<>>) = p.held
        BY <4>1, JoinAll
      <4> QED BY <4>2 DEF Join
    <3>3. Content(q) = Content(p)
      BY <1>3, <3>1, <3>2 DEF Content
    <3>4. p.unread = <<>> /\ p.pushed = 0
      <4>1. p.act = "write"
        BY <1>1, <1>3
      <4>2. p.unread = <<>> /\ p.pushed <= Len(p.unread) /\ p.pushed \in Nat
        BY <4>1, RightIs
      <4>3. Len(p.unread) = 0
        BY <4>2, EmptySeq
      <4> QED BY <4>2, <4>3, SMT
    <3>5. q.unread = <<>> /\ q.pushed = 0 /\ q.eof = p.eof
      BY <1>1, <3>4 DEF SameUnread
    <3>6. Position(q) = Position(p)
      <4>1. q.off \in Nat
        <5>1. q \in FileType
          BY <1>1, RightIs
        <5> QED BY <5>1, Types
      <4>2. Position(q) = q.off
        BY <3>1, <3>5, <4>1, NothingUnread
      <4>3. Position(p) = At(p) + Len(p.held)
        BY <1>3 DEF Position
      <4> QED BY <3>1, <3>2, <4>2, <4>3
    <3>7. p.app = q.app /\ p.dev = q.dev
      BY <1>1 DEF Same
    <3>8. Stream(p) = Stream(q)
      BY <3>1, <3>3, <3>4, <3>5, <3>6, <3>7, SameStream
    <3> QED BY <1>1, <1>3, <2>2, <3>1, <3>3, <3>6, <3>8
  <2> QED BY <2>2, <2>3, <2>4
<1> QED BY <1>2, <1>3

\* Nothing is unread or pushed back.
LEMMA NonePushed ==
  ASSUME NEW p, BufRight(p), p.unread = <<>>
  PROVE  p.pushed = 0 /\ Len(p.unread) = 0
<1>1. p.pushed <= Len(p.unread) /\ p.pushed \in Nat
  BY RightIs
<1>2. Len(p.unread) = 0
  BY EmptySeq
<1> QED BY <1>1, <1>2, SMT

\* __toread of a stream with nothing unread.
LEMMA ToReadKeeps ==
  ASSUME NEW p, Kept(p, 0), p.unread = <<>>, NEW r \in ToRead(p)
  PROVE  /\ Kept(r, 0) /\ Same(p, r) /\ Flagged(p, r) /\ r.unread = <<>> /\ r.pushed = 0 /\ r.held = <<>>
         /\ r.eof = p.eof
         /\ r.rd => r.act = "read" /\ r.rpos = r.size
         /\ Clean(r) => Stream(r) = Stream(p) /\ r.rd
<1> DEFINE New(x) == IF x.rd THEN [x EXCEPT !.act = "read", !.rpos = x.size, !.unread = <<>>, !.pushed = 0]
                     ELSE [x EXCEPT !.err = TRUE]
<1>0. BufRight(p) /\ (p.act = "read" => p.rd /\ p.rpos + p.pushed >= 0)
  BY DEF Kept
<1>1. PICK o \in Flushed(p) : r = New(NotWriting(o))
  BY DEF ToRead
<1> DEFINE q == NotWriting(o)
<1>2. /\ BufRight(o) /\ Same(p, o) /\ SameUnread(p, o) /\ (o.act = "read" => p.act = "read")
      /\ \/ o.lost
         \/ o.err /\ o.act = "none" /\ p.held # <<>>
         \/ Content(o) = Content(p) /\ Position(o) = Position(p) /\ o.held = <<>> /\ o.act = p.act
            /\ o.err = p.err /\ o.lost = p.lost
  BY <1>0, FlushKeeps
<1>3. /\ BufRight(q) /\ Same(o, q) /\ q.held = <<>> /\ q.file = o.file /\ q.off = o.off
      /\ q.unread = o.unread /\ q.pushed = o.pushed /\ q.eof = o.eof /\ q.err = o.err /\ q.lost = o.lost
  BY <1>2, NotWritingIs
<1>4. r = New(q)
  BY <1>1
<1>5. /\ BufRight(r) /\ Same(p, r) /\ Flagged(p, r) /\ r.held = <<>>
      /\ r.rd => r.act = "read" /\ r.unread = <<>> /\ r.pushed = 0 /\ r.rpos = r.size
      /\ ~r.rd => r.act # "write" /\ r.err
  BY <1>0, ToReadIs
<1> HIDE DEF q
<1>6. q \in FileType /\ q.rd \in BOOLEAN
  <2>1. q \in FileType
    BY <1>3, RightIs
  <2> QED BY <2>1, Types
<1>7. /\ r.file = q.file /\ r.off = q.off /\ r.eof = q.eof /\ r.lost = q.lost /\ r.rd = q.rd
      /\ r.rd => r.err = q.err
      /\ ~r.rd => r.unread = q.unread /\ r.pushed = q.pushed
  <2>1. CASE q.rd
    <3> DEFINE a == "read"
               z == q.size
               e == <<>>
               n == 0
    <3>1. r = [q EXCEPT !.act = a, !.rpos = z, !.unread = e, !.pushed = n]
      BY <1>4, <2>1
    <3> HIDE DEF a, z, e, n
    <3>2. r.file = q.file /\ r.off = q.off /\ r.eof = q.eof /\ r.lost = q.lost /\ r.rd = q.rd /\ r.err = q.err
      BY <1>6, <3>1, ZenonT(60) DEF FileType
    <3> QED BY <2>1, <3>2
  <2>2. CASE ~q.rd
    <3>1. r = [q EXCEPT !.err = TRUE]
      BY <1>4, <2>2
    <3>2. /\ r.file = q.file /\ r.off = q.off /\ r.eof = q.eof /\ r.lost = q.lost /\ r.rd = q.rd
          /\ r.unread = q.unread /\ r.pushed = q.pushed
      BY <1>6, <3>1, ZenonT(60) DEF FileType
    <3> QED BY <2>2, <3>2
  <2> QED BY <2>1, <2>2
<1>8. o.unread = <<>> /\ o.pushed = 0 /\ o.eof = p.eof
  <2>1. p.pushed = 0
    BY <1>0, NonePushed
  <2> QED BY <1>2, <2>1 DEF SameUnread
<1>9. r.unread = <<>> /\ r.pushed = 0 /\ r.eof = p.eof
  BY <1>3, <1>5, <1>7, <1>8
<1>10. r.act = "read" => r.rd /\ r.rpos + r.pushed >= 0
  <2> SUFFICES ASSUME r.act = "read"
               PROVE  r.rd /\ r.rpos + r.pushed >= 0
    OBVIOUS
  <2>1. r.rd
    <3> SUFFICES ASSUME ~r.rd PROVE FALSE
      OBVIOUS
    <3>1. ~p.rd
      BY <1>5 DEF Same
    <3>2. p.act # "read"
      BY <1>0, <3>1
    <3>3. r.act = q.act
      <4>1. ~q.rd
        BY <1>7
      <4>2. r = [q EXCEPT !.err = TRUE]
        BY <1>4, <4>1
      <4> QED BY <1>6, <4>2, ZenonT(60) DEF FileType
    <3>4. q.act = IF o.act = "write" THEN "none" ELSE o.act
      BY <1>2, NotWritingIs DEF q
    <3> QED BY <1>2, <3>2, <3>3, <3>4
  <2>2. r.rpos = r.size /\ r.pushed = 0 /\ r.size \in Nat
    BY <1>5, <2>1, RightIs
  <2> QED BY <2>1, <2>2, SMT
<1>11. Kept(r, 0)
  BY <1>5, <1>9, <1>10, NothingUnread DEF Kept
<1>12. ASSUME Clean(r)
       PROVE  Stream(r) = Stream(p) /\ r.rd
  <2>1. ~r.err /\ ~r.lost /\ r.rd
    BY <1>5, <1>12 DEF Clean
  <2>2. o.err = r.err /\ o.lost = r.lost
    BY <1>3, <1>7, <2>1
  <2>3. /\ Content(o) = Content(p) /\ Position(o) = Position(p) /\ o.held = <<>>
        /\ o.err = p.err /\ o.lost = p.lost
    BY <1>2, <2>1, <2>2
  <2>4. r.file = o.file /\ r.off = o.off
    BY <1>3, <1>7
  <2>5. Content(r) = Content(o)
    BY <1>5, <2>3, <2>4 DEF Content
  <2>6. Position(r) = Position(o)
    BY <1>5, <1>8, <1>9, <2>3, <2>4 DEF Position
  <2>7. r.app = p.app /\ r.dev = p.dev
    BY <1>5 DEF Same
  <2>8. p.unread = r.unread /\ p.pushed = r.pushed
    <3>1. p.pushed = 0
      BY <1>0, NonePushed
    <3> QED BY <1>9, <3>1
  <2>9. Stream(r) = Stream(p)
    BY <1>9, <2>2, <2>3, <2>5, <2>6, <2>7, <2>8, SameStream
  <2> QED BY <2>1, <2>9
<1> QED BY <1>5, <1>9, <1>11, <1>12

\* What a read of at most n bytes got: what was ahead, and the end is noticed
\* where that was less.
GotBytes(p, n, o) ==
  /\ Kept(o.p, 0) /\ Same(p, o.p) /\ Flagged(p, o.p)
  /\ o.s \in Seq(Cell) /\ Len(o.s) <= n
  /\ p.eof => o.s = <<>>
  /\ Clean(o.p) => /\ Reads(Stream(p), Stream(o.p), o.s)
                   /\ p.eof => o.p.eof
                   /\ o.s = <<>> => o.p.eof
                   /\ o.p.eof /\ ~p.eof => Len(o.s) = Len(Ahead(Stream(p))) /\ Len(o.s) < n

\* An error or a loss is not forgotten.
LEMMA CleanBefore ==
  ASSUME NEW p, NEW q, Flagged(p, q), Clean(q)
  PROVE  Clean(p)
BY DEF Flagged, Clean

\* Nothing is got.
LEMMA GotNothing ==
  ASSUME NEW p, NEW n \in Nat, NEW o, Kept(o.p, 0), Same(p, o.p), Flagged(p, o.p), o.s = <<>>,
         Clean(o.p) => Stream(o.p) = Stream(p) /\ p.eof /\ o.p.eof
  PROVE  GotBytes(p, n, o)
<1>1. o.s \in Seq(Cell) /\ Len(o.s) = 0
  BY Values, EmptySeq
<1>2. Len(o.s) <= n
  BY <1>1, SMT
<1>3. ASSUME Clean(o.p)
      PROVE  Reads(Stream(p), Stream(o.p), o.s)
  <2>1. Stream(o.p) = Stream(p)
    BY <1>3
  <2>2. Stream(o.p) \in StreamType
    BY KeptIs DEF Kept
  <2> DEFINE f == Stream(o.p)
  <2> HIDE DEF f
  <2>3. Reads(f, f, <<>>)
    <3>1. f \in StreamType
      BY <2>2 DEF f
    <3> QED BY <3>1, ReadsNothing
  <2> QED BY <2>1, <2>3 DEF f
<1> QED BY <1>1, <1>2, <1>3 DEF GotBytes

\* What the read operation got, of a stream that is made ready for it.
LEMMA ReadKeeps ==
  ASSUME NEW p, Ready(p), NEW n \in Nat, n >= 1, NEW o, ReadRight(p, n, o)
  PROVE  GotBytes(p, n, o)
<1> DEFINE q == o.p
           s == o.s
           off == p.off
           f == p.file
           ls == Len(s)
           lu == Len(q.unread)
           lf == Len(f)
<1>1. /\ BufRight(q) /\ Same(p, q) /\ Flagged(p, q) /\ q.held = <<>> /\ q.act = "read"
      /\ q.pushed = 0 /\ q.rpos >= 0 /\ s \in Seq(Cell)
  BY ReadLeaves
<1>2. /\ q.file = f /\ q.lost = p.lost /\ (p.err => q.err)
      /\ Piece(f, off, s) /\ ls <= n /\ Piece(f, off + ls, q.unread)
      /\ q.off = off + ls + lu
      /\ q.eof => q.off = lf /\ q.unread = <<>> /\ ls < n
      /\ s = <<>> => q.eof \/ q.err
  BY DEF ReadRight, SameFile
<1>3. /\ DeviceSound(p) /\ p \in FileType /\ f \in Seq(Cell) /\ off \in Nat /\ lf \in Nat /\ off <= lf
      /\ p.unread = <<>> /\ p.eof = FALSE
  BY ReadyIs
<1>4. /\ q.unread \in Seq(Cell) /\ lu \in Nat /\ ls \in Nat /\ q.rpos \in Int /\ q.off \in Nat
  <2>1. q \in FileType /\ q.unread \in Seq(Cell) /\ Len(q.unread) \in Nat /\ q.rpos \in Int
    BY <1>1, RightIs
  <2>2. ls \in Nat
    BY <1>1, LenIs
  <2> QED BY <2>1, <2>2, Types
<1>5. Drop(q.unread, 0) = q.unread /\ Front(q.unread, 0) = <<>>
  BY <1>4, FrontNone
<1>6. ReadAhead(q)
  <2> DEFINE k == lu - q.pushed
             x == q.off - k
  <2>1. k <= q.off /\ x = off + ls
    <3> DEFINE qo == q.off
               g == q.pushed
    <3>1. qo = off + ls + lu /\ g = 0
      BY <1>1, <1>2
    <3> HIDE DEF qo, g, off, ls, lu
    <3>2. lu - g <= qo /\ qo - (lu - g) = off + ls
      BY <1>3, <1>4, <3>1, SMT
    <3> QED BY <3>2 DEF qo, g
  <2>2. Drop(q.unread, q.pushed) = q.unread
    BY <1>1, <1>5
  <2>3. Piece(q.file, x, Drop(q.unread, q.pushed))
    BY <1>2, <2>1, <2>2
  <2> QED BY <2>1, <2>3 DEF ReadAhead
<1>7. Kept(q, 0)
  <2>1. q.rd
    BY <1>1 DEF Ready, Same
  <2>2. q.rpos + q.pushed >= 0
    BY <1>1, <1>4, SMT
  <2>3. q.eof => q.unread = <<>>
    BY <1>2
  <2> QED BY <1>1, <1>6, <2>1, <2>2, <2>3 DEF Kept
<1>8. ~p.eof
  BY <1>3
<1>9. BufRight(p) /\ ReadAhead(p) /\ p.held = <<>> /\ p.pushed = 0
  <2>1. p.act = "read" /\ p.unread = <<>> /\ p.held = <<>> /\ p.pushed = 0 /\ p.rpos = p.size /\ p.size \in Nat
    BY <1>3, Types DEF Ready
  <2> DEFINE a == "read"
             z == p.size
  <2>2. z \in Int /\ z >= 0 /\ z <= p.size /\ a \in Acts
    BY <2>1, Values, SMT
  <2>3. InBuffer(p, a, z, <<>>, 0, <<>>)
    BY <1>3, <2>2, NothingIn
  <2>4. InBuffer(p, p.act, p.rpos, p.unread, p.pushed, p.held)
    BY <2>1, <2>3
  <2> QED BY <1>3, <2>1, <2>4, NothingUnread DEF BufRight
<1>10. Ahead(Stream(p)) = Drop(f, off)
  <2>1. Ahead(Stream(p)) = Join(p.unread, Drop(f, off))
    BY <1>9, AheadIs
  <2>2. Drop(f, off) \in Seq(Cell)
    BY <1>3, DropIs
  <2> QED BY <1>3, <2>1, <2>2, JoinAll
<1>11. Len(Ahead(Stream(p))) = lf - off
  <2>1. Len(Drop(f, off)) = Most(0, lf - off)
    BY <1>3, DropIs
  <2> HIDE DEF lf, off, f
  <2>2. Most(0, lf - off) = lf - off
    BY <1>3, SMT DEF Most
  <2> QED BY <1>10, <2>1, <2>2
<1>12. ASSUME q.eof
       PROVE  ls = Len(Ahead(Stream(p))) /\ ls < n
  <2>1. q.off = lf /\ lu = 0 /\ ls < n
    BY <1>2, <1>12, EmptySeq
  <2> DEFINE qo == q.off
  <2>2. qo = off + ls + lu /\ qo = lf
    BY <1>2, <2>1
  <2> HIDE DEF lf, off, ls, lu, qo
  <2>3. ls = lf - off
    BY <1>3, <1>4, <2>1, <2>2, SMT
  <2> QED BY <1>11, <2>1, <2>3
<1>13. ASSUME Clean(q)
       PROVE  Reads(Stream(p), Stream(q), s) /\ (s = <<>> => q.eof)
  <2>1. s = <<>> => q.eof
    BY <1>2, <1>13 DEF Clean
  <2>2. ~q.err /\ ~q.lost /\ ~p.err /\ ~p.lost
    BY <1>2, <1>13 DEF Clean
  <2> DEFINE F == Stream(p)
             G == Stream(q)
  <2>3. /\ F \in StreamType /\ F.content = Content(p) /\ F.pos = Position(p)
        /\ F.pushed = Front(p.unread, p.pushed) /\ F.err = (p.err \/ p.lost)
        /\ F.app = p.app /\ F.late = (p.app /\ p.dev = "mem")
    BY <1>9, KeptIs
  <2>4. /\ G \in StreamType /\ G.content = Content(q) /\ G.pos = Position(q)
        /\ G.pushed = Front(q.unread, q.pushed) /\ G.err = (q.err \/ q.lost)
        /\ G.app = q.app /\ G.late = (q.app /\ q.dev = "mem")
    BY <1>1, <1>6, KeptIs
  <2>5. F.pushed = <<>> /\ G.pushed = <<>>
    <3>1. Front(p.unread, 0) = <<>>
      BY <1>3, Values, FrontNone
    <3> QED BY <1>1, <1>5, <1>9, <2>3, <2>4, <3>1
  <2>6. F.pos = off
    BY <1>3, <1>9, <2>3, NothingUnread
  <2>7. G.pos = off + ls
    <3> DEFINE qo == q.off
               g == q.pushed
    <3>1. Position(q) = qo - (lu - g)
      BY <1>1 DEF Position
    <3>2. qo = off + ls + lu /\ g = 0
      BY <1>1, <1>2
    <3> HIDE DEF qo, g, off, ls, lu
    <3>3. qo - (lu - g) = off + ls
      BY <1>3, <1>4, <3>2, SMT
    <3> QED BY <2>4, <3>1, <3>3
  <2>8. G.content = F.content
    BY <1>1, <1>2, <1>9, <2>3, <2>4 DEF Content
  <2>9. s = Front(Drop(f, off), ls) /\ ls \in 0..Len(Drop(f, off))
    BY <1>2, <1>3, PieceFront
  <2>10. G.pos = F.pos + Most(0, ls - Len(F.pushed))
    <3>1. Len(F.pushed) = 0
      BY <2>5, EmptySeq
    <3>2. Most(0, ls - 0) = ls
      <4> HIDE DEF ls
      <4> QED BY <1>4, SMT DEF Most
    <3> QED BY <2>6, <2>7, <3>1, <3>2
  <2>11. G.pushed = Drop(F.pushed, ls)
    <3> DEFINE e == <<>>
    <3>1. e \in Seq(Cell) /\ Len(e) = 0 /\ ls \in Nat
      BY <1>4, Values, EmptySeq
    <3>2. Drop(e, ls) \in Seq(Cell) /\ Len(Drop(e, ls)) = Most(0, Len(e) - ls)
      <4> HIDE DEF e, ls
      <4> QED BY <3>1, DropIs
    <3>3. Most(0, 0 - ls) = 0
      <4> HIDE DEF ls
      <4> QED BY <3>1, SMT DEF Most
    <3>4. Drop(e, ls) = <<>>
      BY <3>1, <3>2, <3>3, EmptyIs
    <3> QED BY <2>5, <3>4
  <2>12. G.err = F.err /\ G.app = F.app /\ G.late = F.late
    <3>1. q.app = p.app /\ q.dev = p.dev
      BY <1>1 DEF Same
    <3>2. q.err \in BOOLEAN /\ p.err \in BOOLEAN /\ q.lost \in BOOLEAN /\ p.lost \in BOOLEAN
      <4>1. q \in FileType
        BY <1>1, RightIs
      <4> QED BY <1>3, <4>1, Types
    <3>3. (q.err \/ q.lost) = (p.err \/ p.lost)
      BY <2>2
    <3> QED BY <2>3, <2>4, <3>1, <3>3
  <2>13. ls \in 0..Len(Ahead(F)) /\ s = Front(Ahead(F), ls)
    BY <1>10, <2>9
  <2> QED BY <2>1, <2>3, <2>4, <2>8, <2>10, <2>11, <2>12, <2>13 DEF Reads
<1> QED BY <1>1, <1>2, <1>7, <1>8, <1>12, <1>13 DEF GotBytes

\* __toread and a read.
LEMMA FillKeeps ==
  ASSUME NEW p, Kept(p, 0), p.unread = <<>>, NEW n \in Nat, n >= 1, NEW o \in Fill(p, n)
  PROVE  /\ GotBytes(p, n, o)
         /\ o.s # <<>> => \E q \in ToRead(p) : Ready(q) /\ ReadRight(q, n, o)
<1>1. PICK q \in ToRead(p) : o \in IF q.rd /\ ~q.eof THEN ReadOp(q, n) ELSE {[p |-> q, s |-> <<>>]}
  BY DEF Fill
<1>2. /\ Kept(q, 0) /\ Same(p, q) /\ Flagged(p, q) /\ q.eof = p.eof
      /\ Clean(q) => Stream(q) = Stream(p) /\ q.rd
  BY ToReadKeeps
<1>3. CASE q.rd /\ ~q.eof
  <2>1. Ready(q)
    <3>1. BufRight(p)
      BY DEF Kept
    <3> QED BY <1>3, <3>1, ToReadIs
  <2>2. o \in ReadOp(q, n)
    BY <1>1, <1>3
  <2>3. ReadRight(q, n, o)
    BY <2>1, <2>2, ReadOpIs
  <2>4. GotBytes(q, n, o)
    BY <2>1, <2>3, ReadKeeps
  <2>5. Same(p, o.p) /\ Flagged(p, o.p)
    BY <1>2, <2>4 DEF GotBytes, Same, Flagged
  <2>6. Clean(o.p) => Stream(q) = Stream(p)
    BY <1>2, <2>4, CleanBefore DEF GotBytes
  <2>7. GotBytes(p, n, o)
    BY <1>2, <2>4, <2>5, <2>6 DEF GotBytes
  <2> QED BY <1>1, <2>1, <2>3, <2>7
<1>4. CASE ~(q.rd /\ ~q.eof)
  <2>1. o.p = q /\ o.s = <<>>
    BY <1>1, <1>4
  <2>2. Clean(q) => Stream(q) = Stream(p) /\ p.eof /\ q.eof
    BY <1>2, <1>4
  <2> QED BY <1>2, <2>1, <2>2, GotNothing
<1> QED BY <1>3, <1>4

\* Bytes taken from the buffer leave it in order.
LEMMA TakeKeeps ==
  ASSUME NEW p, NEW low \in {0, -1}, Kept(p, low), NEW k \in 0..Len(p.unread), k + low >= 0 \/ p.act # "read",
         NEW q, q = Take(p, k)
  PROVE  /\ Kept(q, 0) /\ Same(p, q) /\ q.eof = p.eof /\ q.err = p.err /\ q.lost = p.lost
         /\ q.act = p.act /\ q.held = p.held /\ Len(q.unread) = Len(p.unread) - k
         /\ Reads(Stream(p), Stream(q), Front(p.unread, k)) /\ Len(Front(p.unread, k)) = k
         /\ q.pushed = Most(0, p.pushed - k)
<1>1. /\ BufRight(p) /\ ReadAhead(p) /\ (p.eof => p.unread = <<>>)
      /\ p.act = "read" => p.rd /\ p.rpos + p.pushed >= low /\ (low # 0 => p.pushed = 0)
  BY DEF Kept
<1>2. /\ BufRight(q) /\ ReadAhead(q) /\ Same(p, q) /\ q.eof = p.eof /\ q.err = p.err /\ q.lost = p.lost
      /\ q.act = p.act /\ q.held = p.held /\ Len(q.unread) = Len(p.unread) - k
      /\ Reads(Stream(p), Stream(q), Front(p.unread, k)) /\ Len(Front(p.unread, k)) = k
      /\ q.rpos = p.rpos + k /\ q.pushed = Most(0, p.pushed - k)
  <2>1. k \in 0..Len(p.unread) /\ q = Take(p, k) /\ BufRight(p) /\ ReadAhead(p)
    BY <1>1
  <2> QED BY <2>1, TakeReads
<1>3. ASSUME q.act = "read"
      PROVE  q.rd /\ q.rpos + q.pushed >= 0
  <2>1. p.act = "read" /\ p.rd
    BY <1>1, <1>2, <1>3
  <2>2. q.rd
    BY <1>2, <2>1 DEF Same
  <2> DEFINE r == p.rpos
             g == p.pushed
             ul == Len(p.unread)
  <2>3. r \in Int /\ g \in Nat /\ g <= ul /\ ul \in Nat /\ r + g >= low /\ (low # 0 => g = 0) /\ k + low >= 0
        /\ k \in 0..ul
    BY <1>1, <2>1, RightIs
  <2>4. q.rpos = r + k /\ q.pushed = Most(0, g - k)
    BY <1>2
  <2> HIDE DEF r, g, ul
  <2>5. r + k + Most(0, g - k) >= 0
    BY <2>3, SMT DEF Most
  <2> QED BY <2>2, <2>4, <2>5
<1>4. q.eof => q.unread = <<>>
  <2> SUFFICES ASSUME q.eof
               PROVE  q.unread = <<>>
    OBVIOUS
  <2>1. Len(p.unread) = 0
    BY <1>1, <1>2, EmptySeq
  <2>2. k = 0
    BY <2>1, SMT
  <2>3. Len(q.unread) = 0
    BY <1>2, <2>1, <2>2, SMT
  <2>4. q.unread \in Seq(Cell)
    BY <1>2, RightIs
  <2> QED BY <2>3, <2>4, EmptyIs
<1>5. Kept(q, 0)
  BY <1>2, <1>3, <1>4 DEF Kept
<1> QED BY <1>2, <1>5

\* getc_unlocked
LEMMA GetcKeeps ==
  ASSUME NEW p, Kept(p, 0), NEW o \in Getc(p)
  PROVE  GotBytes(p, 1, o)
<1>1. CASE p.unread = <<>>
  <2>1. o \in Fill(p, 1)
    BY <1>1 DEF Getc
  <2>2. 1 \in Nat /\ 1 >= 1
    BY SMT
  <2> QED BY <1>1, <2>1, <2>2, FillKeeps
<1>2. CASE p.unread # <<>>
  <2> DEFINE u == p.unread
             q == Take(p, 1)
  <2>1. o.p = q /\ o.s = <<Head(u)>>
    BY <1>2 DEF Getc
  <2>2. BufRight(p) /\ ~p.eof
    BY <1>2 DEF Kept
  <2>3. u \in Seq(Cell) /\ Len(u) \in Nat
    BY <2>2, RightIs
  <2>4. Len(u) # 0
    BY <1>2, <2>3, EmptyIs
  <2>5. 1 \in 0..Len(u) /\ 0 \in {0, -1} /\ 1 + 0 >= 0
    <3> HIDE DEF u
    <3> QED BY <2>3, <2>4, SMT
  <2>6. /\ Kept(q, 0) /\ Same(p, q) /\ q.eof = p.eof /\ q.err = p.err /\ q.lost = p.lost
        /\ Reads(Stream(p), Stream(q), Front(u, 1))
    BY <2>5, TakeKeeps
  <2>7. o.s = Front(u, 1) /\ o.s \in Seq(Cell) /\ Len(o.s) = 1
    <3> HIDE DEF u
    <3>1. Head(u) = u[1] /\ u[1] \in Cell
      BY <2>3, <2>4, <2>5, SMT
    <3>2. <<Head(u)>> \in Seq(Cell) /\ Len(<<Head(u)>>) = 1 /\ <<Head(u)>>[1] = u[1]
      BY <3>1, SMT
    <3>3. Front(u, 1) \in Seq(Cell) /\ Len(Front(u, 1)) = 1 /\ \A i \in 1..1 : Front(u, 1)[i] = u[i]
      BY <2>3, <2>5, FrontIs
    <3> DEFINE a == <<Head(u)>>
               b == Front(u, 1)
    <3>4. a \in Seq(Cell) /\ b \in Seq(Cell) /\ Len(a) = Len(b) /\ Len(a) = 1
      BY <3>2, <3>3
    <3>5. a[1] = b[1]
      <4>1. 1 \in 1..1
        BY SMT
      <4> QED BY <3>2, <3>3, <4>1
    <3> HIDE DEF a, b
    <3>6. \A i \in 1..Len(a) : a[i] = b[i]
      BY <3>4, <3>5, SMT
    <3>7. a = b
      BY <3>4, <3>6, SameBytes
    <3> QED BY <2>1, <3>4, <3>7 DEF a, b
  <2>8. Flagged(p, q)
    BY <2>6 DEF Flagged
  <2>9. o.s # <<>> /\ Len(o.s) <= 1
    <3> DEFINE l == Len(o.s)
    <3>1. l = 1
      BY <2>7
    <3> HIDE DEF l
    <3>2. l # 0 /\ l <= 1
      BY <3>1, SMT
    <3>3. o.s # <<>>
      BY <2>7, <3>2, EmptyIs DEF l
    <3> QED BY <3>2, <3>3 DEF l
  <2> HIDE DEF q, u
  <2> QED BY <2>1, <2>2, <2>6, <2>7, <2>8, <2>9 DEF GotBytes
<1> QED BY <1>1, <1>2

-----------------------------------------------------------------------------
(* What a call that reads returns, in the terms of the unbuffered stream.  *)

\* The stream after t was read is the one the unbuffered stream goes on with.
LEMMA ConsumedIs ==
  ASSUME NEW f, NEW g, NEW t, Reads(f, g, t)
  PROVE  g = [BS!Consumed(f, Len(t)) EXCEPT !.eof = g.eof]
<1> DEFINE k == Len(t)
           x == Drop(f.pushed, k)
           y == f.pos + Most(0, k - Len(f.pushed))
           e == g.eof
<1>1. BS!Consumed(f, k) = [f EXCEPT !.pushed = x, !.pos = y]
  BY DEF BS!Consumed, BS!Most, Most, Drop
<1>2. /\ f \in StreamType /\ g \in StreamType
      /\ g.content = f.content /\ g.err = f.err /\ g.app = f.app /\ g.late = f.late
      /\ g.pushed = x /\ g.pos = y /\ g.eof = e
  BY DEF Reads
<1> HIDE DEF k, x, y, e
<1>3. g = [content |-> g.content, pos |-> g.pos, pushed |-> g.pushed, eof |-> g.eof, err |-> g.err,
           app |-> g.app, late |-> g.late]
  BY <1>2 DEF StreamType
<1>4. [[f EXCEPT !.pushed = x, !.pos = y] EXCEPT !.eof = e]
        = [content |-> f.content, pos |-> y, pushed |-> x, eof |-> e, err |-> f.err,
           app |-> f.app, late |-> f.late]
  BY <1>2 DEF StreamType
<1>5. g = [[f EXCEPT !.pushed = x, !.pos = y] EXCEPT !.eof = e]
  BY <1>2, <1>3, <1>4
<1> QED BY <1>1, <1>5 DEF e, k

\* The bytes ahead, in the promise's words.
LEMMA SameAhead ==
  ASSUME NEW f
  PROVE  BS!Ahead(f) = Ahead(f)
BY DEF BS!Ahead, Ahead, Join, Drop

\* A call for n bytes is done: it has them, or all there were.
GetDone(f, g, t, n) ==
  /\ Reads(f, g, t)
  /\ f.eof => t = <<>> /\ g.eof
  /\ ~f.eof /\ g.eof => Len(t) = Len(Ahead(f)) /\ Len(t) < n
  /\ ~g.eof => Len(t) = n

\* How many bytes an unbuffered stream reads then.
LEMMA ReadsIs ==
  ASSUME NEW f, NEW g, NEW t, Reads(f, g, t)
  PROVE  /\ f \in StreamType /\ f.eof \in BOOLEAN /\ g.eof \in BOOLEAN
         /\ Len(t) \in Nat /\ Len(Ahead(f)) \in Nat /\ Len(t) <= Len(Ahead(f))
         /\ t = SubSeq(BS!Ahead(f), 1, Len(t)) /\ Ahead(f) \in Seq(Cell)
<1>1. /\ f \in StreamType /\ g \in StreamType /\ Len(t) \in 0..Len(Ahead(f))
      /\ t = Front(Ahead(f), Len(t))
  BY DEF Reads
<1>2. f.eof \in BOOLEAN /\ Ahead(f) \in Seq(Cell) /\ Len(Ahead(f)) \in Nat
  BY <1>1, StreamTypes
<1>3. g.eof \in BOOLEAN
  BY <1>1, StreamTypes
<1> DEFINE l == Len(t)
           a == Len(Ahead(f))
<1>4. l \in 0..a /\ a \in Nat
  BY <1>1, <1>2
<1> HIDE DEF l, a
<1>5. l \in Nat /\ l <= a
  BY <1>4, SMT
<1>6. t = SubSeq(BS!Ahead(f), 1, Len(t))
  BY <1>1, SameAhead DEF Front
<1> QED BY <1>1, <1>2, <1>3, <1>4, <1>5, <1>6 DEF l, a

\* As many bytes as Get reads.
LEMMA GetCount ==
  ASSUME NEW f, NEW g, NEW t, NEW n \in Nat, n >= 1, GetDone(f, g, t, n)
  PROVE  LET k == IF f.eof THEN 0 ELSE BS!Least(n, Len(BS!Ahead(f)))
         IN t = SubSeq(BS!Ahead(f), 1, k) /\ g = [BS!Consumed(f, k) EXCEPT !.eof = @ \/ k < n]
<1> DEFINE k == IF f.eof THEN 0 ELSE BS!Least(n, Len(BS!Ahead(f)))
           l == Len(t)
           a == Len(Ahead(f))
<1>1. /\ Reads(f, g, t) /\ (f.eof => t = <<>> /\ g.eof)
      /\ ~f.eof /\ g.eof => l = a /\ l < n
      /\ ~g.eof => l = n
  BY DEF GetDone
<1>2. /\ f \in StreamType /\ f.eof \in BOOLEAN /\ g.eof \in BOOLEAN /\ l \in Nat /\ a \in Nat /\ l <= a
      /\ t = SubSeq(BS!Ahead(f), 1, l)
  BY <1>1, ReadsIs
<1>3. k = l /\ g.eof = (f.eof \/ k < n)
  <2>1. CASE f.eof
    <3>1. l = 0 /\ k = 0 /\ g.eof
      BY <1>1, <2>1, EmptySeq
    <3> QED BY <2>1, <3>1
  <2>2. CASE ~f.eof
    <3>1. k = IF n < a THEN n ELSE a
      <4>1. k = BS!Least(n, Len(BS!Ahead(f)))
        BY <2>2
      <4>2. BS!Ahead(f) = Ahead(f)
        BY SameAhead
      <4> HIDE DEF k
      <4> QED BY <4>1, <4>2 DEF BS!Least
    <3>2. CASE g.eof
      <4>1. l = a /\ l < n
        BY <1>1, <2>2, <3>2
      <4> HIDE DEF k, l, a
      <4>2. k = l /\ k < n
        BY <1>2, <3>1, <4>1, SMT
      <4> QED BY <2>2, <3>2, <4>2
    <3>3. CASE ~g.eof
      <4>1. l = n
        BY <1>1, <3>3
      <4> HIDE DEF k, l, a
      <4>2. k = l /\ ~(k < n)
        BY <1>2, <3>1, <4>1, SMT
      <4> QED BY <1>2, <2>2, <3>3, <4>2
    <3> QED BY <3>2, <3>3
  <2> QED BY <1>2, <2>1, <2>2
<1>4. g = [BS!Consumed(f, l) EXCEPT !.eof = g.eof]
  BY <1>1, ConsumedIs
<1>5. BS!Consumed(f, l).eof = f.eof
  BY <1>2 DEF BS!Consumed, StreamType
<1>6. g = [BS!Consumed(f, k) EXCEPT !.eof = @ \/ k < n]
  <2> HIDE DEF k, l
  <2>1. g = [BS!Consumed(f, k) EXCEPT !.eof = g.eof] /\ BS!Consumed(f, k).eof = f.eof
    BY <1>3, <1>4, <1>5
  <2> QED BY <1>3, <2>1
<1>7. t = SubSeq(BS!Ahead(f), 1, k)
  <2> HIDE DEF k, l
  <2> QED BY <1>2, <1>3
<1> QED BY <1>6, <1>7

\* The first newline ahead, or the place behind all of it.
LEMMA LineLengthIs ==
  ASSUME NEW f, Ahead(f) \in Seq(Cell)
  PROVE  LET most == BS!LineLength(f)
             a == Len(Ahead(f))
         IN /\ most \in Nat /\ most >= 1 /\ most <= a + 1
            /\ most <= a => Ahead(f)[most] = NL
            /\ \A j \in 1..a : j < most => Ahead(f)[j] # NL
<1> DEFINE c == Ahead(f)
           a == Len(c)
           ends == {i \in 1..a : c[i] = NL}
           most == BS!LineLength(f)
<1>1. a \in Nat
  BY LenIs
<1>2. most = IF ends = {} THEN a + 1 ELSE CHOOSE i \in ends : \A j \in ends : i <= j
  <2>1. BS!Ahead(f) = c
    BY SameAhead
  <2> HIDE DEF c
  <2> QED BY <2>1 DEF BS!LineLength
<1>3. CASE ends = {}
  <2>1. most = a + 1
    BY <1>2, <1>3
  <2>2. \A j \in 1..a : c[j] # NL
    BY <1>3
  <2> HIDE DEF most, a, c
  <2>3. most \in Nat /\ most >= 1 /\ most <= a + 1 /\ ~(most <= a)
    BY <1>1, <2>1, SMT
  <2> QED BY <2>2, <2>3 DEF most, a, c
<1>4. CASE ends # {}
  <2>1. ends \subseteq Nat
    <3> HIDE DEF a, c
    <3> QED BY <1>1, SMT
  <2>2. \E x \in ends : \A y \in ends : x <= y
    <3> HIDE DEF ends
    <3> QED BY <1>4, <2>1, LeastElement
  <2>3. most \in ends /\ \A y \in ends : most <= y
    <3> HIDE DEF ends, most
    <3>1. most = CHOOSE i \in ends : \A j \in ends : i <= j
      BY <1>2, <1>4
    <3> QED BY <2>2, <3>1
  <2>4. most \in 1..a /\ c[most] = NL
    BY <2>3
  <2>5. ASSUME NEW j \in 1..a, j < most
        PROVE  c[j] # NL
    <3> SUFFICES ASSUME c[j] = NL PROVE FALSE
      OBVIOUS
    <3>1. j \in ends
      OBVIOUS
    <3>2. most <= j
      BY <2>3, <3>1
    <3> HIDE DEF most, a, c, ends
    <3> QED BY <1>1, <2>4, <2>5, <3>2, SMT
  <2> HIDE DEF most, a, c, ends
  <2>6. most \in Nat /\ most >= 1 /\ most <= a + 1
    BY <1>1, <2>4, SMT
  <2> QED BY <2>4, <2>5, <2>6 DEF most, a, c
<1> QED BY <1>3, <1>4

\* A call for a line, of n bytes at most if n is not 0, is done.
LineDone(f, g, t, n) ==
  /\ Reads(f, g, t)
  /\ f.eof => t = <<>> /\ g.eof
  /\ \A i \in 1..Len(t) : i < Len(t) => t[i] # NL
  /\ n > 0 => Len(t) <= n
  /\ ~f.eof /\ g.eof => /\ Len(t) = Len(Ahead(f)) /\ (n > 0 => Len(t) < n)
                        /\ Len(t) >= 1 => t[Len(t)] # NL
  /\ ~g.eof => Len(t) >= 1 /\ (t[Len(t)] = NL \/ Len(t) = n)

\* As many bytes as Line reads.
LEMMA LineCount ==
  ASSUME NEW f, NEW g, NEW t, NEW n \in Nat, LineDone(f, g, t, n)
  PROVE  LET most == BS!LineLength(f)
             want == IF n = 0 THEN most ELSE BS!Least(n, most)
             k == IF f.eof THEN 0 ELSE BS!Least(want, Len(BS!Ahead(f)))
         IN t = SubSeq(BS!Ahead(f), 1, k) /\ g = [BS!Consumed(f, k) EXCEPT !.eof = @ \/ k < want]
<1> DEFINE most == BS!LineLength(f)
           want == IF n = 0 THEN most ELSE BS!Least(n, most)
           k == IF f.eof THEN 0 ELSE BS!Least(want, Len(BS!Ahead(f)))
           c == Ahead(f)
           l == Len(t)
           a == Len(c)
<1>1. /\ Reads(f, g, t) /\ (f.eof => t = <<>> /\ g.eof)
      /\ \A i \in 1..l : i < l => t[i] # NL
      /\ n > 0 => l <= n
      /\ ~f.eof /\ g.eof => l = a /\ (n > 0 => l < n) /\ (l >= 1 => t[l] # NL)
      /\ ~g.eof => l >= 1 /\ (t[l] = NL \/ l = n)
  BY DEF LineDone
<1>2. /\ f \in StreamType /\ f.eof \in BOOLEAN /\ g.eof \in BOOLEAN /\ l \in Nat /\ a \in Nat /\ l <= a
      /\ t = SubSeq(BS!Ahead(f), 1, l) /\ c \in Seq(Cell)
  BY <1>1, ReadsIs
<1>3. /\ most \in Nat /\ most >= 1 /\ most <= a + 1
      /\ most <= a => c[most] = NL
      /\ \A j \in 1..a : j < most => c[j] # NL
  BY <1>2, LineLengthIs
<1>4. \A i \in 1..l : t[i] = c[i]
  <2>1. t = Front(c, l) /\ l \in 0..a
    BY <1>1 DEF Reads
  <2>2. \A i \in 1..l : Front(c, l)[i] = c[i]
    <3> HIDE DEF l
    <3>1. l \in 0..Len(c)
      BY <2>1
    <3> HIDE DEF c
    <3> QED BY <1>2, <3>1, FrontIs
  <2> HIDE DEF l, c
  <2> QED BY <2>1, <2>2
<1>5. want = IF n = 0 THEN most ELSE IF n < most THEN n ELSE most
  BY DEF BS!Least
<1>6. k = IF f.eof THEN 0 ELSE IF want < a THEN want ELSE a
  <2>1. BS!Ahead(f) = c
    BY SameAhead
  <2> HIDE DEF want, c
  <2> QED BY <2>1 DEF BS!Least
<1> DEFINE tn == t[l]
           b == g.eof
           e == f.eof
<1>7. k = l /\ (b = (e \/ k < want))
  <2>1. CASE e
    <3>1. l = 0 /\ k = 0 /\ b
      BY <1>1, <2>1, EmptySeq
    <3> QED BY <2>1, <3>1
  <2>2. CASE ~e /\ b
    <3>1. l = a /\ (n > 0 => l < n)
      BY <1>1, <2>2
    <3>2. \A j \in 1..a : c[j] # NL
      <4> SUFFICES ASSUME NEW j \in 1..a PROVE c[j] # NL
        OBVIOUS
      <4>1. j \in 1..l
        BY <3>1
      <4>2. CASE j = l
        <5>1. l >= 1
          <6> HIDE DEF l
          <6> QED BY <1>2, <4>1, SMT
        <5> QED BY <1>1, <1>4, <2>2, <4>1, <4>2, <5>1
      <4>3. CASE j # l
        <5>1. j < l
          <6> HIDE DEF l
          <6> QED BY <1>2, <4>1, <4>3, SMT
        <5> QED BY <1>1, <1>4, <4>1, <5>1
      <4> QED BY <4>2, <4>3
    <3>3. most = a + 1
      <4>1. ~(most <= a)
        <5> SUFFICES ASSUME most <= a PROVE FALSE
          OBVIOUS
        <5>1. most \in 1..a
          <6> HIDE DEF most, a
          <6> QED BY <1>2, <1>3, SMT
        <5> QED BY <1>3, <3>2, <5>1
      <4> HIDE DEF most, a
      <4> QED BY <1>2, <1>3, <4>1, SMT
    <3> HIDE DEF k, l, a, want, most, b, e
    <3>4. want = a + 1
      BY <1>2, <1>5, <3>1, <3>3, SMT
    <3>5. k = a /\ k < want
      BY <1>2, <1>6, <2>2, <3>4, SMT DEF e
    <3> QED BY <1>2, <2>2, <3>1, <3>5 DEF b, e
  <2>3. CASE ~b
    <3>0. ~e
      BY <1>1, <2>3
    <3>1. l >= 1 /\ (tn = NL \/ l = n)
      BY <1>1, <2>3
    <3>2. l \in 1..l /\ l \in 1..a
      <4> HIDE DEF l, a
      <4> QED BY <1>2, <3>1, SMT
    <3>3. ~(most < l)
      <4> SUFFICES ASSUME most < l PROVE FALSE
        OBVIOUS
      <4>1. most \in 1..l /\ most <= a
        <5> HIDE DEF most, a, l
        <5> QED BY <1>2, <1>3, SMT
      <4>2. c[most] = NL /\ t[most] # NL /\ t[most] = c[most]
        BY <1>1, <1>3, <1>4, <4>1
      <4> QED BY <4>2
    <3>4. tn = NL => most <= l
      <4> SUFFICES ASSUME tn = NL, ~(most <= l) PROVE FALSE
        OBVIOUS
      <4>1. l < most
        <5> HIDE DEF most, l
        <5> QED BY <1>2, <1>3, SMT
      <4>2. c[l] # NL
        BY <1>3, <3>2, <4>1
      <4>3. c[l] = tn
        BY <1>4, <3>2
      <4> QED BY <4>2, <4>3
    <3>5. n > 0 => l <= n
      BY <1>1
    <3> HIDE DEF k, l, a, want, most, b, e, tn
    <3>6. want = l
      <4>1. CASE tn = NL
        <5>1. most = l
          BY <1>2, <1>3, <3>3, <3>4, <4>1, SMT
        <5> QED BY <1>2, <1>5, <3>5, <5>1, SMT
      <4>2. CASE l = n
        BY <1>2, <1>3, <1>5, <3>1, <3>3, <4>2, SMT
      <4> QED BY <3>1, <4>1, <4>2
    <3>7. k = l /\ ~(k < want)
      BY <1>2, <1>6, <3>0, <3>6, SMT DEF e
    <3> QED BY <1>2, <2>3, <3>0, <3>7 DEF b, e
  <2> HIDE DEF b, e, k, l, want
  <2> QED BY <2>1, <2>2, <2>3
<1>8. g = [BS!Consumed(f, l) EXCEPT !.eof = g.eof]
  BY <1>1, ConsumedIs
<1>9. BS!Consumed(f, l).eof = f.eof
  BY <1>2 DEF BS!Consumed, StreamType
<1>10. g = [BS!Consumed(f, k) EXCEPT !.eof = @ \/ k < want]
  <2> HIDE DEF k, l, want
  <2>1. g = [BS!Consumed(f, k) EXCEPT !.eof = g.eof] /\ BS!Consumed(f, k).eof = f.eof
    BY <1>7, <1>8, <1>9
  <2>2. g.eof = (f.eof \/ k < want)
    BY <1>7
  <2> HIDE DEF b, e
  <2> QED BY <2>1, <2>2
<1>11. t = SubSeq(BS!Ahead(f), 1, k)
  <2> HIDE DEF k, l
  <2> QED BY <1>2, <1>7
<1> QED BY <1>10, <1>11

-----------------------------------------------------------------------------
(* What a call that writes leaves of the stream.                           *)

\* Nothing is unread, and the stream is not being read.
LEMMA KeptEmpty ==
  ASSUME NEW p, BufRight(p), p.unread = <<>>, p.act # "read"
  PROVE  Kept(p, 0) /\ p.pushed = 0
BY NothingUnread, NonePushed DEF Kept

\* s was put behind what was unwritten.
PutDone(p, s, o) ==
  /\ Kept(o.p, 0) /\ Same(p, o.p) /\ Flagged(p, o.p)
  /\ Clean(o.p) => /\ o.n = Len(s) /\ o.p.unread = <<>> /\ o.p.eof = p.eof
                   /\ Content(o.p) = Written(p, Join(p.held, s))
                   /\ Position(o.p) = At(p) + Len(p.held) + Len(s)

\* The write operation puts it into the file.
LEMMA WroteOut ==
  ASSUME NEW p, BufRight(p), p.unread = <<>>, p.act = "write", NEW s, Fitting(p, s), NEW o, Wrote(p, s, o)
  PROVE  /\ BufRight(o.p) /\ PutDone(p, s, o)
         /\ Clean(o.p) => /\ o.p.held = <<>> /\ o.p.act = "write" /\ At(o.p) = At(p) + Len(p.held) + Len(s)
                          /\ o.p.file = Written(p, Join(p.held, s))
<1> DEFINE q == o.p
           hs == Join(p.held, s)
           lh == Len(p.held)
           ls == Len(s)
           at == At(p)
<1>1. BufRight(q) /\ Same(p, q) /\ Flagged(p, q) /\ SameUnread(p, q)
  BY WroteRight DEF Wrote
<1>2. q.unread = <<>> /\ q.eof = p.eof /\ q.act # "read"
  <2>1. q.act \in {"write", "none"}
    BY DEF Wrote
  <2> QED BY <1>1, <2>1 DEF SameUnread
<1>3. Kept(q, 0) /\ q.pushed = 0
  BY <1>1, <1>2, KeptEmpty
<1>4. ASSUME Clean(q)
      PROVE  /\ o.n = Len(s) /\ q.held = <<>> /\ q.act = "write" /\ q.file = Written(p, hs)
             /\ q.off = at + lh + ls
  <2>1. AllOut(p, s, o)
    <3>1. AllOut(p, s, o) \/ NotOut(p, o)
      BY DEF Wrote
    <3> QED BY <1>4, <3>1 DEF NotOut, Clean
  <2>2. /\ o.n = Len(s) /\ q.held = <<>> /\ q.act = "write" /\ q.file = Written(p, hs)
        /\ q.off = at + Len(hs)
    BY <2>1 DEF AllOut, Join
  <2>3. Len(hs) = lh + ls /\ lh \in Nat /\ ls \in Nat
    BY AllIs DEF Join
  <2>4. at \in Nat
    BY RightIs
  <2> DEFINE l == Len(hs)
  <2> HIDE DEF l, at, lh, ls
  <2>5. at + l = at + lh + ls
    <3>1. l = lh + ls
      BY <2>3 DEF l
    <3> QED BY <2>3, <2>4, <3>1, SMT
  <2> QED BY <2>2, <2>5 DEF l
<1>5. ASSUME Clean(q)
      PROVE  At(q) = at + lh + ls
  <2>1. CASE p.app
    <3>1. q.app
      BY <1>1, <2>1 DEF Same
    <3>2. At(q) = Len(Written(p, hs)) /\ at = Len(p.file)
      BY <1>4, <1>5, <2>1, <3>1 DEF At
    <3>3. hs \in Seq(Cell) /\ Len(hs) = lh + ls /\ lh \in Nat /\ ls \in Nat
      BY AllIs DEF Join
    <3>4. Len(Written(p, hs)) = Most(Len(p.file), at + Len(hs))
      <4>1. DeviceSound(p)
        BY RightIs
      <4> HIDE DEF hs
      <4> QED BY <3>3, <4>1, WrittenIs
    <3>5. at \in Nat
      BY RightIs
    <3> DEFINE l == Len(hs)
               aq == At(q)
    <3>6. aq = Most(at, at + l) /\ l = lh + ls
      BY <3>2, <3>3, <3>4
    <3> HIDE DEF l, at, lh, ls, aq
    <3>7. aq = at + lh + ls
      BY <3>3, <3>5, <3>6, SMT DEF Most
    <3> QED BY <3>7 DEF aq
  <2>2. CASE ~p.app
    <3>1. ~q.app
      BY <1>1, <2>2 DEF Same
    <3> QED BY <1>4, <1>5, <3>1 DEF At
  <2> QED BY <2>1, <2>2
<1>6. ASSUME Clean(q)
      PROVE  Content(q) = Written(p, hs) /\ Position(q) = at + lh + ls
  <2>1. q.off \in Nat
    <3>1. q \in FileType
      BY <1>1, RightIs
    <3> QED BY <3>1, Types
  <2>2. Position(q) = q.off
    BY <1>2, <1>3, <1>4, <1>6, <2>1, NothingUnread
  <2> QED BY <1>4, <1>6, <2>2 DEF Content
<1> QED BY <1>1, <1>2, <1>3, <1>4, <1>5, <1>6 DEF PutDone

\* What a stream that writes becomes of one that has nothing unread.
LEMMA WritingKeeps ==
  ASSUME NEW p, NEW s, MayTake(p, s)
  PROVE  LET q == Writing(p)
         IN /\ BufRight(q) /\ Fitting(q, s) /\ Same(p, q) /\ Flagged(p, q) /\ q.act = "write" /\ q.unread = <<>>
            /\ q.held = p.held /\ At(q) = At(p) /\ q.eof = p.eof /\ q.lbf = p.lbf /\ q.err = p.err /\ q.lost = p.lost
            /\ \A t : Written(q, t) = Written(p, t)
<1> DEFINE q == Writing(p)
<1>1. /\ BufRight(q) /\ Fitting(q, s) /\ Same(p, q) /\ q.lbf = p.lbf /\ q.act = "write"
      /\ q.held = p.held /\ q.unread = <<>> /\ q.file = p.file /\ q.err = p.err /\ q.lost = p.lost
      /\ At(q) = At(p)
  BY WritingIs
<1>2. q.eof = p.eof
  <2>1. CASE p.act = "write"
    BY <2>1 DEF Writing
  <2>2. CASE p.act # "write"
    <3>1. q = [p EXCEPT !.act = "write", !.unread = <<>>, !.pushed = 0, !.rpos = 0]
      BY <2>2 DEF Writing
    <3>2. p \in FileType
      BY RightIs DEF MayTake
    <3> HIDE DEF q
    <3> QED BY <3>1, <3>2, ZenonT(60) DEF FileType
  <2> QED BY <2>1, <2>2
<1>3. Flagged(p, q)
  BY <1>1 DEF Flagged
<1>4. \A t : Written(q, t) = Written(p, t)
  BY <1>1 DEF Written
<1> QED BY <1>1, <1>2, <1>3, <1>4

\* Putting to the stream that writes is putting to the one it was.
LEMMA WritingPut ==
  ASSUME NEW p, NEW s, MayTake(p, s), NEW o, PutDone(Writing(p), s, o)
  PROVE  PutDone(p, s, o)
<1> DEFINE q == Writing(p)
<1>1. /\ Same(p, q) /\ Flagged(p, q) /\ q.held = p.held /\ At(q) = At(p) /\ q.eof = p.eof
      /\ \A t : Written(q, t) = Written(p, t)
  BY WritingKeeps
<1>2. /\ Kept(o.p, 0) /\ Same(q, o.p) /\ Flagged(q, o.p)
      /\ Clean(o.p) => /\ o.n = Len(s) /\ o.p.unread = <<>> /\ o.p.eof = q.eof
                       /\ Content(o.p) = Written(q, Join(q.held, s))
                       /\ Position(o.p) = At(q) + Len(q.held) + Len(s)
  BY DEF PutDone
<1> HIDE DEF q
<1>3. Same(p, o.p) /\ Flagged(p, o.p)
  BY <1>1, <1>2 DEF Same, Flagged
<1> QED BY <1>1, <1>2, <1>3 DEF PutDone

\* Bytes that stay in the buffer.
LEMMA HeldOut ==
  ASSUME NEW p, BufRight(p), p.act = "write", p.unread = <<>>, NEW s \in Seq(Cell),
         BufRight(Held(p, s)), Len(s) # 0
  PROVE  LET q == Held(p, s)
         IN /\ Kept(q, 0) /\ Same(p, q) /\ Flagged(p, q) /\ q.unread = <<>> /\ q.eof = p.eof
            /\ q.err = p.err /\ q.lost = p.lost
            /\ Content(q) = Written(p, Join(p.held, s)) /\ Position(q) = At(p) + Len(p.held) + Len(s)
<1> DEFINE q == Held(p, s)
           h == Join(p.held, s)
           lh == Len(p.held)
           ls == Len(s)
           at == At(p)
<1>1. p \in FileType /\ p.held \in Seq(Cell) /\ lh \in Nat /\ at \in Nat
  BY RightIs
<1>2. q = [p EXCEPT !.held = h]
  BY <1>1 DEF Held, FileType, Join
<1> HIDE DEF q, h
<1>3. /\ q.held = h /\ q.unread = p.unread /\ q.eof = p.eof /\ q.err = p.err /\ q.lost = p.lost /\ q.act = p.act
      /\ q.file = p.file /\ q.off = p.off /\ q.app = p.app
      /\ q.rd = p.rd /\ q.wr = p.wr /\ q.dev = p.dev /\ q.cap = p.cap /\ q.size = p.size /\ q.lbf = p.lbf
  BY <1>1, <1>2, ZenonT(60) DEF FileType
<1>4. BufRight(q)
  BY DEF q
<1>5. Kept(q, 0)
  BY <1>3, <1>4, KeptEmpty
<1>6. Same(p, q) /\ Flagged(p, q)
  BY <1>3 DEF Same, Flagged
<1>7. h \in Seq(Cell) /\ Len(h) = lh + ls
  BY <1>1, JoinIs DEF h
<1>8. ls \in Nat
  BY LenIs
<1>9. q.held # <<>>
  <2> DEFINE l == Len(h)
  <2>1. l = lh + ls /\ ls # 0
    BY <1>7
  <2> HIDE DEF l, lh, ls
  <2>2. l # 0
    BY <1>1, <1>8, <2>1, SMT
  <2>3. h # <<>>
    BY <1>7, <2>2, EmptyIs DEF l
  <2> QED BY <1>3, <2>3
<1>10. At(q) = at /\ Written(q, h) = Written(p, h)
  BY <1>3 DEF At, Written
<1>11. Content(q) = Written(p, h)
  BY <1>3, <1>9, <1>10 DEF Content
<1>12. Position(q) = at + lh + ls
  <2>1. Position(q) = at + Len(h)
    BY <1>3, <1>9, <1>10 DEF Position
  <2> DEFINE l == Len(h)
  <2>2. l = lh + ls
    BY <1>7
  <2> HIDE DEF l, lh, ls, at
  <2>3. at + l = at + lh + ls
    BY <1>1, <1>8, <2>2, SMT
  <2> QED BY <2>1, <2>3 DEF l
<1> QED BY <1>3, <1>5, <1>6, <1>11, <1>12 DEF q, h

\* The stream refuses to write.
LEMMA RefusedKeeps ==
  ASSUME NEW p, Kept(p, 0), NEW s, NEW o \in Refused(p)
  PROVE  PutDone(p, s, o)
<1> DEFINE q == [p EXCEPT !.err = TRUE]
<1>1. o.p = q
  BY DEF Refused
<1>2. BufRight(p) /\ ReadAhead(p) /\ (p.eof => p.unread = <<>>)
  BY DEF Kept
<1>3. BufRight(q) /\ Same(p, q) /\ q.err /\ q.lost = p.lost
  BY <1>2, RefusedIs
<1>4. p \in FileType
  BY <1>2, RightIs
<1>5. /\ q.unread = p.unread /\ q.pushed = p.pushed /\ q.eof = p.eof /\ q.act = p.act /\ q.rpos = p.rpos
      /\ q.rd = p.rd /\ q.file = p.file /\ q.off = p.off
  BY <1>4, ZenonT(60) DEF FileType
<1> HIDE DEF q
<1>6. ReadAhead(q)
  BY <1>2, <1>5 DEF ReadAhead
<1>7. Kept(q, 0)
  BY <1>3, <1>5, <1>6 DEF Kept
<1>8. Flagged(p, q) /\ ~Clean(q)
  BY <1>3 DEF Flagged, Clean
<1> QED BY <1>1, <1>3, <1>7, <1>8 DEF PutDone

\* putc_unlocked and __overflow
LEMMA PutcKeeps ==
  ASSUME NEW p, Kept(p, 0), NEW c \in Cell, MayTake(p, <<c>>), NEW o \in Putc(p, c)
  PROVE  PutDone(p, <<c>>, o)
<1> DEFINE q == Writing(p)
           s == <<c>>
<1>1. BufRight(p) /\ s \in Seq(Cell) /\ Len(s) = 1
  BY DEF MayTake
<1>2. /\ BufRight(q) /\ Fitting(q, s) /\ q.act = "write" /\ q.unread = <<>>
  BY WritingKeeps
<1>3. CASE o \in Refused(p)
  BY <1>3, RefusedKeeps
<1>4. CASE Room(q) > 0 /\ ~(q.lbf /\ c = NL) /\ o = [p |-> Held(q, s), n |-> 1]
  <2>1. BufRight(o.p)
    BY PutcIs
  <2>2. o.p = Held(q, s) /\ o.n = 1
    BY <1>4
  <2>3. BufRight(Held(q, s)) /\ Len(s) # 0
    <3>1. BufRight(Held(q, s))
      BY <2>1, <2>2
    <3>2. Len(s) # 0
      BY <1>1, SMT
    <3> QED BY <3>1, <3>2
  <2> DEFINE r == Held(q, s)
  <2>4. /\ Kept(r, 0) /\ Same(q, r) /\ Flagged(q, r) /\ r.unread = <<>> /\ r.eof = q.eof
        /\ Content(r) = Written(q, Join(q.held, s)) /\ Position(r) = At(q) + Len(q.held) + Len(s)
    <3> HIDE DEF q, s
    <3> QED BY <1>1, <1>2, <2>3, HeldOut
  <2>5. PutDone(q, s, o)
    <3> HIDE DEF q, r
    <3> QED BY <1>1, <2>2, <2>4 DEF PutDone, r
  <2> QED BY <2>5, WritingPut
<1>5. CASE o \in WriteOp(q, s)
  <2> HIDE DEF q, s
  <2>1. Wrote(q, s, o)
    BY <1>2, <1>5, WriteOpIs
  <2>2. PutDone(q, s, o)
    BY <1>2, <2>1, WroteOut
  <2> QED BY <2>2, WritingPut DEF q, s
<1> QED BY <1>3, <1>4, <1>5 DEF Putc

\* __fwritex: the front of s goes out, the rest stays in the buffer.
LEMMA FwritexKeeps ==
  ASSUME NEW p, Kept(p, 0), NEW s, s # <<>>, MayTake(p, s), NEW o \in Fwritex(p, s)
  PROVE  PutDone(p, s, o)
<1> DEFINE q == Writing(p)
           i == IF q.lbf THEN LastNL(s) ELSE 0
           rest == SubSeq(s, i + 1, Len(s))
           front == SubSeq(s, 1, i)
           Way(k) == IF i > 0 /\ k.n < i THEN {k} ELSE {[p |-> Held(k.p, rest), n |-> Len(s)]}
           Ways == IF i > 0 THEN WriteOp(q, front) ELSE {[p |-> q, n |-> 0]}
<1>1. BufRight(p) /\ s \in Seq(Cell) /\ Len(s) \in Nat /\ BufRight(o.p)
  BY LenIs, FwritexIs DEF MayTake
<1>2. /\ BufRight(q) /\ Fitting(q, s) /\ Same(p, q) /\ q.lbf = p.lbf /\ q.act = "write" /\ q.unread = <<>>
  BY WritingKeeps
<1>3. i \in 0..Len(s)
  <2>1. LastNL(s) \in 0..Len(s)
    BY <1>1, LastNLIs
  <2>2. 0 \in 0..Len(s)
    BY <1>1, SMT
  <2> QED BY <2>1, <2>2
<1>4. Len(s) # 0
  BY <1>1, EmptyIs
<1>5. \/ o \in Refused(p)
      \/ o \in WriteOp(q, s)
      \/ \E k \in Ways : o \in Way(k)
  <2>1. o \in IF ~CanWrite(p) THEN Refused(p) ELSE IF Len(s) > Room(q) THEN WriteOp(q, s)
              ELSE UNION {Way(k) : k \in Ways}
    BY DEF Fwritex
  <2> HIDE DEF Way, Ways, q
  <2> QED BY <2>1
<1>6. CASE o \in Refused(p)
  BY <1>6, RefusedKeeps
<1>7. CASE o \in WriteOp(q, s)
  <2>1. PutDone(q, s, o)
    <3> HIDE DEF q
    <3>1. Wrote(q, s, o)
      BY <1>2, <1>7, WriteOpIs
    <3> QED BY <1>2, <3>1, WroteOut
  <2> QED BY <2>1, WritingPut
<1>8. CASE \E k \in Ways : o \in Way(k)
  <2>1. PICK k \in Ways : o \in Way(k)
    BY <1>8
  <2> DEFINE r == k.p
  <2>2. i > 0 => k \in WriteOp(q, front)
    BY <2>1
  <2>3. ~(i > 0) => k = [p |-> q, n |-> 0]
    BY <2>1
  <2>4. (o = k /\ i > 0 /\ k.n < i) \/ (o.p = Held(r, rest) /\ o.n = Len(s))
    <3> DEFINE b == i > 0 /\ k.n < i
               x == Held(r, rest)
               l == Len(s)
    <3>1. o \in IF b THEN {k} ELSE {[p |-> x, n |-> l]}
      BY <2>1
    <3>2. b \in BOOLEAN
      OBVIOUS
    <3> HIDE DEF x, l, b
    <3>3. CASE b
      <4>1. o = k
        BY <3>1, <3>3
      <4> QED BY <3>3, <4>1 DEF b
    <3>4. CASE ~b
      <4>1. o = [p |-> x, n |-> l]
        BY <3>1, <3>4
      <4>2. o.p = x /\ o.n = l
        BY <4>1
      <4> QED BY <4>2 DEF x, l
    <3> QED BY <3>2, <3>3, <3>4
  <2>5. Fitting(q, front) /\ Len(front) = i
    BY <1>2, <1>3, FittingPart
  <2>6. rest = Drop(s, i) /\ front = Front(s, i)
    BY DEF Front, Drop
  <2> HIDE DEF Ways, front, rest, q, i
  <2>7. CASE ~(i > 0)
    <3>1. r = q /\ i = 0 /\ o.p = Held(r, rest) /\ o.n = Len(s)
      <4>1. r = q
        BY <2>3, <2>7
      <4> DEFINE l == Len(s)
      <4>2. i \in 0..l
        BY <1>3
      <4> HIDE DEF l
      <4>3. i = 0
        BY <1>1, <2>7, <4>2, SMT
      <4> QED BY <2>4, <2>7, <4>1, <4>3
    <3>2. rest = s
      BY <1>1, <2>6, <3>1, FrontNone
    <3> DEFINE x == Held(q, s)
    <3>3. BufRight(x)
      BY <1>1, <3>1, <3>2
    <3>4. /\ Kept(x, 0) /\ Same(q, x) /\ Flagged(q, x) /\ x.unread = <<>> /\ x.eof = q.eof
          /\ Content(x) = Written(q, Join(q.held, s)) /\ Position(x) = At(q) + Len(q.held) + Len(s)
      BY <1>1, <1>2, <1>4, <3>3, HeldOut
    <3>5. o.p = x /\ o.n = Len(s)
      BY <3>1, <3>2
    <3> HIDE DEF x
    <3>6. PutDone(q, s, o)
      BY <3>4, <3>5 DEF PutDone
    <3> QED BY <3>6, WritingPut DEF q
  <2>8. CASE i > 0
    <3>1. Wrote(q, front, k)
      BY <2>2, <2>5, <2>8, WriteOpIs
    <3>2. /\ BufRight(r) /\ PutDone(q, front, k)
          /\ Clean(r) => /\ r.held = <<>> /\ r.act = "write" /\ At(r) = At(q) + Len(q.held) + Len(front)
                         /\ r.file = Written(q, Join(q.held, front))
      BY <1>2, <2>5, <3>1, WroteOut
    <3>3. /\ Kept(r, 0) /\ Same(q, r) /\ Flagged(q, r)
          /\ Clean(r) => /\ k.n = i /\ r.unread = <<>> /\ r.eof = q.eof
                         /\ Content(r) = Written(q, Join(q.held, front))
                         /\ Position(r) = At(q) + Len(q.held) + i
      BY <2>5, <3>2 DEF PutDone
    <3>4. i \in Nat
      <4> DEFINE l == Len(s)
      <4>1. i \in 0..l
        BY <1>3
      <4> HIDE DEF l
      <4> QED BY <1>1, <4>1, SMT
    <3>5. CASE o = k /\ k.n < i
      <4>1. ~Clean(r)
        <5> SUFFICES ASSUME Clean(r) PROVE FALSE
          OBVIOUS
        <5>1. k.n = i
          BY <3>3
        <5> DEFINE kn == k.n
        <5>2. kn = i /\ kn < i
          BY <3>5, <5>1
        <5> HIDE DEF kn
        <5> QED BY <3>4, <5>2, SMT
      <4>2. PutDone(q, s, o)
        BY <3>3, <3>5, <4>1 DEF PutDone
      <4> QED BY <4>2, WritingPut DEF q
    <3>6. CASE o.p = Held(r, rest) /\ o.n = Len(s)
      <4> DEFINE h == q.held
                 x == Held(r, rest)
                 lr == Len(rest)
                 ls == Len(s)
                 lh == Len(h)
                 aq == At(q)
      <4>1. /\ s \in Seq(Cell) /\ h \in Seq(Cell) /\ lh \in Nat /\ aq \in Nat /\ ls \in Nat /\ i \in 0..ls
            /\ r \in FileType /\ BufRight(x)
        <5>1. h \in Seq(Cell) /\ lh \in Nat /\ aq \in Nat
          BY <1>2, RightIs
        <5>2. r \in FileType
          BY <3>2, RightIs
        <5>3. BufRight(x)
          BY <1>1, <3>6
        <5> QED BY <1>1, <1>3, <5>1, <5>2, <5>3
      <4>2. /\ rest \in Seq(Cell) /\ front \in Seq(Cell) /\ Join(front, rest) = s
            /\ lr = Most(0, ls - i)
        <5>1. i \in 0..Len(s)
          BY <4>1
        <5>2. Join(Front(s, i), Drop(s, i)) = s
          BY <4>1, <5>1, FrontDrop
        <5>3. Front(s, i) \in Seq(Cell)
          BY <4>1, <5>1, FrontIs
        <5>4. Drop(s, i) \in Seq(Cell) /\ Len(Drop(s, i)) = Most(0, Len(s) - i)
          BY <3>4, <4>1, DropIs
        <5> QED BY <2>6, <5>2, <5>3, <5>4
      <4>3. lr \in Nat /\ lr = ls - i
        <5>1. lr \in Nat
          BY <4>2, LenIs
        <5> HIDE DEF lr, ls
        <5> QED BY <3>4, <4>1, <4>2, <5>1, SMT DEF Most
      <4>4. x.held = Join(r.held, rest) /\ x.unread = r.unread /\ x.eof = r.eof /\ x.err = r.err
            /\ x.lost = r.lost /\ x.act = r.act /\ x.file = r.file /\ x.off = r.off /\ x.app = r.app
            /\ x.rd = r.rd /\ x.wr = r.wr /\ x.dev = r.dev /\ x.cap = r.cap /\ x.size = r.size /\ x.lbf = r.lbf
        <5> DEFINE y == Join(r.held, rest)
        <5>1. y \in Seq(Cell)
          <6>1. r.held \in Seq(Cell)
            BY <4>1, Types
          <6> QED BY <4>2, <6>1, JoinIs
        <5>2. x = [r EXCEPT !.held = y]
          BY <4>1 DEF Held, FileType, Join
        <5> HIDE DEF x, y, r
        <5>3. /\ x.held = y /\ x.unread = r.unread /\ x.eof = r.eof /\ x.err = r.err
              /\ x.lost = r.lost /\ x.act = r.act /\ x.file = r.file /\ x.off = r.off /\ x.app = r.app
              /\ x.rd = r.rd /\ x.wr = r.wr /\ x.dev = r.dev /\ x.cap = r.cap /\ x.size = r.size /\ x.lbf = r.lbf
          BY <4>1, <5>1, <5>2, ZenonT(60) DEF FileType
        <5> QED BY <5>3 DEF y
      <4> HIDE DEF x
      <4>5. x.unread = <<>> /\ x.act # "read"
        <5>1. r.unread = <<>> /\ r.act # "read"
          BY <1>2, <3>1 DEF Wrote, SameUnread
        <5> QED BY <4>4, <5>1
      <4>6. Kept(x, 0) /\ x.pushed = 0
        BY <4>1, <4>5, KeptEmpty
      <4>7. Same(q, x) /\ Flagged(q, x)
        <5>1. Same(q, r) /\ Flagged(q, r)
          BY <3>3
        <5> QED BY <4>4, <5>1 DEF Same, Flagged
      <4>8. ASSUME Clean(x)
            PROVE  /\ x.unread = <<>> /\ x.eof = q.eof
                   /\ Content(x) = Written(q, Join(h, s)) /\ Position(x) = aq + lh + ls
        <5>1. Clean(r)
          BY <4>4, <4>8 DEF Clean
        <5>2. /\ r.held = <<>> /\ At(r) = aq + lh + i /\ r.file = Written(q, Join(h, front))
              /\ r.eof = q.eof /\ Content(r) = Written(q, Join(h, front)) /\ Position(r) = aq + lh + i
          BY <2>5, <3>2, <3>3, <5>1
        <5>3. x.held = rest
          BY <4>2, <4>4, <5>2, JoinAll
        <5>4. Join(Join(h, front), rest) = Join(h, s)
          BY <4>1, <4>2, JoinAll
        <5>5. CASE lr = 0
          <6>1. rest = <<>>
            BY <4>2, <5>5, EmptyIs
          <6>2. x.held = r.held
            BY <5>2, <5>3, <6>1
          <6>3. Content(x) = Content(r)
            BY <4>4, <5>2, <6>2 DEF Content
          <6>4. Position(x) = Position(r)
            <7>1. r.pushed = 0 /\ r.unread = <<>> /\ r.off \in Nat /\ x.off \in Nat
              <8>1. r.unread = <<>> /\ r.act # "read"
                BY <1>2, <3>1 DEF Wrote, SameUnread
              <8>2. r.pushed = 0
                BY <3>2, <8>1, NonePushed
              <8> QED BY <4>1, <4>4, <8>1, <8>2, Types
            <7>2. Position(r) = r.off
              BY <5>2, <7>1, NothingUnread
            <7>3. Position(x) = x.off
              BY <4>5, <4>6, <5>2, <6>2, <7>1, NothingUnread
            <7> QED BY <4>4, <7>2, <7>3
          <6>5. Join(h, front) = Join(h, s)
            <7>1. Join(front, <<>>) = front
              BY <4>2, JoinAll
            <7> QED BY <4>2, <6>1, <7>1
          <6>6. i = ls
            <7> HIDE DEF lr, ls
            <7> QED BY <3>4, <4>1, <4>3, <5>5, SMT
          <6> QED BY <4>4, <4>5, <5>2, <6>3, <6>4, <6>5, <6>6
        <5>6. CASE lr # 0
          <6>1. rest # <<>>
            BY <4>2, <5>6, EmptyIs
          <6>2. At(x) = At(r) /\ Written(x, rest) = Written(r, rest)
            BY <4>4 DEF At, Written
          <6>3. Content(x) = Written(r, rest)
            BY <5>3, <6>1, <6>2 DEF Content
          <6>4. Written(r, rest) = Written(q, Join(h, front) \o rest)
            <7> DEFINE hf == Join(h, front)
            <7>1. hf \in Seq(Cell) /\ Len(hf) = lh + Len(front)
              BY <4>1, <4>2, JoinIs
            <7>2. r.file = Written(q, hf) /\ DeviceSound(q) /\ DeviceSound(r)
              BY <1>2, <3>2, <5>2, RightIs
            <7>3. At(r) = At(q) + Len(hf)
              <8> DEFINE l == Len(hf)
                         ar == At(r)
              <8>1. l = lh + i /\ ar = aq + lh + i
                BY <2>5, <5>2, <7>1
              <8> HIDE DEF l, ar, aq, lh
              <8>2. ar = aq + l
                BY <3>4, <4>1, <8>1, SMT
              <8> QED BY <8>2 DEF l, ar, aq
            <7> HIDE DEF hf
            <7>4. Written(r, rest) = Written(q, hf \o rest)
              <8>1. /\ DeviceSound(q) /\ hf \in Seq(Cell) /\ rest \in Seq(Cell) /\ DeviceSound(r)
                    /\ r.file = Written(q, hf) /\ At(r) = At(q) + Len(hf)
                BY <4>2, <7>1, <7>2, <7>3
              <8> HIDE DEF r
              <8> QED BY <8>1, WrittenTwice
            <7> QED BY <7>4 DEF hf
          <6>5. Content(x) = Written(q, Join(h, s))
            <7>1. Join(h, front) \o rest = Join(h, s)
              BY <5>4 DEF Join
            <7> QED BY <6>3, <6>4, <7>1
          <6>6. Position(x) = At(r) + lr
            BY <5>3, <6>1, <6>2 DEF Position
          <6> DEFINE ar == At(r)
          <6>7. ar = aq + lh + i
            BY <5>2
          <6>8. ar + lr = aq + lh + ls
            <7> HIDE DEF ar, lr, aq, lh, ls
            <7> QED BY <3>4, <4>1, <4>3, <6>7, SMT
          <6> QED BY <4>4, <4>5, <5>2, <6>5, <6>6, <6>8
        <5> QED BY <5>5, <5>6
      <4>9. PutDone(q, s, o)
        <5>1. o.p = x /\ o.n = Len(s)
          BY <3>6 DEF x
        <5> QED BY <4>6, <4>7, <4>8, <5>1 DEF PutDone
      <4> QED BY <4>9, WritingPut DEF q
    <3> QED BY <2>4, <3>5, <3>6
  <2> QED BY <2>7, <2>8
<1> QED BY <1>5, <1>6, <1>7, <1>8

-----------------------------------------------------------------------------
(* The calls without a loop, as the unbuffered stream has them.            *)

\* A stream that differs from another in some of its fields.
LEMMA StreamChanged ==
  ASSUME NEW f \in StreamType, NEW g \in StreamType, g.app = f.app, g.late = f.late
  PROVE  /\ g.pushed = f.pushed /\ g.eof = f.eof /\ g.err = f.err =>
              g = [f EXCEPT !.content = g.content, !.pos = g.pos]
         /\ g.content = f.content /\ g.pos = f.pos /\ g.err = f.err =>
              g = [f EXCEPT !.pushed = g.pushed, !.eof = g.eof]
         /\ g.content = f.content /\ g.err = f.err =>
              g = [f EXCEPT !.pos = g.pos, !.pushed = g.pushed, !.eof = g.eof]
         /\ g.content = f.content =>
              g = [f EXCEPT !.pos = g.pos, !.pushed = g.pushed, !.eof = g.eof, !.err = g.err]
         /\ g.content = f.content /\ g.eof = f.eof /\ g.err = f.err =>
              g = [f EXCEPT !.pos = g.pos, !.pushed = g.pushed]
         /\ g.content = f.content /\ g.pos = f.pos /\ g.pushed = f.pushed =>
              g = [f EXCEPT !.eof = g.eof, !.err = g.err]
<1> DEFINE c == g.content
           n == g.pos
           u == g.pushed
           e == g.eof
           x == g.err
<1>1. /\ f \in StreamType /\ g \in StreamType /\ g.app = f.app /\ g.late = f.late
      /\ g.content = c /\ g.pos = n /\ g.pushed = u /\ g.eof = e /\ g.err = x
  OBVIOUS
<1> HIDE DEF c, n, u, e, x
<1>2. ASSUME g.pushed = f.pushed, g.eof = f.eof, g.err = f.err
      PROVE  g = [f EXCEPT !.content = c, !.pos = n]
  BY <1>1, <1>2, Zenon DEF StreamType
<1>3. ASSUME g.content = f.content, g.pos = f.pos, g.err = f.err
      PROVE  g = [f EXCEPT !.pushed = u, !.eof = e]
  BY <1>1, <1>3, Zenon DEF StreamType
<1>4. ASSUME g.content = f.content, g.err = f.err
      PROVE  g = [f EXCEPT !.pos = n, !.pushed = u, !.eof = e]
  BY <1>1, <1>4, Zenon DEF StreamType
<1>5. ASSUME g.content = f.content
      PROVE  g = [f EXCEPT !.pos = n, !.pushed = u, !.eof = e, !.err = x]
  BY <1>1, <1>5, Zenon DEF StreamType
<1>6. ASSUME g.content = f.content, g.eof = f.eof, g.err = f.err
      PROVE  g = [f EXCEPT !.pos = n, !.pushed = u]
  BY <1>1, <1>6, Zenon DEF StreamType
<1>7. ASSUME g.content = f.content, g.pos = f.pos, g.pushed = f.pushed
      PROVE  g = [f EXCEPT !.eof = e, !.err = x]
  BY <1>1, <1>7, Zenon DEF StreamType
<1> QED BY <1>2, <1>3, <1>4, <1>5, <1>6, <1>7 DEF c, n, u, e, x

\* The two modules' ways to write are one.
LEMMA SameOverlay ==
  ASSUME NEW c, NEW at, NEW s, NEW z
  PROVE  BS!Overlay(c, at, s) = Overlay(c, at, s) /\ BS!Padded(c, at, z) = Padded(c, at, z)
BY DEF BS!Overlay, Overlay, BS!Padded, Padded, BS!Most, Most

\* What was put is in the stream's content.
LEMMA PutStream ==
  ASSUME NEW p, Kept(p, 0), NEW s, MayTake(p, s), s # <<>>, NEW o, PutDone(p, s, o), Clean(o.p)
  PROVE  LET f == Stream(p)
             at == IF f.app THEN Len(f.content) ELSE f.pos
         IN /\ f.pushed = <<>> /\ o.n = Len(s)
            /\ Stream(o.p) = [f EXCEPT !.content = BS!Overlay(BS!Padded(@, at, Zero), at, s), !.pos = at + Len(s)]
<1> DEFINE f == Stream(p)
           g == Stream(o.p)
           at == IF f.app THEN Len(f.content) ELSE f.pos
           h == p.held
           lh == Len(h)
           ls == Len(s)
           ap == At(p)
           w == Written(p, Join(h, s))
<1>1. /\ BufRight(p) /\ ReadAhead(p) /\ BufRight(o.p) /\ ReadAhead(o.p) /\ DeviceSound(p)
      /\ p.unread = <<>> /\ s \in Seq(Cell) /\ h \in Seq(Cell) /\ lh \in Nat /\ ap \in Nat
      /\ p \in FileType
  BY RightIs DEF MayTake, Kept, PutDone
<1>2. /\ f \in StreamType /\ f.content = Content(p) /\ f.pos = Position(p) /\ f.pushed = Front(p.unread, p.pushed)
      /\ f.eof = p.eof /\ f.err = (p.err \/ p.lost) /\ f.app = p.app /\ f.late = (p.app /\ p.dev = "mem")
      /\ Content(p) \in Seq(Cell) /\ Position(p) \in Nat
  BY <1>1, KeptIs
<1>3. /\ g \in StreamType /\ g.content = Content(o.p) /\ g.pos = Position(o.p)
      /\ g.pushed = Front(o.p.unread, o.p.pushed)
      /\ g.eof = o.p.eof /\ g.err = (o.p.err \/ o.p.lost) /\ g.app = o.p.app
      /\ g.late = (o.p.app /\ o.p.dev = "mem")
  BY <1>1, KeptIs
<1>4. /\ o.n = ls /\ o.p.unread = <<>> /\ o.p.eof = p.eof /\ Same(p, o.p) /\ Flagged(p, o.p)
      /\ Content(o.p) = w /\ Position(o.p) = ap + lh + ls
  BY DEF PutDone
<1>5. f.pushed = <<>>
  <2>1. p.pushed = 0
    BY <1>1, NonePushed
  <2> QED BY <1>1, <1>2, <2>1, NothingUnread
<1>6. g.pushed = <<>>
  <2>1. o.p.pushed = 0
    BY <1>1, <1>4, NonePushed
  <2> QED BY <1>3, <1>4, <2>1, NothingUnread
<1>7. f.err = FALSE /\ g.err = FALSE
  <2>1. Clean(p)
    BY <1>4, CleanBefore
  <2> QED BY <1>2, <1>3, <2>1 DEF Clean
<1>8. g.app = f.app /\ g.late = f.late /\ g.eof = f.eof /\ g.pushed = f.pushed /\ g.err = f.err
  BY <1>2, <1>3, <1>4, <1>5, <1>6, <1>7 DEF Same
<1>9. g = [f EXCEPT !.content = w, !.pos = ap + lh + ls]
  <2>1. g.content = w /\ g.pos = ap + lh + ls
    BY <1>3, <1>4
  <2> HIDE DEF f, g, w, ap, lh, ls
  <2>2. g = [f EXCEPT !.content = g.content, !.pos = g.pos]
    BY <1>2, <1>3, <1>8, StreamChanged
  <2> QED BY <2>1, <2>2
<1>10. ls \in Nat
  BY <1>1, LenIs
<1>11. at = ap + lh /\ Overlay(Padded(f.content, at, Zero), at, s) = w
  <2> DEFINE c == p.file
             lc == Len(c)
             pd == Padded(c, ap, Zero)
  <2>1. c \in Seq(Cell) /\ p.app \in BOOLEAN /\ Zero \in Cell /\ lc \in Nat /\ p.off \in Nat
    BY <1>1, Types, LenIs, Values
  <2>2. pd \in Seq(Cell) /\ Len(pd) = Most(lc, ap)
    BY <1>1, <2>1, PaddedIs
  <2>3. ap \in 0..Len(pd)
    <3> DEFINE n == Len(pd)
    <3>1. n = Most(lc, ap)
      BY <2>2
    <3> HIDE DEF n, lc, ap
    <3>2. ap \in 0..n
      BY <1>1, <2>1, <3>1, SMT DEF Most
    <3> QED BY <3>2 DEF n
  <2>4. p.app => ap = lc
    BY DEF At
  <2>5. ~p.app => ap = p.off
    BY DEF At
  <2>6. CASE h = <<>>
    <3>1. lh = 0 /\ f.content = c
      BY <1>2, <2>6, EmptySeq DEF Content
    <3>2. ap + lh = ap
      <4> HIDE DEF ap, lh
      <4> QED BY <1>1, <3>1, SMT
    <3>3. Position(p) = p.off
      <4>1. p.pushed = 0
        BY <1>1, NonePushed
      <4> QED BY <1>1, <2>1, <2>6, <4>1, NothingUnread
    <3>4. at = ap
      BY <1>2, <2>1, <2>4, <2>5, <3>1, <3>3
    <3>5. Join(h, s) = s
      BY <1>1, <2>6, JoinAll
    <3>6. w = Overlay(pd, ap, s)
      BY <3>5 DEF Written
    <3> QED BY <3>1, <3>2, <3>4, <3>6
  <2>7. CASE h # <<>>
    <3> DEFINE v == Overlay(pd, ap, h)
               lv == Len(v)
    <3>1. f.content = v
      BY <1>2, <2>7 DEF Content, Written
    <3>2. v \in Seq(Cell) /\ lv = Most(Len(pd), ap + lh)
      BY <1>1, <2>2, <2>3, OverlayIs
    <3>3. f.pos = ap + lh
      BY <1>2, <2>7 DEF Position
    <3>4. lv = Most(lc, ap + lh)
      <4> DEFINE n == Len(pd)
      <4>1. n = Most(lc, ap) /\ lv = Most(n, ap + lh)
        BY <2>2, <3>2
      <4> HIDE DEF n, lc, ap, lh, lv
      <4> QED BY <1>1, <2>1, <4>1, SMT DEF Most
    <3>5. p.app => lv = ap + lh
      <4> SUFFICES ASSUME p.app PROVE lv = ap + lh
        OBVIOUS
      <4>1. ap = lc
        BY <2>4
      <4> HIDE DEF lc, ap, lh, lv
      <4> QED BY <1>1, <3>4, <4>1, SMT DEF Most
    <3>6. at = ap + lh
      <4>1. CASE p.app
        BY <1>2, <3>1, <3>5, <4>1
      <4>2. CASE ~p.app
        BY <1>2, <3>3, <4>2
      <4> QED BY <4>1, <4>2
    <3>7. Padded(v, ap + lh, Zero) = v
      <4> DEFINE m == ap + lh
      <4>1. m \in Int /\ m <= lv
        <5> HIDE DEF lc, ap, lh, lv
        <5> QED BY <1>1, <2>1, <3>4, SMT DEF Most
      <4> HIDE DEF v, m
      <4> QED BY <2>1, <3>2, <4>1, PaddedIs DEF lv, m
    <3>8. Overlay(v, ap + lh, s) = w
      <4>1. Overlay(v, ap + lh, s) = Overlay(pd, ap, h \o s)
        BY <1>1, <2>2, <2>3, OverlayTwice
      <4>2. w = Overlay(pd, ap, h \o s)
        BY DEF Written, Join
      <4> QED BY <4>1, <4>2
    <3> QED BY <3>1, <3>6, <3>7, <3>8
  <2> QED BY <2>6, <2>7
<1> HIDE DEF g, h, lh, ap, w
<1>12. ap + lh + ls = at + ls
  BY <1>11
<1> HIDE DEF at
<1>13. BS!Overlay(BS!Padded(f.content, at, Zero), at, s) = w
  BY <1>11, SameOverlay
<1>14. g = [f EXCEPT !.content = BS!Overlay(BS!Padded(f.content, at, Zero), at, s), !.pos = at + ls]
  BY <1>9, <1>12, <1>13
<1> QED BY <1>4, <1>5, <1>14 DEF at, g

\* One byte before others, of which g were there first.
LEMMA PushedFront ==
  ASSUME NEW d \in Seq(Cell), Len(d) = 1, NEW u \in Seq(Cell), NEW g \in 0..Len(u)
  PROVE  Front(Join(d, u), g + 1) = Join(d, Front(u, g)) /\ Drop(Join(d, u), g + 1) = Drop(u, g)
<1> DEFINE a == Join(d, u)
           l == Len(u)
           la == Len(a)
           ld == Len(d)
<1>1. a \in Seq(Cell) /\ la = ld + l /\ l \in Nat /\ ld = 1
  BY JoinIs, LenIs
<1>2. g \in Nat /\ 1 + g <= la /\ 1 \in 0..ld /\ 1 \in Nat /\ g + 1 = 1 + g
  <2>1. g \in 0..l
    OBVIOUS
  <2> HIDE DEF a, l, la, ld
  <2> QED BY <1>1, <2>1, SMT
<1>3. Front(a, 1) = d
  <2>1. Front(a, 1) = Front(d, 1)
    BY <1>2, FrontOfJoin
  <2>2. Front(d, 1) \in Seq(Cell) /\ Len(Front(d, 1)) = 1 /\ \A i \in 1..1 : Front(d, 1)[i] = d[i]
    BY <1>2, FrontIs
  <2> DEFINE e == Front(d, 1)
  <2>3. e \in Seq(Cell) /\ Len(e) = Len(d) /\ \A i \in 1..Len(e) : e[i] = d[i]
    BY <2>2
  <2> HIDE DEF e
  <2>4. e = d
    BY <2>3, SameBytes
  <2> QED BY <2>1, <2>4 DEF e
<1>4. Drop(a, 1) = u
  <2> DEFINE z == Most(0, 1 - Len(d))
  <2>1. z = 0
    <3>1. 1 - ld = 0
      BY <1>1, SMT
    <3>2. Most(0, 0) = 0
      BY SMT DEF Most
    <3> QED BY <3>1, <3>2
  <2>2. Drop(a, 1) = Join(Drop(d, 1), Drop(u, z))
    BY <1>2, DropJoin
  <2>3. Drop(d, 1) = <<>>
    <3>1. Drop(d, 1) \in Seq(Cell) /\ Len(Drop(d, 1)) = Most(0, Len(d) - 1)
      BY <1>2, DropIs
    <3>2. Len(Drop(d, 1)) = 0
      <4>1. Most(0, ld - 1) = 0
        <5> HIDE DEF ld
        <5> QED BY <1>1, SMT DEF Most
      <4> QED BY <3>1, <4>1
    <3> QED BY <3>1, <3>2, EmptyIs
  <2>4. Drop(u, 0) = u /\ Join(<<>>, u) = u
    BY FrontNone, JoinAll
  <2> QED BY <2>1, <2>2, <2>3, <2>4
<1> HIDE DEF a, la, ld
<1>5. Join(Front(a, 1), Front(Drop(a, 1), g)) = Front(a, 1 + g)
  <2>1. a \in Seq(Cell) /\ 1 \in Nat /\ g \in Nat /\ 1 + g <= Len(a)
    BY <1>1, <1>2 DEF la
  <2> QED BY <2>1, FrontMore
<1>6. Drop(Drop(a, 1), g) = Drop(a, 1 + g)
  BY <1>1, <1>2, DropDrop
<1> QED BY <1>2, <1>3, <1>4, <1>5, <1>6 DEF a

\* A byte pushed back is before the others, and nothing else is changed.
LEMMA UngetPush ==
  ASSUME NEW q, Kept(q, 0), q.act = "read", NEW d \in Seq(Cell), Len(d) = 1
  PROVE  LET x == [q EXCEPT !.unread = d \o @, !.rpos = @ - 1, !.pushed = @ + 1, !.eof = FALSE]
         IN BufRight(x) =>
              /\ Kept(x, 0) /\ Flagged(q, x) /\ (Clean(x) => Clean(q))
              /\ Stream(x) = [Stream(q) EXCEPT !.pushed = d \o @, !.eof = FALSE]
<1> DEFINE x == [q EXCEPT !.unread = d \o @, !.rpos = @ - 1, !.pushed = @ + 1, !.eof = FALSE]
<1> SUFFICES ASSUME BufRight(x)
             PROVE  /\ Kept(x, 0) /\ Flagged(q, x) /\ (Clean(x) => Clean(q))
                    /\ Stream(x) = [Stream(q) EXCEPT !.pushed = d \o @, !.eof = FALSE]
  OBVIOUS
<1> HIDE DEF x
<1> DEFINE u == q.unread
           g == q.pushed
           ul == Len(u)
           pr == q.rpos
           off == q.off
           y == Join(d, u)
           yl == Len(y)
           g1 == g + 1
           r1 == pr - 1
           fl == Len(q.file)
<1>1. /\ BufRight(q) /\ ReadAhead(q) /\ q.rd /\ pr + g >= 0 /\ q \in FileType /\ u \in Seq(Cell) /\ g \in Nat
      /\ ul \in Nat /\ pr \in Int /\ g <= ul /\ q.held = <<>> /\ DeviceSound(q)
  BY RightIs DEF Kept
<1>2. off \in Nat /\ q.file \in Seq(Cell) /\ fl \in Nat /\ off <= fl
  <2>1. off \in Nat /\ q.file \in Seq(Cell) /\ fl \in Nat
    BY <1>1, Types, LenIs
  <2> QED BY <1>1, <2>1 DEF DeviceSound
<1>3. y \in Seq(Cell) /\ yl = 1 + ul
  <2>1. y \in Seq(Cell) /\ yl = Len(d) + ul
    <3>1. d \in Seq(Cell) /\ u \in Seq(Cell)
      BY <1>1
    <3> HIDE DEF u
    <3> QED BY <3>1, JoinIs
  <2> QED BY <2>1
<1>4. Front(y, g1) = Join(d, Front(u, g)) /\ Drop(y, g1) = Drop(u, g)
  <2>1. g \in 0..ul
    <3> HIDE DEF g, ul
    <3> QED BY <1>1, SMT
  <2> QED BY <1>1, <2>1, PushedFront
<1>5. g1 \in Nat /\ r1 \in Int /\ r1 + g1 >= 0 /\ yl - g1 = ul - g /\ yl # 0 /\ g1 = g + 1 /\ r1 = pr - 1
  <2>1. g1 = g + 1 /\ r1 = pr - 1
    OBVIOUS
  <2> HIDE DEF g1, r1, pr, g, ul, yl
  <2> QED BY <1>1, <1>3, <2>1, SMT
<1>6. x = [q EXCEPT !.unread = y, !.rpos = r1, !.pushed = g1, !.eof = FALSE]
  BY <1>1 DEF Join, FileType, x
<1> HIDE DEF y, r1, g1
<1>7. /\ x.unread = y /\ x.rpos = r1 /\ x.pushed = g1 /\ x.eof = FALSE /\ x.act = q.act /\ x.rd = q.rd
      /\ x.off = q.off /\ x.file = q.file /\ x.held = q.held /\ x.err = q.err /\ x.lost = q.lost
      /\ x.app = q.app /\ x.dev = q.dev
  <2>1. y \in Seq(Cell) /\ g1 \in Nat /\ r1 \in Int
    BY <1>3, <1>5
  <2> QED BY <1>1, <1>6, <2>1, ZenonT(60) DEF FileType
<1>8. ReadAhead(x)
  <2> DEFINE k == ul - g
  <2>1. k <= off /\ Piece(q.file, off - k, Drop(u, g))
    <3>1. CASE u # <<>>
      BY <1>1, <3>1 DEF ReadAhead
    <3>2. CASE u = <<>>
      <4>1. ul = 0
        BY <1>1, <3>2, EmptyIs
      <4>2. g = 0
        <5> HIDE DEF g, ul
        <5> QED BY <1>1, <4>1, SMT
      <4>3. k = 0 /\ off - k = off /\ 0 <= off
        <5> HIDE DEF g, ul, off
        <5> QED BY <1>2, <4>1, <4>2, SMT
      <4>4. Drop(u, g) = <<>>
        BY <1>1, <3>2, <4>2, FrontNone
      <4>5. Piece(q.file, off, <<>>)
        BY <1>2, NoPiece
      <4> QED BY <4>3, <4>4, <4>5
    <3> QED BY <3>1, <3>2
  <2>2. Len(x.unread) - x.pushed = k
    BY <1>5, <1>7
  <2>3. Drop(x.unread, x.pushed) = Drop(u, g)
    BY <1>4, <1>7
  <2> HIDE DEF k
  <2> QED BY <1>7, <2>1, <2>2, <2>3 DEF ReadAhead
<1>9. Kept(x, 0)
  <2>1. x.rpos + x.pushed >= 0
    BY <1>5, <1>7
  <2> QED BY <1>1, <1>7, <1>8, <2>1 DEF Kept
<1>10. /\ Stream(q) \in StreamType /\ Stream(q).content = Content(q) /\ Stream(q).pos = Position(q)
       /\ Stream(q).pushed = Front(u, g) /\ Stream(q).err = (q.err \/ q.lost)
       /\ Stream(q).app = q.app /\ Stream(q).late = (q.app /\ q.dev = "mem")
  BY <1>1, KeptIs
<1>11. /\ Stream(x) \in StreamType /\ Stream(x).content = Content(x) /\ Stream(x).pos = Position(x)
       /\ Stream(x).pushed = Front(y, g1) /\ Stream(x).err = (x.err \/ x.lost) /\ Stream(x).eof = x.eof
       /\ Stream(x).app = x.app /\ Stream(x).late = (x.app /\ x.dev = "mem")
  BY <1>7, <1>8, KeptIs
<1>12. Content(x) = Content(q) /\ Position(x) = Position(q)
  <2>1. Content(x) = Content(q)
    BY <1>1, <1>7 DEF Content
  <2>2. Position(x) = off - (yl - g1) /\ Position(q) = off - (ul - g)
    BY <1>1, <1>7 DEF Position
  <2> QED BY <1>5, <2>1, <2>2
<1> DEFINE f == Stream(q)
           h == Stream(x)
<1>13. /\ f \in StreamType /\ h \in StreamType /\ h.app = f.app /\ h.late = f.late
       /\ h.content = f.content /\ h.pos = f.pos /\ h.err = f.err
       /\ h.pushed = d \o f.pushed /\ h.eof = FALSE
  BY <1>4, <1>7, <1>10, <1>11, <1>12 DEF Join
<1>14. h = [f EXCEPT !.pushed = d \o @, !.eof = FALSE]
  <2> HIDE DEF f, h
  <2>1. h = [f EXCEPT !.pushed = h.pushed, !.eof = h.eof]
    BY <1>13, StreamChanged
  <2> QED BY <1>13, <2>1
<1>15. Flagged(q, x) /\ (Clean(x) => Clean(q))
  BY <1>7 DEF Flagged, Clean
<1> QED BY <1>9, <1>14, <1>15

\* ungetc, of one byte.
LEMMA UngetcKeeps ==
  ASSUME NEW p, Kept(p, 0), NEW c \in Cell, NEW o \in Ungetc(p, c)
  PROVE  /\ Kept(o.p, 0) /\ Same(p, o.p) /\ Flagged(p, o.p)
         /\ Clean(o.p) =>
              \/ o.n = 1 /\ Stream(o.p) = [Stream(p) EXCEPT !.pushed = <<c>> \o @, !.eof = FALSE]
              \/ o.n = 0 /\ Stream(p).pushed # <<>> /\ Stream(o.p) = Stream(p)
<1> DEFINE Push(q) == [q EXCEPT !.unread = <<c>> \o @, !.rpos = @ - 1, !.pushed = @ + 1, !.eof = FALSE]
<1>0. BufRight(p) /\ BufRight(o.p) /\ Same(p, o.p)
  BY UngetcIs DEF Kept
<1>1. PICK q \in IF p.act = "read" THEN {p} ELSE ToRead(p) :
             o = IF q.act # "read" \/ q.rpos <= -UNGET THEN [p |-> q, n |-> 0]
                 ELSE [p |-> Push(q), n |-> 1]
  BY DEF Ungetc
<1>2. /\ Kept(q, 0) /\ Flagged(p, q)
      /\ Clean(q) => Stream(q) = Stream(p) /\ q.act = "read"
  <2>1. CASE p.act = "read"
    BY <1>1, <2>1 DEF Flagged
  <2>2. CASE p.act # "read"
    <3>1. p.unread = <<>> /\ q \in ToRead(p)
      BY <1>0, <1>1, <2>2, RightIs
    <3>2. Kept(q, 0) /\ Flagged(p, q) /\ (q.rd => q.act = "read") /\ (Clean(q) => Stream(q) = Stream(p) /\ q.rd)
      BY <3>1, ToReadKeeps
    <3> QED BY <3>2
  <2> QED BY <2>1, <2>2
<1>3. CASE q.act # "read" \/ q.rpos <= -UNGET
  <2>1. o.p = q /\ o.n = 0
    BY <1>1, <1>3
  <2>2. ASSUME Clean(q) PROVE Stream(p).pushed # <<>>
    <3> DEFINE g == q.pushed
               pr == q.rpos
               ul == Len(q.unread)
               t == Front(q.unread, g)
    <3>1. pr <= -UNGET /\ pr + g >= 0 /\ pr \in Int /\ g \in Nat /\ ul \in Nat /\ g <= ul /\ UNGET \in Nat \ {0}
          /\ BufRight(q) /\ ReadAhead(q) /\ q.unread \in Seq(Cell)
      BY <1>2, <1>3, <2>2, RightIs, FileBufferAssumption DEF Kept
    <3>2. Stream(p).pushed = t /\ Len(t) = g
      <4>1. Stream(q).pushed = t /\ Len(t) = g
        BY <3>1, KeptIs
      <4> QED BY <1>2, <2>2, <4>1
    <3>3. g # 0
      <4> HIDE DEF g, pr, ul
      <4> QED BY <3>1, SMT
    <3>4. t # <<>>
      BY <3>2, <3>3, EmptySeq
    <3> QED BY <3>2, <3>4
  <2> QED BY <1>0, <1>2, <2>1, <2>2
<1>4. CASE ~(q.act # "read" \/ q.rpos <= -UNGET)
  <2> DEFINE s == <<c>>
             x == [q EXCEPT !.unread = s \o @, !.rpos = @ - 1, !.pushed = @ + 1, !.eof = FALSE]
  <2>1. o.p = x /\ o.n = 1
    BY <1>1, <1>4
  <2>2. s \in Seq(Cell) /\ Len(s) = 1
    OBVIOUS
  <2>3. BufRight(x) /\ q.act = "read"
    BY <1>0, <1>4, <2>1
  <2> HIDE DEF s
  <2>5. /\ Kept(x, 0) /\ Flagged(q, x) /\ (Clean(x) => Clean(q))
        /\ Stream(x) = [Stream(q) EXCEPT !.pushed = s \o @, !.eof = FALSE]
    <3>1. Kept(q, 0) /\ q.act = "read" /\ s \in Seq(Cell) /\ Len(s) = 1
      BY <1>2, <2>2, <2>3
    <3>2. BufRight(x) =>
            /\ Kept(x, 0) /\ Flagged(q, x) /\ (Clean(x) => Clean(q))
            /\ Stream(x) = [Stream(q) EXCEPT !.pushed = s \o @, !.eof = FALSE]
      BY <3>1, UngetPush
    <3> HIDE DEF x
    <3> QED BY <2>3, <3>2
  <2> HIDE DEF x
  <2>6. Flagged(p, x)
    BY <1>2, <2>5 DEF Flagged
  <2> QED BY <1>0, <1>2, <2>1, <2>5, <2>6 DEF s
<1> QED BY <1>3, <1>4

\* Where a seek of the unbuffered stream counts from.
BaseOf(f, w) ==
  CASE w = "SET" -> 0
    [] w = "CUR" -> f.pos - Len(f.pushed)
    [] w = "END" -> Len(f.content)

\* The byte the client is at, from the device's position.
LEMMA ToldIs ==
  ASSUME NEW p, BufRight(p), ReadAhead(p)
  PROVE  /\ Stream(p).pos - Len(Stream(p).pushed) \in Int
         /\ p.held = <<>> => Stream(p).pos - Len(Stream(p).pushed) = p.off - Len(p.unread)
         /\ p.held # <<>> => Stream(p).pos - Len(Stream(p).pushed) = At(p) + Len(p.held)
<1> DEFINE n == Stream(p).pos
           k == Len(Stream(p).pushed)
           off == p.off
           ul == Len(p.unread)
           g == p.pushed
           at == At(p) + Len(p.held)
<1>1. n = Position(p) /\ k = g /\ n \in Nat
  BY KeptIs
<1>2. off \in Nat /\ ul \in Nat /\ g \in Nat /\ p.act \in Acts /\ at \in Nat /\ g <= ul
      /\ (p.act # "read" => p.unread = <<>>) /\ (p.act # "write" => p.held = <<>>)
  <2>1. /\ ul \in Nat /\ g \in Nat /\ p.act \in Acts /\ Len(p.held) \in Nat /\ At(p) \in Nat /\ p \in FileType /\ g <= ul
        /\ (p.act # "read" => p.unread = <<>>) /\ (p.act # "write" => p.held = <<>>)
    BY RightIs
  <2>2. at \in Nat
    <3> DEFINE a == At(p)
               b == Len(p.held)
    <3> HIDE DEF a, b
    <3>1. a + b \in Nat
      BY <2>1, SMT DEF a, b
    <3> QED BY <3>1 DEF a, b
  <2> QED BY <2>1, <2>2, Types
<1>3. n - k \in Int
  <2> HIDE DEF n, k
  <2>1. k \in Nat
    BY <1>1, <1>2
  <2> QED BY <1>1, <2>1, SMT
<1>4. ASSUME p.held = <<>> PROVE n - k = off - ul
  <2>1. n = off - (ul - g)
    BY <1>1, <1>4 DEF Position
  <2> HIDE DEF n, k, off, ul, g
  <2> QED BY <1>1, <1>2, <2>1, SMT
<1>5. ASSUME p.held # <<>> PROVE n - k = at
  <2>1. n = at
    BY <1>1, <1>5 DEF Position
  <2>2. p.unread = <<>>
    <3>1. p.act = "write"
      BY <1>2, <1>5
    <3> QED BY <1>2, <3>1
  <2>3. g = 0
    BY <2>2, NonePushed
  <2> HIDE DEF n, k, at, g
  <2> QED BY <1>1, <1>2, <2>1, <2>3, SMT
<1> QED BY <1>3, <1>4, <1>5

\* What a seek leaves, in the terms of its two streams.
SeekLeaves(p, w, o, r) ==
  /\ Kept(r.p, 0) /\ Same(p, r.p) /\ Flagged(p, r.p)
  /\ r.n \in {-1, 0}
  /\ r.n = -1 /\ Clean(r.p) => Stream(r.p) = Stream(p)
  /\ r.n = 0 /\ ~r.p.lost =>
       LET f == Stream(p)
           g == Stream(r.p)
       IN /\ BaseOf(f, w) + o >= 0 /\ g.pos = BaseOf(f, w) + o /\ g.pushed = <<>> /\ g.eof = FALSE
          /\ g.content = f.content /\ g.err = f.err /\ r.p.err = p.err

\* __fseeko_unlocked.  A refused seek changes nothing that the client sees; one
\* that went wrong on the way says so.
LEMMA FseekKeeps ==
  ASSUME NEW p, Kept(p, 0), NEW w \in {"SET", "CUR", "END"}, NEW o \in Int, NEW r \in FseekFrom(p, w, o),
         Reachable(r.p) \/ (w = "SET" /\ o = 0)
  PROVE  SeekLeaves(p, w, o, r)
<1> SUFFICES /\ Kept(r.p, 0) /\ Same(p, r.p) /\ Flagged(p, r.p)
             /\ r.n \in {-1, 0}
             /\ r.n = -1 /\ Clean(r.p) => Stream(r.p) = Stream(p)
             /\ r.n = 0 /\ ~r.p.lost =>
                  LET f == Stream(p)
                      g == Stream(r.p)
                  IN /\ BaseOf(f, w) + o >= 0 /\ g.pos = BaseOf(f, w) + o /\ g.pushed = <<>> /\ g.eof = FALSE
                     /\ g.content = f.content /\ g.err = f.err /\ r.p.err = p.err
  BY Zenon DEF SeekLeaves
<1> DEFINE ul == Len(p.unread)
           adj == IF w = "CUR" THEN o - ul ELSE o
           After(k) == IF k.n < 0 THEN [p |-> k.p, n |-> -1]
                       ELSE [p |-> [Idled(k.p) EXCEPT !.eof = FALSE], n |-> 0]
<1>1. BufRight(p) /\ ReadAhead(p) /\ ul \in Nat /\ (p.act # "write" => p.held = <<>>)
  BY RightIs DEF Kept
<1>2. adj \in Int
  <2> HIDE DEF ul
  <2>2. o \in Int /\ o - ul \in Int
    BY <1>1, SMT
  <2> QED BY <2>2
<1>3. BufRight(r.p) /\ Same(p, r.p)
  BY <1>1, FseekIs
<1>4. PICK q \in Flushed(p) :
         \/ q.act = "none" /\ p.held # <<>> /\ r = [p |-> q, n |-> -1]
         \/ /\ ~(q.act = "none" /\ p.held # <<>>)
            /\ \E k \in SeekOp(NotWriting(q), Target(q, w, adj)) : r = After(k)
  <2> DEFINE Seek1(q) == {After(k) : k \in SeekOp(NotWriting(q), Target(q, w, adj))}
  <2>1. PICK q \in Flushed(p) : r \in IF q.act = "none" /\ p.held # <<>> THEN {[p |-> q, n |-> -1]}
                                      ELSE Seek1(q)
    BY DEF FseekFrom
  <2> QED BY <2>1
<1>5. /\ BufRight(q) /\ Same(p, q) /\ SameUnread(p, q) /\ Flagged(p, q) /\ (q.act = "read" => p.act = "read")
      /\ \/ q.lost
         \/ q.err /\ q.act = "none" /\ p.held # <<>>
         \/ Stream(q) = Stream(p) /\ q.held = <<>> /\ q.act = p.act /\ q.err = p.err /\ q.lost = p.lost
  BY <1>1, FlushKeeps, FlushedIs
<1>6. ReadAhead(q)
  <2>1. CASE p.held = <<>>
    <3>1. q = p
      BY <1>1, <2>1, FlushedIs
    <3> QED BY <1>1, <3>1
  <2>2. CASE p.held # <<>>
    <3>1. p.act = "write"
      BY <1>1, <2>2
    <3>2. p.unread = <<>>
      BY <1>1, <3>1, RightIs
    <3>3. q.unread = <<>>
      BY <1>5, <3>2 DEF SameUnread
    <3> QED BY <3>3, NothingUnread
  <2> QED BY <2>1, <2>2
<1>7. CASE q.act = "none" /\ p.held # <<>> /\ r = [p |-> q, n |-> -1]
  <2>1. r.p = q /\ r.n = -1 /\ r.n # 0
    BY <1>7
  <2>2. ~Clean(q)
    <3>1. p.act = "write"
      BY <1>1, <1>7
    <3> QED BY <1>5, <1>7, <3>1 DEF Clean
  <2>3. Kept(q, 0)
    <3>1. q.unread = <<>>
      BY <1>5, <1>7, RightIs
    <3> QED BY <1>5, <1>7, <3>1, KeptEmpty
  <2> QED BY <1>3, <1>5, <2>1, <2>2, <2>3
<1>8. CASE /\ ~(q.act = "none" /\ p.held # <<>>)
           /\ \E k \in SeekOp(NotWriting(q), Target(q, w, adj)) : r = After(k)
  <2> DEFINE t == Target(q, w, adj)
             m == NotWriting(q)
  <2>1. PICK k \in SeekOp(m, t) : r = After(k)
    BY <1>8
  <2>2. /\ BufRight(m) /\ Same(q, m) /\ DeviceSound(m) /\ m.off = q.off /\ m.file = q.file /\ m.held = <<>>
        /\ m.unread = q.unread /\ m.pushed = q.pushed /\ m.rpos = q.rpos /\ m.eof = q.eof
        /\ m.err = q.err /\ m.lost = q.lost /\ m.act = IF q.act = "write" THEN "none" ELSE q.act
    <3>1. /\ BufRight(m) /\ Same(q, m) /\ m.off = q.off /\ m.file = q.file /\ m.held = <<>>
          /\ m.unread = q.unread /\ m.pushed = q.pushed /\ m.rpos = q.rpos /\ m.eof = q.eof
          /\ m.err = q.err /\ m.lost = q.lost /\ m.act = IF q.act = "write" THEN "none" ELSE q.act
      BY <1>5, NotWritingIs
    <3> QED BY <3>1 DEF BufRight
  <2>3. t \in Int
    BY <1>2, <1>5, RightIs, TargetIs
  <2> HIDE DEF t, m, adj
  <2>4. \/ k.p = m /\ k.n = -1
        \/ t >= 0 /\ k.p = [m EXCEPT !.off = t] /\ k.n = t
    BY <2>2, <2>3, SeekOpIs
  <2>5. CASE k.p = m /\ k.n = -1
    <3>1. k.n < 0
      BY <2>5, SMT
    <3>2. r.p = m /\ r.n = -1 /\ r.n # 0
      BY <2>1, <2>5, <3>1
    <3>3. Flagged(p, m)
      BY <1>5, <2>2 DEF Flagged
    <3>4. Kept(m, 0)
      <4>1. ReadAhead(m)
        BY <1>6, <2>2 DEF ReadAhead
      <4>2. m.eof => m.unread = <<>>
        BY <1>5, <2>2 DEF SameUnread, Kept
      <4>3. ASSUME m.act = "read" PROVE m.rd /\ m.rpos + m.pushed >= 0
        <5>1. p.act = "read"
          BY <1>5, <2>2, <4>3
        <5>2. p.rd /\ p.rpos + p.pushed >= 0
          BY <5>1 DEF Kept
        <5> QED BY <1>5, <2>2, <5>2 DEF Same, SameUnread
      <4> QED BY <2>2, <4>1, <4>2, <4>3 DEF Kept
    <3>5. ASSUME Clean(m) PROVE Stream(m) = Stream(p)
      <4>1. /\ Stream(q) = Stream(p) /\ q.held = <<>>
        <5>1. p.held # <<>> => q.act # "none" \/ q.lost
          BY <1>8
        <5>2. ~q.lost /\ ~q.err
          BY <2>2, <3>5 DEF Clean
        <5> QED BY <1>5, <5>2
      <4>2. Content(m) = Content(q) /\ Position(m) = Position(q)
        BY <2>2, <4>1 DEF Content, Position
      <4>3. Stream(m) = Stream(q)
        <5>1. /\ Content(m) = Content(q) /\ Position(m) = Position(q)
              /\ Front(m.unread, m.pushed) = Front(q.unread, q.pushed) /\ m.eof = q.eof
              /\ (m.err \/ m.lost) = (q.err \/ q.lost) /\ m.app = q.app /\ m.dev = q.dev
          BY <2>2, <4>2 DEF Same
        <5> QED BY <5>1, SameStream
      <4> QED BY <4>1, <4>3
    <3> QED BY <1>3, <3>2, <3>3, <3>4, <3>5
  <2>6. CASE t >= 0 /\ k.p = [m EXCEPT !.off = t] /\ k.n = t
    <3>1. ~(k.n < 0) /\ t \in Nat
      BY <2>3, <2>6, SMT
    <3> DEFINE v == [m EXCEPT !.off = t]
    <3>2. r.p = [Idled(v) EXCEPT !.eof = FALSE] /\ r.n = 0 /\ r.n # -1
      BY <2>1, <2>6, <3>1
    <3>3. m \in FileType
      BY <2>2 DEF DeviceSound
    <3>4. /\ r.p.off = t /\ r.p.file = m.file /\ r.p.act = "none" /\ r.p.unread = <<>> /\ r.p.pushed = 0
          /\ r.p.held = <<>> /\ r.p.eof = FALSE /\ r.p.err = m.err /\ r.p.lost = m.lost
      BY <3>1, <3>2, <3>3 DEF Idled, NotWriting, FileType
    <3>5. Kept(r.p, 0) /\ ReadAhead(r.p)
      BY <1>3, <3>4, KeptEmpty DEF Kept
    <3>6. Flagged(p, r.p)
      BY <1>5, <2>2, <3>4 DEF Flagged
    <3> DEFINE f == Stream(p)
               g == Stream(r.p)
               b == BaseOf(f, w)
    <3>7. ASSUME ~r.p.lost
          PROVE  b + o >= 0 /\ g.pos = b + o /\ g.pushed = <<>> /\ g.eof = FALSE
                 /\ g.content = f.content /\ g.err = f.err /\ r.p.err = p.err
      <4>1. /\ g.content = Content(r.p) /\ g.pos = Position(r.p) /\ g.pushed = Front(r.p.unread, r.p.pushed)
            /\ g.eof = r.p.eof /\ g.err = (r.p.err \/ r.p.lost)
        BY <1>3, <3>5, KeptIs
      <4>2. g.content = m.file /\ g.pos = t /\ g.pushed = <<>> /\ g.eof = FALSE
        <5>1. Content(r.p) = m.file
          BY <3>4 DEF Content
        <5>2. Position(r.p) = t /\ Front(r.p.unread, r.p.pushed) = <<>>
          BY <3>1, <3>4, NothingUnread
        <5> QED BY <3>4, <4>1, <5>1, <5>2
      <4>3. /\ Stream(q) = Stream(p) /\ q.held = <<>> /\ q.err = p.err /\ q.lost = p.lost
        <5>1. ~q.lost
          BY <2>2, <3>4, <3>7
        <5> QED BY <1>5, <1>8, <5>1
      <4>4. f.content = q.file /\ f.err = (p.err \/ p.lost)
        <5>1. Stream(q).content = Content(q) /\ Stream(q).err = (q.err \/ q.lost)
          BY <1>5, <1>6, KeptIs
        <5>2. Content(q) = q.file
          BY <4>3 DEF Content
        <5> QED BY <4>3, <5>1, <5>2
      <4>5. g.err = f.err /\ r.p.err = p.err
        BY <2>2, <3>4, <4>1, <4>3, <4>4
      <4>6. t = b + o
        <5> DEFINE off == q.off
                   l == Len(q.file)
                   told == f.pos - Len(f.pushed)
        <5>1. off \in Nat /\ l \in Nat
          <6>1. q \in FileType
            BY <1>5, RightIs
          <6> QED BY <6>1, Types, LenIs
        <5>2. told = off - ul
          <6>1. Stream(q).pos - Len(Stream(q).pushed) = q.off - Len(q.unread)
            BY <1>5, <1>6, <4>3, ToldIs
          <6>2. Len(q.unread) = ul
            BY <1>5 DEF SameUnread
          <6> QED BY <4>3, <6>1, <6>2
        <5>3. CASE w = "SET"
          <6>1. t = o /\ b = 0
            BY <5>3 DEF t, Target, adj, BaseOf
          <6> HIDE DEF b
          <6> QED BY <6>1, SMT
        <5>4. CASE w = "CUR"
          <6>1. t = off + (o - ul) /\ b = told
            BY <5>4 DEF t, Target, adj, BaseOf
          <6> HIDE DEF b, told, off, ul
          <6> QED BY <1>1, <5>1, <5>2, <6>1, SMT
        <5>5. CASE w = "END"
          <6>1. t = l + o /\ b = l
            BY <4>4, <5>5 DEF t, Target, adj, BaseOf
          <6> HIDE DEF b, l
          <6> QED BY <5>1, <6>1, SMT
        <5> QED BY <5>3, <5>4, <5>5
      <4>7. t >= 0
        BY <2>6
      <4> HIDE DEF g, f, b
      <4>8. b + o >= 0 /\ g.pos = b + o
        BY <4>2, <4>6, <4>7
      <4> QED BY <2>2, <4>2, <4>4, <4>5, <4>8
    <3> QED BY <1>3, <3>2, <3>5, <3>6, <3>7
  <2> QED BY <2>4, <2>5, <2>6
<1> QED BY <1>4, <1>7, <1>8

\* __fflush_unlocked: what is unread is read again, what was pushed back is
\* forgotten.
LEMMA FflushKeeps ==
  ASSUME NEW p, Kept(p, 0), p.unread # <<>> => p.seekable, NEW o \in FflushUnlocked(p)
  PROVE  /\ Kept(o.p, 0) /\ Same(p, o.p) /\ Flagged(p, o.p)
         /\ Clean(o.p) =>
              LET f == Stream(p)
                  g == Stream(o.p)
                  told == f.pos - Len(f.pushed)
              IN /\ o.n = 0 /\ g.content = f.content /\ g.pushed = <<>> /\ g.eof = f.eof /\ g.err = f.err
                 /\ g.pos \in IF told < 0 THEN 0..Len(f.content) ELSE {told}
<1> DEFINE Ways(q) == IF q.unread = <<>> THEN {[p |-> q]} ELSE SeekOp(q, q.off - Len(q.unread))
<1>1. BufRight(p) /\ ReadAhead(p) /\ BufRight(o.p) /\ Same(p, o.p) /\ (p.act # "write" => p.held = <<>>)
      /\ (p.act # "read" => p.unread = <<>>)
  BY FflushIs, RightIs DEF Kept
<1>2. PICK q \in Flushed(p) :
         \/ q.act = "none" /\ p.held # <<>> /\ o = [p |-> q, n |-> -1]
         \/ ~(q.act = "none" /\ p.held # <<>>) /\ \E k \in Ways(q) : o = [p |-> Idled(k.p), n |-> 0]
  <2> DEFINE All(q) == {[p |-> Idled(k.p), n |-> 0] : k \in Ways(q)}
  <2>1. PICK q \in Flushed(p) : o \in IF q.act = "none" /\ p.held # <<>> THEN {[p |-> q, n |-> -1]}
                                      ELSE All(q)
    BY DEF FflushUnlocked
  <2> QED BY <2>1
<1>3. /\ BufRight(q) /\ Same(p, q) /\ SameUnread(p, q) /\ Flagged(p, q)
      /\ \/ q.lost
         \/ q.err /\ q.act = "none" /\ p.held # <<>>
         \/ Stream(q) = Stream(p) /\ q.held = <<>> /\ q.act = p.act /\ q.err = p.err /\ q.lost = p.lost
  BY <1>1, FlushKeeps, FlushedIs
<1>4. ReadAhead(q) /\ (q.unread # <<>> => q = p)
  <2>1. CASE p.held = <<>>
    <3>1. q = p
      BY <1>1, <2>1, FlushedIs
    <3> QED BY <1>1, <3>1
  <2>2. CASE p.held # <<>>
    <3>1. p.act = "write"
      BY <1>1, <2>2
    <3>2. q.unread = <<>>
      BY <1>1, <1>3, <3>1 DEF SameUnread
    <3> QED BY <3>2, NothingUnread
  <2> QED BY <2>1, <2>2
<1>5. CASE q.act = "none" /\ p.held # <<>> /\ o = [p |-> q, n |-> -1]
  <2>1. o.p = q
    BY <1>5
  <2>2. ~Clean(q)
    <3>1. p.act = "write"
      BY <1>1, <1>5
    <3> QED BY <1>3, <1>5, <3>1 DEF Clean
  <2>3. Kept(q, 0)
    <3>1. q.unread = <<>>
      BY <1>3, <1>5, RightIs
    <3> QED BY <1>3, <1>5, <3>1, KeptEmpty
  <2> QED BY <1>3, <2>1, <2>2, <2>3
<1>6. CASE ~(q.act = "none" /\ p.held # <<>>) /\ \E k \in Ways(q) : o = [p |-> Idled(k.p), n |-> 0]
  <2>1. PICK k \in Ways(q) : o = [p |-> Idled(k.p), n |-> 0]
    BY <1>6
  <2> DEFINE m == k.p
             t == q.off - Len(q.unread)
             off == q.off
             ul == Len(q.unread)
             fl == Len(q.file)
  <2>2. /\ q \in FileType /\ DeviceSound(q) /\ off \in Nat /\ ul \in Nat /\ fl \in Nat /\ q.file \in Seq(Cell)
        /\ (q.dev # "grow" => off <= fl)
    <3>1. q \in FileType /\ DeviceSound(q) /\ ul \in Nat
      BY <1>3, RightIs
    <3>2. off \in Nat /\ q.file \in Seq(Cell) /\ fl \in Nat
      BY <3>1, Types, LenIs
    <3> QED BY <3>1, <3>2 DEF DeviceSound
  <2>3. t \in Int /\ t <= off
    <3>1. t = off - ul
      OBVIOUS
    <3> HIDE DEF t, off, ul
    <3> QED BY <2>2, <3>1, SMT
  <2>4. \/ m = q /\ (q.unread = <<>> \/ t < 0)
        \/ q.unread # <<>> /\ t >= 0 /\ m = [q EXCEPT !.off = t]
    <3>1. CASE q.unread = <<>>
      <4>1. k = [p |-> q]
        BY <2>1, <3>1
      <4> QED BY <3>1, <4>1
    <3>2. CASE q.unread # <<>>
      <4>1. k \in SeekOp(q, t)
        BY <2>1, <3>2
      <4>2. q = p /\ q.seekable /\ q.dev # "grow"
        <5>1. q = p
          BY <1>4, <3>2
        <5>2. p.act = "read"
          BY <1>1, <3>2, <5>1
        <5>3. p.rd
          BY <5>2 DEF Kept
        <5> QED BY <2>2, <3>2, <5>1, <5>3 DEF DeviceSound
      <4> HIDE DEF t, off, fl, ul
      <4>3. CASE t < 0
        <5>1. ~(t >= 0)
          BY <2>3, <4>3, SMT
        <5>2. k = [p |-> q, n |-> -1]
          BY <4>1, <5>1 DEF SeekOp
        <5> QED BY <4>3, <5>2
      <4>4. CASE ~(t < 0)
        <5>1. t >= 0
          BY <2>3, <4>4, SMT
        <5> DEFINE al == Len(Array(q))
                   tl == Len(q.tail)
        <5>2. al = fl + tl /\ tl \in Nat
          BY <2>2, ArrayIs DEF fl
        <5> HIDE DEF al, tl
        <5>3. t <= al
          BY <2>2, <2>3, <4>2, <5>2, SMT
        <5>4. k = [p |-> [q EXCEPT !.off = t], n |-> t]
          BY <4>1, <4>2, <5>1, <5>3 DEF SeekOp, al
        <5> QED BY <3>2, <5>1, <5>4
      <4> QED BY <4>3, <4>4
    <3> QED BY <3>1, <3>2
  <2> HIDE DEF t
  <2>5. /\ m \in FileType /\ m.file = q.file /\ m.err = q.err /\ m.lost = q.lost /\ m.eof = q.eof
        /\ m.off = IF m = q THEN off ELSE t
    <3>1. CASE m = q
      BY <2>2, <3>1
    <3>2. CASE t >= 0 /\ m = [q EXCEPT !.off = t]
      <4>1. t \in Nat
        BY <2>3, <3>2, SMT
      <4> HIDE DEF m, off
      <4>2. m \in FileType /\ m.file = q.file /\ m.err = q.err /\ m.lost = q.lost /\ m.eof = q.eof /\ m.off = t
        BY <2>2, <3>2, <4>1, ZenonT(60) DEF FileType
      <4>3. m = q => off = t
        BY <4>2 DEF off
      <4> QED BY <4>2, <4>3
    <3> QED BY <2>4, <3>1, <3>2
  <2>6. o.p = Idled(m) /\ o.n = 0
    BY <2>1
  <2> HIDE DEF m
  <2>7. /\ o.p.off = m.off /\ o.p.file = m.file /\ o.p.act = "none" /\ o.p.unread = <<>> /\ o.p.pushed = 0
        /\ o.p.held = <<>> /\ o.p.eof = m.eof /\ o.p.err = m.err /\ o.p.lost = m.lost
    BY <2>5, <2>6 DEF Idled, NotWriting, FileType
  <2>8. Kept(o.p, 0) /\ ReadAhead(o.p)
    BY <1>1, <2>7, KeptEmpty DEF Kept
  <2>9. Flagged(p, o.p)
    BY <1>3, <2>5, <2>7 DEF Flagged
  <2> DEFINE f == Stream(p)
             g == Stream(o.p)
             told == f.pos - Len(f.pushed)
  <2>10. ASSUME Clean(o.p)
         PROVE  /\ g.content = f.content /\ g.pushed = <<>> /\ g.eof = f.eof /\ g.err = f.err
                /\ g.pos \in IF told < 0 THEN 0..Len(f.content) ELSE {told}
    <3>1. /\ g.content = Content(o.p) /\ g.pos = Position(o.p) /\ g.pushed = Front(o.p.unread, o.p.pushed)
          /\ g.eof = o.p.eof /\ g.err = (o.p.err \/ o.p.lost)
      BY <1>1, <2>8, KeptIs
    <3>2. ~q.err /\ ~q.lost
      BY <2>5, <2>7, <2>10 DEF Clean
    <3>3. Stream(q) = f /\ q.held = <<>>
      BY <1>3, <3>2
    <3>4. /\ f.content = Content(q) /\ f.eof = q.eof /\ f.err = (q.err \/ q.lost)
          /\ told = off - ul /\ told \in Int
      <4>1. /\ Stream(q).content = Content(q) /\ Stream(q).eof = q.eof /\ Stream(q).err = (q.err \/ q.lost)
        BY <1>3, <1>4, KeptIs
      <4>2. /\ Stream(q).pos - Len(Stream(q).pushed) = off - ul
            /\ Stream(q).pos - Len(Stream(q).pushed) \in Int
        BY <1>3, <1>4, <3>3, ToldIs
      <4> QED BY <3>3, <4>1, <4>2
    <3>5. f.content = q.file
      BY <3>3, <3>4 DEF Content
    <3>6. g.content = q.file /\ g.pushed = <<>> /\ g.eof = q.eof /\ g.err = FALSE
      <4>1. Content(o.p) = q.file
        BY <2>5, <2>7 DEF Content
      <4>2. Front(o.p.unread, o.p.pushed) = <<>>
        BY <2>7, NothingUnread
      <4>3. ~o.p.err /\ ~o.p.lost
        BY <2>10 DEF Clean
      <4> QED BY <2>5, <2>7, <3>1, <4>1, <4>2, <4>3
    <3>7. g.pos = m.off
      <4>1. m.off \in Nat
        BY <2>5, Types
      <4>2. o.p.off \in Nat
        BY <2>7, <4>1
      <4>3. Position(o.p) = o.p.off
        BY <2>7, <4>2, NothingUnread
      <4> QED BY <2>7, <3>1, <4>3
    <3>8. told = t
      BY <3>4 DEF t
    <3>9. m.off \in IF told < 0 THEN 0..fl ELSE {told}
      <4>1. CASE m = q /\ q.unread = <<>>
        <5>1. ul = 0
          BY <4>1, EmptySeq
        <5>2. m.off = off
          BY <2>5, <4>1
        <5> DEFINE mo == m.off
        <5> HIDE DEF told, off, ul, fl, mo
        <5>3. told = off /\ ~(told < 0)
          BY <2>2, <3>4, <5>1, SMT
        <5> QED BY <5>2, <5>3 DEF mo
      <4>2. CASE m = q /\ q.unread # <<>> /\ t < 0
        <5>1. q.dev # "grow"
          <6>1. q = p
            BY <1>4, <4>2
          <6>2. p.act = "read"
            BY <1>1, <4>2, <6>1
          <6>3. p.rd
            BY <6>2 DEF Kept
          <6> QED BY <2>2, <6>1, <6>3 DEF DeviceSound
        <5>2. m.off = off /\ told < 0
          BY <2>5, <3>8, <4>2
        <5> HIDE DEF told, off, ul, fl
        <5>3. off \in 0..fl
          BY <2>2, <5>1, SMT
        <5> QED BY <5>2, <5>3
      <4>3. CASE q.unread # <<>> /\ t >= 0 /\ m = [q EXCEPT !.off = t]
        <5>1. ~(told < 0)
          <6> HIDE DEF told
          <6> QED BY <2>3, <3>8, <4>3, SMT
        <5>2. m.off = t
          <6>1. CASE m = q
            <7>1. m.off = off
              BY <2>5, <6>1
            <7>2. q.off = t
              <8>1. t \in Nat
                BY <2>3, <4>3, SMT
              <8> DEFINE v == [q EXCEPT !.off = t]
              <8>2. v.off = t
                BY <2>2, <8>1, ZenonT(60) DEF FileType
              <8> QED BY <4>3, <6>1, <8>2
            <7> QED BY <7>1, <7>2
          <6>2. CASE m # q
            BY <2>5, <6>2
          <6> QED BY <6>1, <6>2
        <5> QED BY <3>8, <5>1, <5>2
      <4> QED BY <2>4, <4>1, <4>2, <4>3
    <3> HIDE DEF g, f
    <3> QED BY <3>2, <3>4, <3>5, <3>6, <3>7, <3>9 DEF fl
  <2> QED BY <1>1, <2>6, <2>8, <2>9, <2>10
<1> QED BY <1>2, <1>5, <1>6

\* __ftello_unlocked looks at the device's position and leaves the stream alone.
LEMMA FtellKeeps ==
  ASSUME NEW p, Kept(p, 0),
         NEW k \in SeekOp(p, IF p.dev = "fd" /\ p.app /\ p.held # <<>> THEN Len(p.file) ELSE p.off),
         BufRight(k.p)
  PROVE  LET f == Stream(p)
             told == f.pos - Len(f.pushed)
             n == IF k.n < 0 THEN -1 ELSE IF p.act = "read" THEN k.n - Len(p.unread) ELSE k.n + Len(p.held)
         IN /\ Kept(k.p, 0) /\ Stream(k.p) = f /\ Same(p, k.p) /\ Flagged(p, k.p)
            /\ n = -1 \/ n \in {told} \cup IF f.late THEN 0..told ELSE {}
<1> DEFINE f == Stream(p)
           told == f.pos - Len(f.pushed)
           n == IF k.n < 0 THEN -1 ELSE IF p.act = "read" THEN k.n - Len(p.unread) ELSE k.n + Len(p.held)
           b == p.dev = "fd" /\ p.app /\ p.held # <<>>
           off == p.off
           fl == Len(p.file)
           ul == Len(p.unread)
           lh == Len(p.held)
           at == At(p)
           t == IF b THEN fl ELSE off
<1> SUFFICES /\ Kept(k.p, 0) /\ Stream(k.p) = f /\ Same(p, k.p) /\ Flagged(p, k.p)
             /\ n = -1 \/ n \in {told} \cup IF f.late THEN 0..told ELSE {}
  OBVIOUS
<1>1. /\ BufRight(p) /\ ReadAhead(p) /\ DeviceSound(p) /\ p \in FileType /\ p.act \in Acts /\ ul \in Nat /\ lh \in Nat
      /\ (p.act # "read" => p.unread = <<>>) /\ (p.act # "write" => p.held = <<>>) /\ at \in Nat
  BY RightIs DEF Kept
<1>2. /\ off \in Nat /\ fl \in Nat /\ off <= MaxContent /\ fl <= MaxContent /\ (p.dev # "grow" => off <= fl)
      /\ p.app \in BOOLEAN /\ (p.app => p.dev \in {"fd", "mem"})
  BY <1>1, Types, LenIs DEF DeviceSound
<1>3. /\ t \in Nat /\ t \in Int /\ t <= MaxContent /\ (p.dev # "grow" => t <= fl)
  <2> HIDE DEF b, off, fl
  <2> QED BY <1>2, SMT
<1>4. (p.app => b \/ t = off) /\ (~p.app => t = off) /\ (p.held = <<>> => t = off)
  OBVIOUS
<1>5. (p.app => at = fl) /\ (~p.app => at = off)
  BY DEF At
<1>6. /\ told \in Int /\ (p.held = <<>> => told = off - ul) /\ (p.held # <<>> => told = at + lh)
      /\ f.late = (p.app /\ p.dev = "mem")
  BY <1>1, ToldIs, KeptIs
<1>7. b => t = fl
  OBVIOUS
<1>8. k \in SeekOp(p, t)
  OBVIOUS
<1>9. ~b /\ p.app /\ p.held # <<>> => p.dev = "mem"
  BY <1>2
<1> HIDE DEF t
<1>10. \/ k.p = p /\ k.n = -1
       \/ t >= 0 /\ k.p = [p EXCEPT !.off = t] /\ k.n = t
  BY <1>1, <1>3, <1>8, SeekOpIs
<1>11. CASE k.p = p /\ k.n = -1
  <2>1. n = -1
    <3>1. k.n < 0
      BY <1>11, SMT
    <3> QED BY <3>1
  <2> QED BY <1>11, <2>1 DEF Same, Flagged
<1>12. CASE t >= 0 /\ k.p = [p EXCEPT !.off = t] /\ k.n = t
  <2> DEFINE v == [p EXCEPT !.off = t]
  <2>1. /\ Same(p, v) /\ SameUnread(p, v) /\ SameHeld(p, v) /\ v.file = p.file /\ v.off = t
        /\ At(v) = IF p.app THEN At(p) ELSE t
    BY <1>1, <1>3, SoughtIs DEF fl
  <2>2. k.p = v
    BY <1>12
  <2> HIDE DEF v
  <2>3. At(v) = At(p)
    BY <1>4, <1>5, <2>1
  <2>4. BufRight(v)
    BY <2>2
  <2>5. p.unread # <<>> => v.off = p.off
    <3>1. p.unread # <<>> => p.held = <<>>
      BY <1>1
    <3> QED BY <1>4, <2>1, <3>1
  <2>6. ReadAhead(v)
    BY <1>1, <2>1, <2>5 DEF ReadAhead, SameUnread
  <2>7. Kept(v, 0)
    BY <2>1, <2>4, <2>6 DEF Kept, Same, SameUnread, SameHeld
  <2>8. Content(v) = Content(p)
    BY <2>1, <2>3 DEF Content, Written, SameHeld
  <2>9. Position(v) = Position(p)
    <3>1. CASE p.held = <<>>
      <4>1. v.off = p.off
        BY <1>4, <2>1, <3>1
      <4> QED BY <2>1, <3>1, <4>1 DEF Position, SameHeld, SameUnread
    <3>2. CASE p.held # <<>>
      BY <2>1, <2>3, <3>2 DEF Position, SameHeld
    <3> QED BY <3>1, <3>2
  <2>10. Stream(v) = Stream(p)
    <3>1. /\ Content(v) = Content(p) /\ Position(v) = Position(p)
          /\ Front(v.unread, v.pushed) = Front(p.unread, p.pushed) /\ v.eof = p.eof
          /\ (v.err \/ v.lost) = (p.err \/ p.lost) /\ v.app = p.app /\ v.dev = p.dev
      BY <2>1, <2>8, <2>9 DEF Same, SameUnread, SameHeld
    <3> QED BY <3>1, SameStream
  <2>11. Flagged(p, v)
    BY <2>1 DEF Flagged, SameHeld
  <2>12. n = IF p.act = "read" THEN t - ul ELSE t + lh
    <3>1. ~(t < 0)
      BY <1>3, SMT
    <3> QED BY <1>12, <3>1
  <2>13. n \in {told} \cup IF f.late THEN 0..told ELSE {}
    <3>1. CASE p.held = <<>>
      <4>1. lh = 0 /\ t = off /\ told = off - ul
        BY <1>4, <1>6, <3>1, EmptySeq
      <4>2. p.act # "read" => ul = 0
        BY <1>1, EmptySeq
      <4>3. n = told
        <5> HIDE DEF n, lh, off, told, ul
        <5>1. CASE p.act = "read"
          BY <2>12, <4>1, <5>1
        <5>2. CASE p.act # "read"
          <6>1. n = t + lh /\ ul = 0
            BY <2>12, <4>2, <5>2
          <6> QED BY <1>1, <1>2, <4>1, <6>1, SMT
        <5> QED BY <5>1, <5>2
      <4> HIDE DEF n, told
      <4> QED BY <4>3
    <3>2. CASE p.held # <<>>
      <4>1. n = t + lh /\ told = at + lh
        <5>1. p.act # "read"
          BY <1>1, <3>2
        <5> HIDE DEF n, told
        <5> QED BY <1>6, <2>12, <3>2, <5>1
      <4>2. CASE t = at
        <5>1. n = told
          BY <4>1, <4>2
        <5> HIDE DEF n, told
        <5> QED BY <5>1
      <4>3. CASE t # at
        <5>1. p.app /\ ~b
          BY <1>4, <1>5, <1>7, <4>3
        <5>2. p.dev = "mem" /\ t = off /\ at = fl /\ off <= fl
          BY <1>2, <1>4, <1>5, <1>9, <3>2, <5>1
        <5>3. n \in 0..told
          <6> HIDE DEF n, told, at, lh, fl, off
          <6> QED BY <1>1, <1>2, <1>3, <4>1, <5>2, SMT
        <5>4. f.late
          BY <1>6, <5>1, <5>2
        <5> HIDE DEF n, told, f
        <5> QED BY <5>3, <5>4
      <4> QED BY <4>2, <4>3
    <3> QED BY <3>1, <3>2
  <2> HIDE DEF n, told
  <2> QED BY <2>2, <2>7, <2>1, <2>10, <2>11, <2>13
<1> QED BY <1>10, <1>11, <1>12

\* clearerr
LEMMA ClearerrKeeps ==
  ASSUME NEW p, Kept(p, 0)
  PROVE  LET q == [p EXCEPT !.eof = FALSE, !.err = FALSE]
         IN BufRight(q) =>
              /\ Kept(q, 0) /\ Same(p, q)
              /\ Stream(q).content = Stream(p).content /\ Stream(q).pos = Stream(p).pos
              /\ Stream(q).pushed = Stream(p).pushed /\ Stream(q).eof = FALSE /\ Stream(q).err = p.lost
<1> DEFINE q == [p EXCEPT !.eof = FALSE, !.err = FALSE]
<1>1. BufRight(p) /\ ReadAhead(p) /\ p \in FileType
  BY RightIs DEF Kept
<1>2. /\ q.unread = p.unread /\ q.rpos = p.rpos /\ q.pushed = p.pushed /\ q.act = p.act /\ q.rd = p.rd
      /\ q.off = p.off /\ q.file = p.file /\ q.held = p.held /\ q.lost = p.lost
      /\ q.app = p.app /\ q.dev = p.dev /\ q.wr = p.wr /\ q.cap = p.cap /\ q.size = p.size /\ q.lbf = p.lbf
      /\ q.eof = FALSE /\ q.err = FALSE
  BY <1>1, ZenonT(60) DEF FileType
<1> HIDE DEF q
<1>3. ASSUME BufRight(q)
      PROVE  /\ Kept(q, 0) /\ Same(p, q)
             /\ Stream(q).content = Stream(p).content /\ Stream(q).pos = Stream(p).pos
             /\ Stream(q).pushed = Stream(p).pushed /\ Stream(q).eof = FALSE /\ Stream(q).err = p.lost
  <2>1. ReadAhead(q)
    BY <1>1, <1>2 DEF ReadAhead
  <2>2. Kept(q, 0)
    BY <1>2, <1>3, <2>1 DEF Kept
  <2>3. Content(q) = Content(p) /\ Position(q) = Position(p)
    BY <1>2 DEF Content, Position, Written, At
  <2>4. Stream(q).content = Content(q) /\ Stream(q).pos = Position(q) /\ Stream(q).pushed = Front(q.unread, q.pushed)
        /\ Stream(q).eof = q.eof /\ Stream(q).err = (q.err \/ q.lost)
    BY <1>3, <2>1, KeptIs
  <2>5. Stream(p).content = Content(p) /\ Stream(p).pos = Position(p) /\ Stream(p).pushed = Front(p.unread, p.pushed)
    BY <1>1, KeptIs
  <2>6. p.lost \in BOOLEAN
    BY <1>1, Types
  <2> QED BY <1>2, <2>2, <2>3, <2>4, <2>5, <2>6 DEF Same
<1> QED BY <1>3 DEF q

\* setvbuf changes nothing that the client sees.
LEMMA SetvbufKeeps ==
  ASSUME NEW p, Kept(p, 0), p.act = "none", NEW z \in Nat, NEW l \in BOOLEAN
  PROVE  LET q == [p EXCEPT !.svb = TRUE, !.size = z, !.lbf = l]
         IN BufRight(q) => Kept(q, 0) /\ Stream(q) = Stream(p)
<1> DEFINE q == [p EXCEPT !.svb = TRUE, !.size = z, !.lbf = l]
<1>1. BufRight(p) /\ ReadAhead(p) /\ p \in FileType
  BY RightIs DEF Kept
<1>2. /\ q.unread = p.unread /\ q.rpos = p.rpos /\ q.pushed = p.pushed /\ q.act = p.act /\ q.rd = p.rd
      /\ q.off = p.off /\ q.file = p.file /\ q.held = p.held /\ q.lost = p.lost
      /\ q.app = p.app /\ q.dev = p.dev /\ q.eof = p.eof /\ q.err = p.err
  BY <1>1, ZenonT(60) DEF FileType
<1> HIDE DEF q
<1>3. ASSUME BufRight(q)
      PROVE  Kept(q, 0) /\ Stream(q) = Stream(p)
  <2>1. ReadAhead(q)
    BY <1>1, <1>2 DEF ReadAhead
  <2>2. Kept(q, 0)
    BY <1>2, <1>3, <2>1 DEF Kept
  <2>3. Content(q) = Content(p) /\ Position(q) = Position(p)
    BY <1>2 DEF Content, Position, Written, At
  <2> QED BY <1>2, <2>2, <2>3, SameStream
<1> QED BY <1>3 DEF q

-----------------------------------------------------------------------------
(* A call with a loop: it found f, has got t, and asked for n bytes (0: as *)
(* many as there are); p is the FILE it goes on with.                      *)

Running(f, p, t, n) ==
  /\ f \in StreamType /\ f.app = p.app /\ f.late = (p.app /\ p.dev = "mem")
  /\ Clean(p) => /\ Reads(f, Stream(p), t)
                 /\ f.eof => t = <<>> /\ p.eof
                 /\ p.eof /\ ~f.eof => Len(t) = Len(Ahead(f)) /\ (n > 0 => Len(t) < n)

\* A newline comes only last.
Ends(t) == \A i \in 1..Len(t) : i < Len(t) => t[i] # NL

\* A loop begins.
LEMMA RunBegin ==
  ASSUME NEW p, NEW low, Kept(p, low), NEW n \in Nat
  PROVE  Running(Stream(p), p, <<>>, n)
<1> DEFINE f == Stream(p)
<1>1. f \in StreamType /\ f.app = p.app /\ f.late = (p.app /\ p.dev = "mem") /\ f.eof = p.eof
  BY KeptIs DEF Kept
<1> HIDE DEF f
<1>2. Reads(f, f, <<>>)
  BY <1>1, ReadsNothing
<1> QED BY <1>1, <1>2 DEF Running, f

\* A turn of the loop reads u.
LEMMA RunMore ==
  ASSUME NEW f, NEW p, NEW q, NEW t, NEW u \in Seq(Cell), NEW n \in Nat,
         Running(f, p, t, n), Same(p, q), Flagged(p, q),
         Clean(q) => /\ Reads(Stream(p), Stream(q), u)
                     /\ p.eof => u = <<>> /\ q.eof
                     /\ q.eof /\ ~p.eof => /\ Len(u) = Len(Ahead(Stream(p)))
                                           /\ n > 0 => Len(t) + Len(u) < n
  PROVE  Running(f, q, Join(t, u), n)
<1> DEFINE v == Join(t, u)
           A == Ahead(f)
<1>1. f \in StreamType /\ f.app = q.app /\ f.late = (q.app /\ q.dev = "mem")
  BY DEF Running, Same
<1>2. ASSUME Clean(q)
      PROVE  /\ Reads(f, Stream(q), v)
             /\ f.eof => v = <<>> /\ q.eof
             /\ q.eof /\ ~f.eof => Len(v) = Len(A) /\ (n > 0 => Len(v) < n)
  <2>1. /\ Reads(f, Stream(p), t)
        /\ f.eof => t = <<>> /\ p.eof
        /\ p.eof /\ ~f.eof => Len(t) = Len(A) /\ (n > 0 => Len(t) < n)
    BY <1>2, CleanBefore DEF Running
  <2>2. /\ Reads(Stream(p), Stream(q), u)
        /\ p.eof => u = <<>> /\ q.eof
        /\ q.eof /\ ~p.eof => Len(u) = Len(Ahead(Stream(p))) /\ (n > 0 => Len(t) + Len(u) < n)
    BY <1>2
  <2>3. Reads(f, Stream(q), v) /\ Len(v) = Len(t) + Len(u) /\ Len(t) \in Nat /\ Len(u) \in Nat
    BY <2>1, <2>2, ReadsMore
  <2>4. t \in Seq(Cell) /\ Ahead(Stream(p)) = Drop(A, Len(t))
    BY <2>1, AheadAfter
  <2>5. u = <<>> => v = t
    BY <2>4, JoinAll
  <2>6. CASE p.eof
    BY <2>1, <2>2, <2>3, <2>5, <2>6
  <2>7. CASE ~p.eof
    <3> SUFFICES ASSUME q.eof PROVE Len(v) = Len(A) /\ (n > 0 => Len(v) < n)
      BY <2>1, <2>3, <2>7
    <3> DEFINE l == Len(t)
               k == Len(u)
               a == Len(A)
               d == Len(Drop(A, Len(t)))
    <3>1. k = d /\ (n > 0 => l + k < n)
      BY <2>2, <2>4, <2>7
    <3>2. A \in Seq(Cell) /\ a \in Nat /\ l <= a
      BY <2>1, ReadsIs
    <3>3. d = Most(0, a - l)
      BY <2>3, <3>2, DropIs
    <3> HIDE DEF l, k, a, d
    <3>4. l \in Nat /\ k \in Nat /\ Len(v) = l + k
      BY <2>3 DEF l, k
    <3>5. l + k = a
      BY <3>1, <3>2, <3>3, <3>4, SMT DEF Most
    <3>6. Len(v) = a
      BY <3>4, <3>5
    <3>7. n > 0 => Len(v) < n
      BY <3>1, <3>4
    <3> QED BY <3>6, <3>7 DEF a
  <2> QED BY <2>6, <2>7
<1> QED BY <1>1, <1>2 DEF Running

\* Bytes of the buffer.
LEMMA RunTake ==
  ASSUME NEW f, NEW p, NEW low \in {0, -1}, Kept(p, low), NEW k \in 0..Len(p.unread),
         k + low >= 0 \/ p.act # "read", NEW t, NEW n \in Nat, Running(f, p, t, n),
         NEW q, q = Take(p, k)
  PROVE  Kept(q, 0) /\ Running(f, q, Join(t, Front(p.unread, k)), n)
<1> DEFINE u == Front(p.unread, k)
<1>1. /\ Kept(q, 0) /\ Same(p, q) /\ q.eof = p.eof /\ q.err = p.err /\ q.lost = p.lost
      /\ Reads(Stream(p), Stream(q), u) /\ Len(u) = k
  BY TakeKeeps
<1>2. BufRight(p) /\ (p.eof => p.unread = <<>>)
  BY DEF Kept
<1>3. p.unread \in Seq(Cell)
  BY <1>2, RightIs
<1>4. u \in Seq(Cell)
  BY <1>3, FrontIs
<1>5. p.eof => u = <<>>
  <2> SUFFICES ASSUME p.eof PROVE u = <<>>
    OBVIOUS
  <2>1. Len(p.unread) = 0
    BY <1>2, EmptySeq
  <2>2. k = 0
    <3>1. k \in 0..0
      BY <2>1
    <3> QED BY <3>1, SMT
  <2> QED BY <1>1, <1>4, <2>2, EmptyIs
<1>6. Flagged(p, q)
  BY <1>1 DEF Flagged
<1>7. Clean(q) => /\ Reads(Stream(p), Stream(q), u)
                  /\ p.eof => u = <<>> /\ q.eof
                  /\ q.eof /\ ~p.eof => /\ Len(u) = Len(Ahead(Stream(p)))
                                        /\ n > 0 => Len(t) + Len(u) < n
  BY <1>1, <1>5
<1> HIDE DEF u
<1>8. Running(f, q, Join(t, u), n)
  BY <1>1, <1>4, <1>6, <1>7, RunMore
<1> QED BY <1>1, <1>8 DEF u

\* Bytes of the device.
LEMMA RunRead ==
  ASSUME NEW f, NEW p, NEW m \in Nat, NEW o, GotBytes(p, m, o), NEW t \in Seq(Cell), NEW n \in Nat,
         Running(f, p, t, n), n > 0 => Len(t) + m <= n
  PROVE  Kept(o.p, 0) /\ Running(f, o.p, Join(t, o.s), n)
<1> DEFINE u == o.s
           q == o.p
<1>1. /\ Kept(q, 0) /\ Same(p, q) /\ Flagged(p, q) /\ u \in Seq(Cell) /\ (p.eof => u = <<>>)
      /\ Clean(q) => /\ Reads(Stream(p), Stream(q), u)
                     /\ p.eof => q.eof
                     /\ q.eof /\ ~p.eof => Len(u) = Len(Ahead(Stream(p))) /\ Len(u) < m
  BY DEF GotBytes
<1> HIDE DEF u, q
<1>2. Len(u) < m /\ n > 0 => Len(t) + Len(u) < n
  <2> DEFINE l == Len(t)
             k == Len(u)
  <2>1. l \in Nat /\ k \in Nat /\ (n > 0 => l + m <= n)
    BY <1>1, LenIs
  <2> HIDE DEF l, k
  <2>2. k < m /\ n > 0 => l + k < n
    BY <2>1, SMT
  <2> QED BY <2>2 DEF l, k
<1>3. Clean(q) => /\ Reads(Stream(p), Stream(q), u)
                  /\ p.eof => u = <<>> /\ q.eof
                  /\ q.eof /\ ~p.eof => /\ Len(u) = Len(Ahead(Stream(p)))
                                        /\ n > 0 => Len(t) + Len(u) < n
  BY <1>1, <1>2
<1>4. Running(f, q, Join(t, u), n)
  BY <1>1, <1>3, RunMore
<1> QED BY <1>1, <1>4 DEF u, q

\* The same stream in another FILE.
LEMMA RunSame ==
  ASSUME NEW f, NEW p, NEW q, NEW t, NEW n \in Nat, Running(f, p, t, n), Same(p, q), Flagged(p, q),
         Clean(q) => Stream(q) = Stream(p) /\ q.eof = p.eof
  PROVE  Running(f, q, t, n)
<1>1. f \in StreamType /\ f.app = q.app /\ f.late = (q.app /\ q.dev = "mem")
  BY DEF Running, Same
<1>2. ASSUME Clean(q)
      PROVE  /\ Reads(f, Stream(q), t)
             /\ f.eof => t = <<>> /\ q.eof
             /\ q.eof /\ ~f.eof => Len(t) = Len(Ahead(f)) /\ (n > 0 => Len(t) < n)
  BY <1>2, CleanBefore DEF Running
<1> QED BY <1>1, <1>2 DEF Running

\* fread's end.
LEMMA RunGot ==
  ASSUME NEW f, NEW p, NEW t, NEW n \in Nat, n > 0, Running(f, p, t, n), Clean(p), Len(t) = n \/ p.eof
  PROVE  GetDone(f, Stream(p), t, n)
<1>1. Stream(p).eof = p.eof
  BY StreamIs
<1> QED BY <1>1 DEF Running, GetDone

\* The end of fgets and getdelim.
LEMMA RunLine ==
  ASSUME NEW f, NEW p, NEW t, NEW n \in Nat, Running(f, p, t, n), Clean(p), Ends(t), n > 0 => Len(t) <= n,
         p.eof => ~HasNL(t), ~p.eof => Len(t) >= 1 /\ (t[Len(t)] = NL \/ Len(t) = n)
  PROVE  LineDone(f, Stream(p), t, n)
<1>1. Stream(p).eof = p.eof
  BY StreamIs
<1>2. Reads(f, Stream(p), t)
  BY DEF Running
<1>3. Len(t) \in Nat
  BY <1>2, ReadsIs
<1>4. Len(t) >= 1 => Len(t) \in 1..Len(t)
  <2> DEFINE l == Len(t)
  <2> HIDE DEF l
  <2>1. l \in Nat
    BY <1>3 DEF l
  <2>2. l >= 1 => l \in 1..l
    BY <2>1, SMT
  <2> QED BY <2>2 DEF l
<1>5. p.eof /\ Len(t) >= 1 => t[Len(t)] # NL
  BY <1>4 DEF HasNL
<1> QED BY <1>1, <1>2, <1>5 DEF Running, LineDone, Ends

\* More bytes of a line.
LEMMA LineJoin ==
  ASSUME NEW a \in Seq(Cell), NEW b \in Seq(Cell), ~HasNL(a)
  PROVE  /\ ~HasNL(b) => ~HasNL(Join(a, b))
         /\ Ends(b) => Ends(Join(a, b))
         /\ Len(b) >= 1 => Join(a, b)[Len(Join(a, b))] = b[Len(b)]
<1> DEFINE c == Join(a, b)
           al == Len(a)
           bl == Len(b)
           cl == Len(c)
<1>1. al \in Nat /\ bl \in Nat /\ c \in Seq(Cell) /\ cl = al + bl
  BY JoinIs, LenIs
<1>2. \A i \in 1..al : c[i] = a[i]
  BY JoinFront
<1>3. \A i \in 1..bl : c[al + i] = b[i]
  BY JoinBack
<1>4. \A i \in 1..al : a[i] # NL
  BY DEF HasNL
<1> HIDE DEF c, al, bl, cl
<1>5. ASSUME NEW i \in 1..cl PROVE i \in 1..al \/ (i - al \in 1..bl /\ al + (i - al) = i)
  BY <1>1, SMT
<1>6. ASSUME ~HasNL(b) PROVE ~HasNL(c)
  <2>1. \A i \in 1..bl : b[i] # NL
    BY <1>6 DEF HasNL, bl
  <2>2. ASSUME NEW i \in 1..cl PROVE c[i] # NL
    <3>1. CASE i \in 1..al
      BY <1>2, <1>4, <3>1
    <3>2. CASE i - al \in 1..bl /\ al + (i - al) = i
      <4> DEFINE j == i - al
      <4>1. j \in 1..bl /\ al + j = i
        BY <3>2
      <4> HIDE DEF j
      <4> QED BY <1>3, <2>1, <4>1
    <3> QED BY <1>5, <3>1, <3>2
  <2> QED BY <2>2 DEF HasNL, cl
<1>7. ASSUME Ends(b) PROVE Ends(c)
  <2>1. \A i \in 1..bl : i < bl => b[i] # NL
    BY <1>7 DEF Ends, bl
  <2>2. ASSUME NEW i \in 1..cl, i < cl PROVE c[i] # NL
    <3>1. CASE i \in 1..al
      BY <1>2, <1>4, <3>1
    <3>2. CASE i - al \in 1..bl /\ al + (i - al) = i
      <4> DEFINE j == i - al
      <4>1. j \in 1..bl /\ al + j = i /\ j < bl
        BY <1>1, <2>2, <3>2, SMT
      <4> HIDE DEF j
      <4> QED BY <1>3, <2>1, <4>1
    <3> QED BY <1>5, <3>1, <3>2
  <2> QED BY <2>2 DEF Ends, cl
<1>8. bl >= 1 => c[cl] = b[bl]
  <2>1. bl >= 1 => bl \in 1..bl
    BY <1>1, SMT
  <2> QED BY <1>1, <1>3, <2>1
<1> QED BY <1>6, <1>7, <1>8 DEF c, bl, cl

\* What the buffer has of a line.
LEMMA LineFront ==
  ASSUME NEW u \in Seq(Cell), NEW k \in 0..Len(u), k <= ToNL(u)
  PROVE  /\ Ends(Front(u, k)) /\ (~HasNL(u) => ~HasNL(Front(u, k)))
         /\ k >= 1 => Front(u, k)[k] = u[k]
         /\ k >= 1 /\ HasNL(u) /\ k = ToNL(u) => u[k] = NL
<1> DEFINE c == Front(u, k)
           m == ToNL(u)
           l == Len(u)
<1>1. c \in Seq(Cell) /\ Len(c) = k /\ \A i \in 1..k : c[i] = u[i]
  BY FrontIs
<1>2. /\ m \in 0..l /\ (~HasNL(u) => m = l)
      /\ HasNL(u) => u[m] = NL /\ \A j \in 1..(m - 1) : u[j] # NL
  BY ToNLIs
<1>3. k \in 0..l /\ l \in Nat /\ k <= m
  BY LenIs
<1>4. ~HasNL(u) => \A i \in 1..l : u[i] # NL
  BY DEF HasNL
<1> HIDE DEF c, m, l
<1>5. k \in Nat /\ m \in Nat /\ \A i \in 1..k : i \in 1..l
  BY <1>2, <1>3, SMT
<1>6. ASSUME NEW i \in 1..k, i < k PROVE c[i] # NL
  <2>1. i \in 1..l /\ i \in 1..(m - 1)
    BY <1>3, <1>5, <1>6, SMT
  <2> QED BY <1>1, <1>2, <1>4, <2>1
<1>7. Ends(c)
  BY <1>1, <1>6 DEF Ends
<1>8. ~HasNL(u) => ~HasNL(c)
  BY <1>1, <1>4, <1>5 DEF HasNL
<1>9. k >= 1 => c[k] = u[k]
  <2>1. k >= 1 => k \in 1..k
    BY <1>5, SMT
  <2> QED BY <1>1, <2>1
<1> QED BY <1>2, <1>7, <1>8, <1>9 DEF c, m

\* A byte of a line.
LEMMA LineByte ==
  ASSUME NEW s \in Seq(Cell), Len(s) = 1
  PROVE  Ends(s) /\ (s = <<NL>> <=> s[1] = NL) /\ (s # <<NL>> => ~HasNL(s))
<1>1. \A i \in 1..1 : i = 1 /\ ~(i < 1)
  BY SMT
<1>2. Ends(s)
  BY <1>1 DEF Ends
<1>3. s = <<NL>> <=> s[1] = NL
  <2>1. <<NL>> \in Seq(Cell) /\ Len(<<NL>>) = 1 /\ <<NL>>[1] = NL
    <3>1. NL \in Cell
      BY FileBufferAssumption DEF Cell
    <3> QED BY <3>1, SMT
  <2> DEFINE t == <<NL>>
  <2>2. t \in Seq(Cell) /\ Len(t) = 1 /\ t[1] = NL
    BY <2>1
  <2> HIDE DEF t
  <2>3. ASSUME s[1] = NL PROVE s = t
    <3>1. \A i \in 1..Len(s) : s[i] = t[i]
      BY <1>1, <2>2, <2>3
    <3> QED BY <2>2, <3>1, SameBytes
  <2> QED BY <2>2, <2>3 DEF t
<1>4. s # <<NL>> => ~HasNL(s)
  BY <1>1, <1>3 DEF HasNL
<1> QED BY <1>2, <1>3, <1>4

\* getdelim's byte that has no place: it goes back into the buffer, where rpos
\* may come to stand before its beginning.
LEMMA PutBackKeeps ==
  ASSUME NEW p, Kept(p, 0), p.unread = <<>>, NEW o \in Fill(p, 1), o.s # <<>>
  PROVE  LET b == [o.p EXCEPT !.unread = o.s \o @, !.rpos = @ - 1]
         IN BufRight(b) =>
              /\ Kept(b, -1) /\ b.unread # <<>> /\ Same(p, b) /\ Flagged(p, b)
              /\ Clean(b) => Stream(b) = Stream(p) /\ b.eof = p.eof
<1> DEFINE b == [o.p EXCEPT !.unread = o.s \o @, !.rpos = @ - 1]
<1> SUFFICES ASSUME BufRight(b)
             PROVE  /\ Kept(b, -1) /\ b.unread # <<>> /\ Same(p, b) /\ Flagged(p, b)
                    /\ Clean(b) => Stream(b) = Stream(p) /\ b.eof = p.eof
  OBVIOUS
<1> HIDE DEF b
<1>0. 1 \in Nat /\ 1 >= 1
  BY SMT
<1>1. PICK q \in ToRead(p) : Ready(q) /\ ReadRight(q, 1, o)
  BY <1>0, FillKeeps
<1>2. /\ Kept(q, 0) /\ Same(p, q) /\ Flagged(p, q) /\ q.unread = <<>> /\ q.pushed = 0 /\ q.held = <<>>
      /\ q.eof = p.eof /\ (Clean(q) => Stream(q) = Stream(p))
  BY ToReadKeeps
<1> DEFINE x == o.p
           s == o.s
           xu == x.unread
           off == q.off
           f == q.file
           sl == Len(s)
           ul == Len(xu)
           xo == x.off
           r == x.rpos
           y == Join(s, xu)
           yl == Len(y)
           r1 == r - 1
<1>3. /\ BufRight(x) /\ Same(q, x) /\ Flagged(q, x) /\ x.held = <<>> /\ x.act = "read"
      /\ x.pushed = 0 /\ r >= 0 /\ s \in Seq(Cell)
  BY <1>0, <1>1, ReadLeaves
<1>4. /\ x.file = f /\ x.lost = q.lost /\ Piece(f, off, s) /\ Piece(f, off + sl, xu)
      /\ xo = off + sl + ul /\ (x.eof => sl < 1)
  BY <1>1 DEF ReadRight, SameFile
<1>5. /\ x \in FileType /\ xu \in Seq(Cell) /\ ul \in Nat /\ r \in Int /\ sl \in Nat /\ xo \in Nat
  <2>1. x \in FileType /\ xu \in Seq(Cell) /\ ul \in Nat /\ r \in Int
    BY <1>3, RightIs
  <2>2. sl \in Nat
    BY <1>3, LenIs
  <2> QED BY <2>1, <2>2, Types
<1>6. f \in Seq(Cell) /\ off \in Nat /\ q.eof = FALSE
  BY <1>1, ReadyIs
<1>7. sl # 0
  BY <1>3, EmptyIs
<1>8. y \in Seq(Cell) /\ yl = sl + ul
  <2>1. s \in Seq(Cell) /\ xu \in Seq(Cell)
    BY <1>3, <1>5
  <2> HIDE DEF s, xu
  <2> QED BY <2>1, JoinIs DEF sl, ul
<1>9. Piece(f, off, y)
  <2> HIDE DEF f, off, s, xu
  <2> QED BY <1>4, <1>6, PieceJoin DEF sl
<1>10. b = [x EXCEPT !.unread = y, !.rpos = r1]
  BY <1>5 DEF b, Join, FileType
<1> HIDE DEF y
<1>11. r1 \in Int /\ r1 >= -1 /\ -1 # 0
  <2> HIDE DEF r
  <2> QED BY <1>3, <1>5, SMT
<1> HIDE DEF r1
<1>12. /\ b.unread = y /\ b.rpos = r1 /\ b.pushed = x.pushed /\ b.act = x.act /\ b.rd = x.rd /\ b.wr = x.wr
       /\ b.off = xo /\ b.file = x.file /\ b.held = x.held /\ b.lost = x.lost
       /\ b.app = x.app /\ b.dev = x.dev /\ b.cap = x.cap /\ b.size = x.size /\ b.lbf = x.lbf
       /\ b.eof = x.eof /\ b.err = x.err
  BY <1>5, <1>8, <1>10, <1>11, ZenonT(60) DEF FileType
<1>13. y # <<>> /\ ~x.eof /\ yl <= xo /\ xo - yl = off
  <2>1. yl # 0 /\ ~x.eof /\ yl <= xo /\ xo - yl = off
    <3> DEFINE e == x.eof
    <3>1. e => sl < 1
      BY <1>4
    <3> HIDE DEF e, sl, ul, yl, xo, off
    <3>2. yl # 0 /\ ~(sl < 1) /\ yl <= xo /\ xo - yl = off
      BY <1>4, <1>5, <1>6, <1>7, <1>8, SMT
    <3> QED BY <3>1, <3>2 DEF e
  <2> QED BY <1>8, <2>1, EmptyIs
<1>14. b.pushed = 0 /\ Drop(y, 0) = y /\ Front(y, 0) = <<>> /\ yl - 0 = yl
  <2>1. yl - 0 = yl
    <3> HIDE DEF yl, sl, ul
    <3> QED BY <1>5, <1>8, SMT
  <2> QED BY <1>3, <1>8, <1>12, <2>1, FrontNone
<1>15. ReadAhead(b)
  <2>1. Len(b.unread) - b.pushed = yl
    BY <1>12, <1>14
  <2>2. b.off - yl = off /\ yl <= b.off
    BY <1>12, <1>13
  <2>3. Piece(b.file, off, Drop(b.unread, b.pushed))
    BY <1>4, <1>9, <1>12, <1>14
  <2> QED BY <2>1, <2>2, <2>3 DEF ReadAhead
<1>16. Kept(b, -1)
  <2>1. b.rd
    BY <1>1, <1>3, <1>12 DEF Ready, Same
  <2>2. b.rpos + b.pushed >= -1
    BY <1>11, <1>12, <1>14, SMT
  <2>3. ~b.eof
    BY <1>12, <1>13
  <2> QED BY <1>14, <1>15, <2>1, <2>2, <2>3 DEF Kept
<1>17. Same(p, b) /\ Flagged(p, b)
  BY <1>2, <1>3, <1>12 DEF Same, Flagged
<1>18. ASSUME Clean(b)
       PROVE  Stream(b) = Stream(p) /\ b.eof = p.eof
  <2>1. Clean(q) /\ ~b.err /\ ~b.lost /\ ~q.err /\ ~q.lost
    BY <1>3, <1>12, <1>18 DEF Clean, Flagged
  <2>2. Content(b) = Content(q)
    BY <1>2, <1>3, <1>4, <1>12 DEF Content
  <2>3. Position(b) = off
    BY <1>3, <1>12, <1>13, <1>14 DEF Position
  <2>4. Position(q) = off
    BY <1>2, <1>6, NothingUnread
  <2>5. Front(b.unread, b.pushed) = Front(q.unread, q.pushed)
    <3>1. Front(q.unread, 0) = <<>>
      BY <1>2, Values, FrontNone
    <3> QED BY <1>2, <1>12, <1>14, <3>1
  <2>6. b.eof = q.eof
    <3>1. b.eof = x.eof /\ x.eof \in BOOLEAN
      BY <1>5, <1>12, Types
    <3> QED BY <1>6, <1>13, <3>1
  <2>7. b.app = q.app /\ b.dev = q.dev
    BY <1>3, <1>12 DEF Same
  <2>8. Stream(b) = Stream(q)
    BY <2>1, <2>2, <2>3, <2>4, <2>5, <2>6, <2>7, SameStream
  <2> QED BY <1>2, <2>1, <2>6, <2>8
<1> QED BY <1>12, <1>13, <1>16, <1>17, <1>18

-----------------------------------------------------------------------------
(* The promise, step by step.                                              *)

\* What makes the FILE keep its promise: low is -1 only between two turns of
\* getdelim, the second of which takes the byte that was put back.
CallKept ==
  /\ Idle => Kept(fp, 0)
  /\ ~Idle => Running(call.from, fp, call.got, call.want)
  /\ call.op \in {"fread", "fgets"} => Kept(fp, 0) /\ call.want \in 1..MaxContent
  /\ call.op = "getdelim" =>
       /\ call.want = 0
       /\ \/ Kept(fp, 0)
          \/ Kept(fp, -1) /\ fp.unread # <<>> /\ Len(call.got) < call.cap
  /\ call.op \in {"fgets", "getdelim"} => ~HasNL(call.got)

KeepInv == BufferInv /\ CallKept

\* A step of the FILE that is one of the unbuffered stream, or none.
Promised == [BS!Next]_<<Seen, ret>>

\* With the error flag set nothing more is promised.
LEMMA FaultIs ==
  ASSUME NEW f, NEW g, f = Seen, g = Seen', g.err, g.app = f.app, g.late = f.late
  PROVE  Promised
BY DEF Promised, BS!Next, BS!Fault

\* A call without a loop leaves p.
LEMMA KeptAtOnce ==
  ASSUME KeepInv, Idle, NEW p, Kept(p, 0), fp' = p, UNCHANGED call
  PROVE  /\ CallKept' /\ Seen = Stream(fp) /\ Seen' = Stream(p) /\ Kept(fp, 0)
         /\ Same(fp, p) /\ ~Clean(p) => Promised
<1>1. Kept(fp, 0) /\ call.op = "none" /\ call' = call
  BY DEF KeepInv, CallKept, Idle
<1>2. Seen = Stream(fp)
  BY <1>1 DEF Seen
<1>3. Seen' = Stream(p)
  BY <1>1 DEF Seen
<1>4. CallKept'
  BY <1>1 DEF CallKept, Idle
<1>5. ASSUME Same(fp, p), ~Clean(p) PROVE Promised
  <2> DEFINE f == Stream(fp)
             g == Stream(p)
  <2>1. f.app = fp.app /\ f.late = (fp.app /\ fp.dev = "mem")
    BY StreamIs
  <2>2. g.app = p.app /\ g.late = (p.app /\ p.dev = "mem") /\ g.err = (p.err \/ p.lost)
    BY StreamIs
  <2>3. g.err
    BY <1>5, <2>2 DEF Clean
  <2>4. g.app = f.app /\ g.late = f.late
    BY <1>5, <2>1, <2>2 DEF Same
  <2> HIDE DEF f, g
  <2>5. f = Seen /\ g = Seen'
    BY <1>2, <1>3 DEF f, g
  <2> QED BY <2>3, <2>4, <2>5, FaultIs
<1> QED BY <1>1, <1>2, <1>3, <1>4, <1>5

\* A string that is written is one of the promise's.
LEMMA StringIn ==
  ASSUME NEW s \in Strings(MaxContent) \ {<<>>}
  PROVE  \E n \in 1..MaxContent : s \in [1..n -> Byte]
<1>1. PICK n \in 0..MaxContent : s \in [1..n -> Byte]
  BY DEF Strings
<1>2. MaxContent \in Nat /\ n \in Nat /\ n <= MaxContent
  BY FileBufferAssumption, SMT
<1>3. s \in [1..n -> Cell]
  BY <1>1 DEF Cell
<1>4. s \in Seq(Cell) /\ Len(s) = n
  BY <1>2, <1>3, SMT
<1>5. n # 0
  BY <1>4, EmptyIs
<1>6. n \in 1..MaxContent
  BY <1>2, <1>5, SMT
<1> QED BY <1>1, <1>6

\* What is written is in the content at once.
LEMMA PutStep ==
  ASSUME KeepInv, Idle, NEW s \in Strings(MaxContent) \ {<<>>}, fp.unread = <<>>, Fits(Len(s)),
         NEW o, PutDone(fp, s, o), fp' = o.p, Returns("put", s, o.n), UNCHANGED call
  PROVE  CallKept' /\ Promised
<1> DEFINE p == o.p
           f == Stream(fp)
           g == Stream(p)
           at == IF f.app THEN Len(f.content) ELSE f.pos
<1>1. Kept(p, 0) /\ Same(fp, p) /\ BufRight(fp)
  BY DEF PutDone, KeepInv, BufferInv
<1>2. /\ CallKept' /\ Seen = Stream(fp) /\ Seen' = Stream(p) /\ Kept(fp, 0)
      /\ ~Clean(p) => Promised
  BY <1>1, KeptAtOnce
<1>3. s \in Seq(Cell) /\ s # <<>>
  BY FileBufferAssumption, StringIs
<1>4. MayTake(fp, s)
  BY <1>1, <1>3, FitsIs
<1>5. ASSUME Clean(p) PROVE Promised
  <2>1. /\ f.pushed = <<>> /\ o.n = Len(s)
        /\ g = [f EXCEPT !.content = BS!Overlay(BS!Padded(@, at, Zero), at, s), !.pos = at + Len(s)]
    BY <1>2, <1>3, <1>4, <1>5, PutStream
  <2>2. f = Seen /\ g = Seen'
    BY <1>2
  <2>3. BS!Put(s)
    <3> HIDE DEF f, g
    <3> QED BY <2>1, <2>2 DEF BS!Put, BS!Returns, Returns
  <2>4. PICK n \in 1..MaxContent : s \in [1..n -> Byte]
    BY StringIn
  <2> QED BY <2>3, <2>4 DEF Promised, BS!Next
<1> QED BY <1>2, <1>5

\* fputc
LEMMA FputcKept ==
  ASSUME KeepInv, fputc
  PROVE  CallKept' /\ Promised
<1>1. PICK c \in Byte : \E o \in Putc(fp, c) :
         MayPut(1) /\ fp' = o.p /\ Returns("put", <<c>>, o.n) /\ UNCHANGED call
  BY DEF fputc
<1>2. PICK o \in Putc(fp, c) :
         MayPut(1) /\ fp' = o.p /\ Returns("put", <<c>>, o.n) /\ UNCHANGED call
  BY <1>1
<1> DEFINE s == <<c>>
<1>3. s \in Seq(Cell) /\ Len(s) = 1 /\ c \in Cell
  BY DEF Cell
<1>4. Idle /\ fp.unread = <<>> /\ Fits(Len(s)) /\ BufRight(fp) /\ Kept(fp, 0)
  BY <1>2, <1>3 DEF MayPut, KeepInv, BufferInv, CallKept
<1>5. s \in Strings(MaxContent) \ {<<>>}
  <2>1. 1 \in 0..MaxContent
    BY FileBufferAssumption, SMT
  <2>2. s \in [1..1 -> Byte]
    BY SMT
  <2>3. s # <<>>
    BY <1>3, EmptySeq
  <2> HIDE DEF s
  <2> QED BY <2>1, <2>2, <2>3 DEF Strings
<1> HIDE DEF s
<1>6. MayTake(fp, s)
  BY <1>3, <1>4, FitsIs
<1>7. PutDone(fp, <<c>>, o)
  <2>1. MayTake(fp, <<c>>)
    BY <1>6 DEF s
  <2> QED BY <1>2, <1>3, <1>4, <2>1, PutcKeeps
<1>8. PutDone(fp, s, o) /\ Returns("put", s, o.n)
  BY <1>2, <1>7 DEF s
<1> QED BY <1>2, <1>4, <1>5, <1>8, PutStep

\* fwrite
LEMMA FwriteKept ==
  ASSUME KeepInv, fwrite
  PROVE  CallKept' /\ Promised
<1>1. PICK s \in Strings(MaxContent) \ {<<>>} : \E o \in Fwritex(fp, s) :
         MayPut(Len(s)) /\ fp' = o.p /\ Returns("put", s, o.n) /\ UNCHANGED call
  BY DEF fwrite
<1>2. PICK o \in Fwritex(fp, s) :
         MayPut(Len(s)) /\ fp' = o.p /\ Returns("put", s, o.n) /\ UNCHANGED call
  BY <1>1
<1>3. s \in Seq(Cell) /\ s # <<>>
  BY FileBufferAssumption, StringIs
<1>4. Idle /\ fp.unread = <<>> /\ Fits(Len(s)) /\ BufRight(fp) /\ Kept(fp, 0)
  BY <1>2 DEF MayPut, KeepInv, BufferInv, CallKept
<1>5. MayTake(fp, s)
  BY <1>3, <1>4, FitsIs
<1>6. PutDone(fp, s, o)
  BY <1>2, <1>3, <1>4, <1>5, FwritexKeeps
<1> QED BY <1>2, <1>4, <1>6, PutStep

\* What is read is what an unbuffered stream reads.
LEMMA GetStep ==
  ASSUME NEW f, NEW g, f = Seen, g = Seen', NEW n \in 1..MaxContent, NEW t, GetDone(f, g, t, n),
         ret' = [op |-> "get", arg |-> <<n>>, val |-> t]
  PROVE  Promised
<1>1. n \in Nat /\ n >= 1 /\ n \in 0..MaxContent
  BY FileBufferAssumption, SMT
<1>2. LET k == IF f.eof THEN 0 ELSE BS!Least(n, Len(BS!Ahead(f)))
      IN t = SubSeq(BS!Ahead(f), 1, k) /\ g = [BS!Consumed(f, k) EXCEPT !.eof = @ \/ k < n]
  BY <1>1, GetCount
<1>3. BS!Get(n)
  BY <1>2 DEF BS!Get, BS!Returns
<1> QED BY <1>1, <1>3 DEF Promised, BS!Next

\* So is a line.
LEMMA LineStep ==
  ASSUME NEW f, NEW g, f = Seen, g = Seen', NEW n \in 0..MaxContent, NEW t, LineDone(f, g, t, n),
         ret' = [op |-> "line", arg |-> <<n>>, val |-> t]
  PROVE  Promised
<1>1. n \in Nat
  BY FileBufferAssumption, SMT
<1>2. LET most == BS!LineLength(f)
          want == IF n = 0 THEN most ELSE BS!Least(n, most)
          k == IF f.eof THEN 0 ELSE BS!Least(want, Len(BS!Ahead(f)))
      IN t = SubSeq(BS!Ahead(f), 1, k) /\ g = [BS!Consumed(f, k) EXCEPT !.eof = @ \/ k < want]
  BY <1>1, LineCount
<1>3. BS!Line(n)
  BY <1>2 DEF BS!Line, BS!Returns
<1> QED BY <1>3 DEF Promised, BS!Next

\* fgetc
LEMMA FgetcKept ==
  ASSUME KeepInv, fgetc
  PROVE  CallKept' /\ Promised
<1>1. PICK o \in Getc(fp) : fp' = o.p /\ Returns("get", <<1>>, o.s) /\ UNCHANGED call
  BY DEF fgetc
<1>2. Idle /\ Kept(fp, 0)
  BY DEF fgetc, KeepInv, CallKept
<1>3. GotBytes(fp, 1, o)
  BY <1>1, <1>2, GetcKeeps
<1>4. /\ Kept(o.p, 0) /\ Same(fp, o.p) /\ o.s \in Seq(Cell) /\ Len(o.s) <= 1 /\ (fp.eof => o.s = <<>>)
      /\ Clean(o.p) =>
           /\ Reads(Stream(fp), Stream(o.p), o.s)
           /\ fp.eof => o.p.eof
           /\ o.s = <<>> => o.p.eof
           /\ o.p.eof /\ ~fp.eof => Len(o.s) = Len(Ahead(Stream(fp))) /\ Len(o.s) < 1
  BY <1>3 DEF GotBytes
<1>5. CallKept' /\ Seen = Stream(fp) /\ Seen' = Stream(o.p) /\ (~Clean(o.p) => Promised)
  <2> DEFINE p == o.p
  <2>1. Kept(p, 0) /\ Same(fp, p) /\ fp' = p /\ UNCHANGED call
    BY <1>1, <1>4
  <2> HIDE DEF p
  <2>2. CallKept' /\ Seen = Stream(fp) /\ Seen' = Stream(p) /\ (~Clean(p) => Promised)
    BY <1>2, <2>1, KeptAtOnce
  <2> QED BY <2>2 DEF p
<1>6. ASSUME Clean(o.p) PROVE Promised
  <2> DEFINE f == Stream(fp)
             g == Stream(o.p)
             t == o.s
  <2>1. f.eof = fp.eof /\ g.eof = o.p.eof
    BY StreamIs
  <2>2. t = <<>> \/ Len(t) = 1
    <3> DEFINE l == Len(t)
    <3>1. l \in Nat /\ l <= 1
      BY <1>4, LenIs
    <3> HIDE DEF l
    <3>2. l = 0 \/ l = 1
      BY <3>1, SMT
    <3> QED BY <1>4, <3>2, EmptyIs DEF l
  <2>3. GetDone(f, g, t, 1)
    BY <1>4, <1>6, <2>1, <2>2 DEF GetDone
  <2>4. f = Seen /\ g = Seen' /\ ret' = [op |-> "get", arg |-> <<1>>, val |-> t]
    BY <1>1, <1>5 DEF Returns
  <2>5. 1 \in 1..MaxContent
    BY FileBufferAssumption, SMT
  <2> HIDE DEF f, g, t
  <2> QED BY <2>3, <2>4, <2>5, GetStep
<1> QED BY <1>5, <1>6

\* ungetc
LEMMA UngetcKept ==
  ASSUME KeepInv, ungetc
  PROVE  CallKept' /\ Promised
<1>1. PICK c \in Byte : \E o \in Ungetc(fp, c) : fp' = o.p /\ Returns("unget", <<c>>, o.n) /\ UNCHANGED call
  BY DEF ungetc
<1>2. PICK o \in Ungetc(fp, c) : fp' = o.p /\ Returns("unget", <<c>>, o.n) /\ UNCHANGED call
  BY <1>1
<1>3. Idle /\ Kept(fp, 0) /\ c \in Cell
  BY DEF ungetc, KeepInv, CallKept, Cell
<1> DEFINE p == o.p
           f == Stream(fp)
           g == Stream(p)
<1>4. /\ Kept(p, 0) /\ Same(fp, p)
      /\ Clean(p) => \/ o.n = 1 /\ g = [f EXCEPT !.pushed = <<c>> \o @, !.eof = FALSE]
                     \/ o.n = 0 /\ f.pushed # <<>> /\ g = f
  BY <1>2, <1>3, UngetcKeeps
<1>5. CallKept' /\ Seen = f /\ Seen' = g /\ (~Clean(p) => Promised)
  <2>1. Kept(p, 0) /\ Same(fp, p) /\ fp' = p /\ UNCHANGED call
    BY <1>2, <1>4
  <2> HIDE DEF p
  <2> QED BY <1>3, <2>1, KeptAtOnce
<1>6. ASSUME Clean(p) PROVE Promised
  <2>1. ret' = [op |-> "unget", arg |-> <<c>>, val |-> o.n]
    BY <1>2 DEF Returns
  <2> HIDE DEF f, g
  <2>2. BS!Unget(c) \/ BS!UngetRefused(c)
    BY <1>4, <1>5, <1>6, <2>1 DEF BS!Unget, BS!UngetRefused, BS!Returns
  <2> QED BY <2>2 DEF Promised, BS!Next
<1> QED BY <1>5, <1>6

\* fseek
LEMMA FseekKept ==
  ASSUME KeepInv, fseek
  PROVE  CallKept' /\ Promised
<1>1. PICK w \in Seeks : \E r \in FseekFrom(fp, w[1], w[2]) :
         Reachable(r.p) /\ fp' = r.p /\ Returns("seek", w, r.n) /\ UNCHANGED call
  BY DEF fseek
<1>2. PICK r \in FseekFrom(fp, w[1], w[2]) :
         Reachable(r.p) /\ fp' = r.p /\ Returns("seek", w, r.n) /\ UNCHANGED call
  BY <1>1
<1> DEFINE h == w[1]
           d == w[2]
           p == r.p
           f == Stream(fp)
           g == Stream(p)
<1>3. h \in {"SET", "CUR", "END"} /\ d \in {-1, 0, 1} /\ w = <<h, d>>
  BY DEF Seeks
<1>4. d \in Int /\ d \in (-MaxContent)..MaxContent
  <2> HIDE DEF d
  <2> QED BY <1>3, FileBufferAssumption, SMT
<1>5. Idle /\ Kept(fp, 0)
  BY DEF fseek, KeepInv, CallKept
<1>6. /\ Kept(p, 0) /\ Same(fp, p) /\ r.n \in {-1, 0}
      /\ r.n = -1 /\ Clean(p) => g = f
      /\ r.n = 0 /\ ~p.lost =>
           /\ BaseOf(f, h) + d >= 0 /\ g.pos = BaseOf(f, h) + d /\ g.pushed = <<>> /\ g.eof = FALSE
           /\ g.content = f.content /\ g.err = f.err
  <2>1. r \in FseekFrom(fp, h, d) /\ Reachable(p)
    BY <1>2
  <2> HIDE DEF h, d
  <2>2. Kept(fp, 0) /\ h \in {"SET", "CUR", "END"} /\ d \in Int /\ r \in FseekFrom(fp, h, d) /\ Reachable(r.p)
    BY <1>3, <1>4, <1>5, <2>1
  <2>3. SeekLeaves(fp, h, d, r)
    BY <2>2, FseekKeeps, Zenon
  <2> QED BY <2>3 DEF SeekLeaves
<1>7. CallKept' /\ Seen = f /\ Seen' = g /\ (~Clean(p) => Promised)
  <2>1. Kept(p, 0) /\ Same(fp, p) /\ fp' = p /\ UNCHANGED call
    BY <1>2, <1>6
  <2> HIDE DEF p
  <2> QED BY <1>5, <2>1, KeptAtOnce
<1>8. ASSUME Clean(p) PROVE Promised
  <2>1. ret' = [op |-> "seek", arg |-> <<h, d>>, val |-> r.n]
    BY <1>2, <1>3 DEF Returns
  <2>2. f \in StreamType /\ g \in StreamType /\ g.app = f.app /\ g.late = f.late
    <3>1. f \in StreamType /\ f.app = fp.app /\ f.late = (fp.app /\ fp.dev = "mem")
      BY <1>5, KeptIs DEF Kept
    <3>2. g \in StreamType /\ g.app = p.app /\ g.late = (p.app /\ p.dev = "mem")
      BY <1>6, KeptIs DEF Kept
    <3> QED BY <1>6, <3>1, <3>2 DEF Same
  <2> HIDE DEF f, g, h, d
  <2>3. CASE r.n = -1
    <3>1. BS!SeekRefused(h, d)
      BY <1>6, <1>7, <1>8, <2>1, <2>3 DEF BS!SeekRefused, BS!Returns
    <3> QED BY <1>3, <1>4, <3>1 DEF Promised, BS!Next
  <2>4. CASE r.n = 0
    <3>1. /\ BaseOf(f, h) + d >= 0 /\ g.pos = BaseOf(f, h) + d /\ g.pushed = <<>> /\ g.eof = FALSE
          /\ g.content = f.content /\ g.err = f.err
      BY <1>6, <1>8, <2>4 DEF Clean
    <3>2. g = [f EXCEPT !.pos = BaseOf(f, h) + d, !.pushed = <<>>, !.eof = FALSE]
      <4>1. g = [f EXCEPT !.pos = g.pos, !.pushed = g.pushed, !.eof = g.eof]
        BY <2>2, <3>1, StreamChanged
      <4> QED BY <3>1, <4>1
    <3>3. BS!Base(h) = BaseOf(f, h)
      BY <1>7 DEF BS!Base, BS!Told, BaseOf
    <3>4. BS!Seek(h, d)
      BY <1>7, <2>1, <2>4, <3>1, <3>2, <3>3 DEF BS!Seek, BS!Returns
    <3> QED BY <1>3, <1>4, <3>4 DEF Promised, BS!Next
  <2> QED BY <1>6, <2>3, <2>4
<1> QED BY <1>7, <1>8

\* The error flag alone is cleared.
LEMMA ErrClearedKeeps ==
  ASSUME NEW p, Kept(p, 0)
  PROVE  LET q == [p EXCEPT !.err = FALSE]
         IN BufRight(q) =>
              /\ Kept(q, 0) /\ Same(p, q) /\ q.lost = p.lost /\ q.err = FALSE
              /\ Stream(q).content = Stream(p).content /\ Stream(q).pos = Stream(p).pos
              /\ Stream(q).pushed = Stream(p).pushed /\ Stream(q).eof = Stream(p).eof /\ Stream(q).err = p.lost
<1> DEFINE q == [p EXCEPT !.err = FALSE]
<1>1. BufRight(p) /\ ReadAhead(p) /\ p \in FileType
  BY RightIs DEF Kept
<1>2. /\ q.unread = p.unread /\ q.rpos = p.rpos /\ q.pushed = p.pushed /\ q.act = p.act /\ q.rd = p.rd
      /\ q.off = p.off /\ q.file = p.file /\ q.held = p.held /\ q.lost = p.lost
      /\ q.app = p.app /\ q.dev = p.dev /\ q.wr = p.wr /\ q.cap = p.cap /\ q.size = p.size /\ q.lbf = p.lbf
      /\ q.eof = p.eof /\ q.err = FALSE
  BY <1>1, ZenonT(60) DEF FileType
<1> HIDE DEF q
<1>3. ASSUME BufRight(q)
      PROVE  /\ Kept(q, 0) /\ Same(p, q) /\ q.lost = p.lost /\ q.err = FALSE
             /\ Stream(q).content = Stream(p).content /\ Stream(q).pos = Stream(p).pos
             /\ Stream(q).pushed = Stream(p).pushed /\ Stream(q).eof = Stream(p).eof /\ Stream(q).err = p.lost
  <2>1. ReadAhead(q)
    BY <1>1, <1>2 DEF ReadAhead
  <2>2. Kept(q, 0)
    BY <1>1, <1>2, <1>3, <2>1 DEF Kept
  <2>3. Content(q) = Content(p) /\ Position(q) = Position(p)
    BY <1>2 DEF Content, Position, Written, At
  <2>4. Stream(q).content = Content(q) /\ Stream(q).pos = Position(q) /\ Stream(q).pushed = Front(q.unread, q.pushed)
        /\ Stream(q).eof = q.eof /\ Stream(q).err = (q.err \/ q.lost)
    BY <1>3, <2>1, KeptIs
  <2>5. Stream(p).content = Content(p) /\ Stream(p).pos = Position(p) /\ Stream(p).pushed = Front(p.unread, p.pushed)
        /\ Stream(p).eof = p.eof
    BY <1>1, KeptIs
  <2>6. p.lost \in BOOLEAN
    BY <1>1, Types
  <2> QED BY <1>2, <2>2, <2>3, <2>4, <2>5, <2>6 DEF Same
<1> QED BY <1>3 DEF q

\* rewind
LEMMA RewindKept ==
  ASSUME KeepInv, rewind
  PROVE  CallKept' /\ Promised
<1>1. PICK r \in FseekFrom(fp, "SET", 0) :
         fp' = [r.p EXCEPT !.err = FALSE] /\ Returns("rewind", <<>>, r.n) /\ UNCHANGED call
  BY DEF rewind
<1>2. Idle /\ Kept(fp, 0) /\ BufferInv
  BY DEF rewind, KeepInv, CallKept
<1> DEFINE m == r.p
           p == [m EXCEPT !.err = FALSE]
           h == "SET"
           d == 0
           f == Stream(fp)
           i == Stream(m)
           g == Stream(p)
<1>3. /\ Kept(m, 0) /\ Same(fp, m) /\ r.n \in {-1, 0}
      /\ r.n = 0 /\ ~m.lost =>
           /\ i.pos = BaseOf(f, h) + d /\ i.pushed = <<>> /\ i.eof = FALSE
           /\ i.content = f.content
  <2>1. h \in {"SET", "CUR", "END"} /\ d \in Int /\ (h = "SET" /\ d = 0) /\ r \in FseekFrom(fp, h, d)
    BY <1>1
  <2> HIDE DEF h, d
  <2>2. SeekLeaves(fp, h, d, r)
    BY <1>2, <2>1, FseekKeeps, Zenon
  <2> QED BY <2>2 DEF SeekLeaves
<1>4. BufRight(p)
  <2>1. BufferInv'
    BY <1>2, RewindInv
  <2>2. fp' = p
    BY <1>1
  <2> HIDE DEF p
  <2> QED BY <2>1, <2>2 DEF BufferInv
<1>5. /\ Kept(p, 0) /\ Same(m, p) /\ p.lost = m.lost /\ p.err = FALSE
      /\ g.content = i.content /\ g.pos = i.pos /\ g.pushed = i.pushed /\ g.eof = i.eof /\ g.err = m.lost
  <2> HIDE DEF m
  <2> QED BY <1>3, <1>4, ErrClearedKeeps
<1>6. Same(fp, p)
  BY <1>3, <1>5 DEF Same
<1>7. CallKept' /\ Seen = f /\ Seen' = g /\ (~Clean(p) => Promised)
  <2>1. fp' = p /\ UNCHANGED call
    BY <1>1
  <2> HIDE DEF p
  <2> QED BY <1>2, <1>5, <1>6, <2>1, KeptAtOnce
<1>8. ret' = [op |-> "rewind", arg |-> <<>>, val |-> r.n]
  BY <1>1 DEF Returns
<1>9. f \in StreamType /\ g \in StreamType /\ g.app = f.app /\ g.late = f.late
  <2>1. f \in StreamType /\ f.app = fp.app /\ f.late = (fp.app /\ fp.dev = "mem")
    BY <1>2, KeptIs DEF Kept
  <2>2. g \in StreamType /\ g.app = p.app /\ g.late = (p.app /\ p.dev = "mem")
    BY <1>5, KeptIs DEF Kept
  <2> QED BY <1>6, <2>1, <2>2 DEF Same
<1>10. BaseOf(f, h) + d = 0
  BY SMT DEF BaseOf
<1> HIDE DEF f, g, i, m, p
<1>11. CASE r.n = -1
  <2>1. BS!RewindFails
    BY <1>7, <1>8, <1>9, <1>11 DEF BS!RewindFails, BS!Returns
  <2> QED BY <1>7, <2>1 DEF Promised, BS!Next
<1>12. CASE r.n = 0
  <2> SUFFICES ASSUME Clean(p) PROVE Promised
    BY <1>7
  <2>1. ~m.lost
    BY <1>5 DEF Clean
  <2>2. g.pos = 0 /\ g.pushed = <<>> /\ g.eof = FALSE /\ g.err = FALSE /\ g.content = f.content
    <3>1. m.lost = FALSE
      <4>1. m \in FileType
        BY <1>3, RightIs DEF Kept
      <4> QED BY <2>1, <4>1, Types
    <3> QED BY <1>3, <1>5, <1>10, <1>12, <2>1, <3>1
  <2>3. g = [f EXCEPT !.pos = 0, !.pushed = <<>>, !.eof = FALSE, !.err = FALSE]
    <3>1. g = [f EXCEPT !.pos = g.pos, !.pushed = g.pushed, !.eof = g.eof, !.err = g.err]
      BY <1>9, <2>2, StreamChanged
    <3> QED BY <2>2, <3>1
  <2>4. BS!Rewind
    BY <1>7, <1>8, <1>12, <2>3 DEF BS!Rewind, BS!Returns
  <2> QED BY <2>4 DEF Promised, BS!Next
<1> QED BY <1>3, <1>7, <1>11, <1>12

\* ftell
LEMMA FtellKept ==
  ASSUME KeepInv, ftell
  PROVE  CallKept' /\ Promised
<1> DEFINE t == IF fp.dev = "fd" /\ fp.app /\ fp.held # <<>> THEN Len(fp.file) ELSE fp.off
           N(k) == IF k.n < 0 THEN -1 ELSE IF fp.act = "read" THEN k.n - Len(fp.unread) ELSE k.n + Len(fp.held)
<1>1. PICK k \in SeekOp(fp, t) : fp' = k.p /\ Returns("tell", <<>>, N(k))
  BY DEF ftell
<1>2. Idle /\ Kept(fp, 0) /\ BufferInv /\ UNCHANGED call
  BY DEF ftell, KeepInv, CallKept
<1> DEFINE p == k.p
           f == Stream(fp)
           told == f.pos - Len(f.pushed)
           n == N(k)
<1>3. BufRight(p)
  <2>1. BufferInv'
    BY <1>2, FtellInv
  <2> QED BY <1>1, <2>1 DEF BufferInv
<1>4. /\ Kept(p, 0) /\ Stream(p) = f /\ Same(fp, p)
      /\ n = -1 \/ n \in {told} \cup IF f.late THEN 0..told ELSE {}
  BY <1>2, <1>3, FtellKeeps
<1>5. CallKept' /\ Seen = f /\ Seen' = f
  <2>1. CallKept' /\ Seen = Stream(fp) /\ Seen' = Stream(p)
    <3>1. fp' = p
      BY <1>1
    <3> HIDE DEF p
    <3> QED BY <1>2, <1>4, <3>1, KeptAtOnce
  <2> QED BY <1>4, <2>1
<1>6. ret' = [op |-> "tell", arg |-> <<>>, val |-> n]
  BY <1>1 DEF Returns
<1>7. told = BS!Told(f)
  BY DEF BS!Told
<1> HIDE DEF n, f, told
<1>8. BS!Tell \/ BS!TellRefused
  <2>1. CASE n = -1
    BY <1>5, <1>6, <2>1 DEF BS!TellRefused, BS!Returns
  <2>2. CASE n \in {told} \cup IF f.late THEN 0..told ELSE {}
    BY <1>5, <1>6, <1>7, <2>2 DEF BS!Tell, BS!Returns
  <2> QED BY <1>4, <2>1, <2>2
<1> QED BY <1>5, <1>8 DEF Promised, BS!Next

\* fflush
LEMMA FflushKept ==
  ASSUME KeepInv, fflush
  PROVE  CallKept' /\ Promised
<1>1. PICK o \in FflushUnlocked(fp) : fp' = o.p /\ Returns("flush", <<>>, o.n) /\ UNCHANGED call
  BY DEF fflush
<1>2. Idle /\ Kept(fp, 0) /\ (fp.unread # <<>> => fp.seekable)
  BY DEF fflush, KeepInv, CallKept
<1> DEFINE p == o.p
           f == Stream(fp)
           g == Stream(p)
           told == f.pos - Len(f.pushed)
<1>3. /\ Kept(p, 0) /\ Same(fp, p)
      /\ Clean(p) => /\ o.n = 0 /\ g.content = f.content /\ g.pushed = <<>> /\ g.eof = f.eof /\ g.err = f.err
                     /\ g.pos \in IF told < 0 THEN 0..Len(f.content) ELSE {told}
  BY <1>1, <1>2, FflushKeeps
<1>4. CallKept' /\ Seen = f /\ Seen' = g /\ (~Clean(p) => Promised)
  <2>1. Kept(p, 0) /\ Same(fp, p) /\ fp' = p /\ UNCHANGED call
    BY <1>1, <1>3
  <2> HIDE DEF p
  <2> QED BY <1>2, <2>1, KeptAtOnce
<1>5. ASSUME Clean(p) PROVE Promised
  <2>1. ret' = [op |-> "flush", arg |-> <<>>, val |-> 0]
    BY <1>1, <1>3, <1>5 DEF Returns
  <2>2. f \in StreamType /\ g \in StreamType /\ g.app = f.app /\ g.late = f.late
    <3>1. f \in StreamType /\ f.app = fp.app /\ f.late = (fp.app /\ fp.dev = "mem")
      BY <1>2, KeptIs DEF Kept
    <3>2. g \in StreamType /\ g.app = p.app /\ g.late = (p.app /\ p.dev = "mem")
      BY <1>3, KeptIs DEF Kept
    <3> QED BY <1>3, <3>1, <3>2 DEF Same
  <2>3. told = BS!Told(f)
    BY DEF BS!Told
  <2> HIDE DEF f, g, told
  <2>4. g = [f EXCEPT !.pos = g.pos, !.pushed = <<>>]
    <3>1. g = [f EXCEPT !.pos = g.pos, !.pushed = g.pushed]
      BY <1>3, <1>5, <2>2, StreamChanged
    <3> QED BY <1>3, <1>5, <3>1
  <2>5. BS!Flush
    BY <1>3, <1>4, <1>5, <2>1, <2>3, <2>4 DEF BS!Flush, BS!Returns
  <2> QED BY <2>5 DEF Promised, BS!Next
<1> QED BY <1>4, <1>5

\* clearerr
LEMMA ClearerrKept ==
  ASSUME KeepInv, clearerr
  PROVE  CallKept' /\ Promised
<1> DEFINE p == [fp EXCEPT !.eof = FALSE, !.err = FALSE]
           f == Stream(fp)
           g == Stream(p)
<1>1. fp' = p /\ UNCHANGED call /\ Idle /\ Kept(fp, 0) /\ BufferInv
      /\ ret' = [op |-> "clearerr", arg |-> <<>>, val |-> 0]
  BY DEF clearerr, Returns, KeepInv, CallKept
<1>2. BufRight(p)
  <2>1. BufferInv'
    BY <1>1, ClearerrInv
  <2> HIDE DEF p
  <2> QED BY <1>1, <2>1 DEF BufferInv
<1>3. /\ Kept(p, 0) /\ Same(fp, p)
      /\ g.content = f.content /\ g.pos = f.pos /\ g.pushed = f.pushed /\ g.eof = FALSE /\ g.err = fp.lost
  BY <1>1, <1>2, ClearerrKeeps
<1>4. CallKept' /\ Seen = f /\ Seen' = g /\ (~Clean(p) => Promised)
  <2>1. fp' = p
    BY <1>1
  <2> HIDE DEF p
  <2> QED BY <1>1, <1>3, <2>1, KeptAtOnce
<1>5. f \in StreamType /\ g \in StreamType /\ g.app = f.app /\ g.late = f.late
      /\ g.err = (p.err \/ p.lost)
  <2>1. f \in StreamType /\ f.app = fp.app /\ f.late = (fp.app /\ fp.dev = "mem")
    BY <1>1, KeptIs DEF Kept
  <2>2. g \in StreamType /\ g.app = p.app /\ g.late = (p.app /\ p.dev = "mem") /\ g.err = (p.err \/ p.lost)
    <3> HIDE DEF p
    <3> QED BY <1>3, KeptIs DEF Kept
  <2> QED BY <1>3, <2>1, <2>2 DEF Same
<1> HIDE DEF f, g, p
<1>6. ASSUME Clean(p) PROVE Promised
  <2>1. g.err = FALSE
    BY <1>5, <1>6 DEF Clean
  <2>2. g = [f EXCEPT !.eof = FALSE, !.err = FALSE]
    <3>1. g = [f EXCEPT !.eof = g.eof, !.err = g.err]
      BY <1>3, <1>5, StreamChanged
    <3> QED BY <1>3, <2>1, <3>1
  <2>3. BS!ClearErr
    BY <1>1, <1>4, <2>2 DEF BS!ClearErr, BS!Returns
  <2> QED BY <2>3 DEF Promised, BS!Next
<1> QED BY <1>4, <1>6

\* setvbuf
LEMMA SetvbufKept ==
  ASSUME KeepInv, setvbuf
  PROVE  CallKept' /\ Promised
<1>1. PICK mode \in {"NBF", "LBF", "FBF"} :
         fp' = [fp EXCEPT !.svb = TRUE, !.size = IF mode = "NBF" THEN 0 ELSE @,
                          !.lbf = mode = "LBF" /\ fp.size > 0]
  BY DEF setvbuf
<1>2. Idle /\ ret.op = "open" /\ UNCHANGED <<call, ret>> /\ Kept(fp, 0) /\ BufferInv /\ fp.act = "none"
  BY DEF setvbuf, KeepInv, CallKept, BufferInv, Fresh
<1>3. fp \in FileType /\ fp.size \in Nat
  <2>1. BufRight(fp)
    BY <1>2 DEF BufferInv
  <2> QED BY <2>1, RightIs
<1> DEFINE z == IF mode = "NBF" THEN 0 ELSE fp.size
           b == mode = "LBF" /\ fp.size > 0
           p == [fp EXCEPT !.svb = TRUE, !.size = z, !.lbf = b]
<1>4. fp' = p
  BY <1>1, <1>3 DEF FileType
<1>5. z \in Nat /\ b \in BOOLEAN
  BY <1>3
<1>6. BufRight(p)
  <2>1. BufferInv'
    BY <1>2, SetvbufInv
  <2> HIDE DEF p
  <2> QED BY <1>4, <2>1 DEF BufferInv
<1>7. Kept(p, 0) /\ Stream(p) = Stream(fp)
  <2> HIDE DEF z, b
  <2> QED BY <1>2, <1>5, <1>6, SetvbufKeeps
<1> HIDE DEF p
<1>8. CallKept' /\ Seen = Stream(fp) /\ Seen' = Stream(p)
  BY <1>2, <1>4, <1>7, KeptAtOnce
<1>9. UNCHANGED <<Seen, ret>>
  BY <1>2, <1>7, <1>8
<1> QED BY <1>8, <1>9 DEF Promised

\* A call with a loop begins: the client sees nothing of it.
LEMMA BeginKept ==
  ASSUME KeepInv, NEW o \in {"fread", "fgets", "getdelim"}, NEW n \in Nat, NEW c \in Nat, Begin(o, n, c),
         o = "getdelim" => n = 0, o # "getdelim" => n \in 1..MaxContent
  PROVE  CallKept' /\ Promised
<1>1. /\ fp' = fp /\ ret' = ret /\ call' = [op |-> o, want |-> n, got |-> <<>>, cap |-> c, from |-> Stream(fp)]
      /\ Idle
  BY DEF Begin
<1>2. /\ call'.op = o /\ call'.want = n /\ call'.got = <<>> /\ call'.cap = c
      /\ call'.from = Stream(fp)
  BY <1>1
<1>3. Kept(fp, 0)
  BY <1>1 DEF KeepInv, CallKept
<1> DEFINE f == Stream(fp)
           l == 0
<1>4. Running(f, fp, <<>>, n)
  <2>1. Kept(fp, l)
    BY <1>3
  <2> HIDE DEF l
  <2> QED BY <2>1, RunBegin
<1>5. ~HasNL(<<>>)
  <2>1. Len(<<>>) = 0
    BY EmptySeq
  <2>2. \A i \in 1..0 : FALSE
    BY SMT
  <2> QED BY <2>1, <2>2 DEF HasNL
<1>6. Seen = f /\ Seen' = f
  BY <1>1, <1>2 DEF Seen, Idle
<1> HIDE DEF f
<1>7. CallKept'
  <2>1. call'.from = f
    BY <1>2 DEF f
  <2>2. Kept(fp, 0)' /\ Running(call.from, fp, call.got, call.want)'
    BY <1>1, <1>2, <1>3, <1>4, <2>1
  <2> QED BY <1>2, <1>5, <2>2 DEF CallKept, Idle
<1> QED BY <1>1, <1>6, <1>7 DEF Promised

\* fread, fgets and getdelim begin.
LEMMA BeginsKept ==
  ASSUME KeepInv, fread \/ fgets \/ getdelim
  PROVE  CallKept' /\ Promised
<1>1. MaxContent \in Nat /\ MaxContent > 0 /\ 1 \in Nat /\ 0 \in Nat /\ 2 \in Nat
      /\ 1 \in 1..MaxContent /\ MaxContent \in 1..MaxContent
  BY FileBufferAssumption, SMT
<1>2. CASE fread
  <2>1. PICK n \in {1, MaxContent} : Begin("fread", n, 0)
    BY <1>2 DEF fread
  <2> QED BY <1>1, <2>1, BeginKept
<1>3. CASE fgets
  <2>1. PICK n \in {1, MaxContent} : Begin("fgets", n, 0)
    BY <1>3 DEF fgets
  <2> QED BY <1>1, <2>1, BeginKept
<1>4. CASE getdelim
  <2>1. PICK c \in {0, 2} : Begin("getdelim", 0, c)
    BY <1>4 DEF getdelim
  <2> QED BY <1>1, <2>1, BeginKept
<1> QED BY <1>2, <1>3, <1>4

\* What a call with a loop goes on from.
LEMMA LoopIs ==
  ASSUME KeepInv, call.op # "none"
  PROVE  /\ Running(call.from, fp, call.got, call.want) /\ BufRight(fp) /\ CallRight
         /\ call.from.app = fp.app /\ call.from.late = (fp.app /\ fp.dev = "mem") /\ Seen = call.from
         /\ call.got \in Seq(Cell) /\ Len(call.got) \in Nat /\ call.want \in Nat /\ call.cap \in Nat
         /\ fp.unread \in Seq(Cell) /\ Len(fp.unread) \in Nat
<1>1. Running(call.from, fp, call.got, call.want)
  BY DEF KeepInv, CallKept, Idle
<1>2. BufRight(fp) /\ CallRight
  BY DEF KeepInv, BufferInv
<1>3. call.from.app = fp.app /\ call.from.late = (fp.app /\ fp.dev = "mem")
  BY <1>1 DEF Running
<1>4. Seen = call.from
  BY DEF Seen
<1>5. call.got \in Seq(Cell) /\ call.want \in Nat /\ call.cap \in Nat
  BY <1>2 DEF CallRight
<1>6. fp.unread \in Seq(Cell)
  BY <1>2, RightIs
<1>7. Len(call.got) \in Nat /\ Len(fp.unread) \in Nat
  BY <1>5, <1>6, LenIs
<1> QED BY <1>1, <1>2, <1>3, <1>4, <1>5, <1>6, <1>7

\* The end of a loop.
LEMMA EndKept ==
  ASSUME KeepInv, call.op # "none", NEW p, Kept(p, 0), Same(fp, p), NEW o, NEW v, End(p, o, v)
  PROVE  /\ CallKept' /\ Seen = call.from /\ Seen' = Stream(p)
         /\ ret' = [op |-> o, arg |-> <<call.want>>, val |-> v]
         /\ ~Clean(p) => Promised
<1>1. fp' = p /\ call' = [op |-> "none"] /\ ret' = [op |-> o, arg |-> <<call.want>>, val |-> v]
  BY DEF End, NoCall, Returns
<1>2. call'.op = "none"
  BY <1>1
<1>3. Seen = call.from /\ call.from.app = fp.app /\ call.from.late = (fp.app /\ fp.dev = "mem")
  BY LoopIs
<1>4. Seen' = Stream(p)
  BY <1>1, <1>2 DEF Seen
<1>5. CallKept'
  BY <1>1, <1>2 DEF CallKept, Idle
<1>6. ASSUME ~Clean(p) PROVE Promised
  <2> DEFINE f == call.from
             g == Stream(p)
  <2>1. g.app = p.app /\ g.late = (p.app /\ p.dev = "mem") /\ g.err = (p.err \/ p.lost)
    BY StreamIs
  <2>2. g.err
    BY <1>6, <2>1 DEF Clean
  <2>3. g.app = f.app /\ g.late = f.late
    BY <1>3, <2>1 DEF Same
  <2> HIDE DEF f, g
  <2>4. f = Seen /\ g = Seen'
    BY <1>3, <1>4 DEF f, g
  <2> QED BY <2>2, <2>3, <2>4, FaultIs
<1> QED BY <1>1, <1>3, <1>4, <1>5, <1>6

\* A turn of a loop: the client sees nothing of it yet.
LEMMA TurnKept ==
  ASSUME KeepInv, call.op # "none", NEW p, NEW s, NEW c, Turn(p, s, c), Running(call.from, p, s, call.want),
         \/ Kept(p, 0)
         \/ call.op = "getdelim" /\ Kept(p, -1) /\ p.unread # <<>> /\ Len(s) < c,
         call.op \in {"fgets", "getdelim"} => ~HasNL(s)
  PROVE  CallKept' /\ Promised
<1>1. fp' = p /\ ret' = ret /\ call' = [call EXCEPT !.got = s, !.cap = c]
  BY DEF Turn
<1>2. call = [op |-> call.op, want |-> call.want, got |-> call.got, cap |-> call.cap, from |-> call.from]
  BY LoopIs DEF CallRight
<1>3. call' = [op |-> call.op, want |-> call.want, got |-> s, cap |-> c, from |-> call.from]
  BY <1>1, <1>2
<1>4. /\ call'.op = call.op /\ call'.want = call.want /\ call'.got = s /\ call'.cap = c
      /\ call'.from = call.from
  BY <1>3
<1>5. Seen = call.from /\ Seen' = call.from
  BY <1>4 DEF Seen
<1>6. /\ call.op \in {"fread", "fgets"} => call.want \in 1..MaxContent
      /\ call.op = "getdelim" => call.want = 0
  BY DEF KeepInv, CallKept
<1>7. Running(call.from, fp, call.got, call.want)'
  BY <1>1, <1>4
<1>8. Kept(fp, 0)' \/ (call.op = "getdelim" /\ Kept(fp, -1)' /\ fp'.unread # <<>> /\ Len(call'.got) < call'.cap)
  BY <1>1, <1>4
<1>9. CallKept'
  BY <1>4, <1>6, <1>7, <1>8 DEF CallKept, Idle
<1> QED BY <1>1, <1>5, <1>9 DEF Promised

\* The end of fread's loop.
LEMMA GetEnds ==
  ASSUME KeepInv, call.op = "fread", NEW p, Kept(p, 0), Same(fp, p), NEW t, End(p, "get", t),
         Running(call.from, p, t, call.want), Clean(p) => Len(t) = call.want \/ p.eof
  PROVE  CallKept' /\ Promised
<1>1. /\ CallKept' /\ Seen = call.from /\ Seen' = Stream(p)
      /\ ret' = [op |-> "get", arg |-> <<call.want>>, val |-> t]
      /\ ~Clean(p) => Promised
  BY EndKept
<1>2. call.want \in 1..MaxContent
  BY DEF KeepInv, CallKept
<1> DEFINE f == call.from
           g == Stream(p)
           n == call.want
<1>3. n \in Nat /\ n > 0
  <2> HIDE DEF n
  <2> QED BY <1>2, FileBufferAssumption, SMT DEF n
<1>4. ASSUME Clean(p) PROVE Promised
  <2>1. GetDone(f, g, t, n)
    BY <1>3, <1>4, RunGot
  <2>2. f = Seen /\ g = Seen' /\ ret' = [op |-> "get", arg |-> <<n>>, val |-> t] /\ n \in 1..MaxContent
    BY <1>1, <1>2
  <2> HIDE DEF f, g, n
  <2> QED BY <2>1, <2>2, GetStep
<1> QED BY <1>1, <1>4

\* The end of fgets's or getdelim's loop.
LEMMA LineEnds ==
  ASSUME KeepInv, call.op \in {"fgets", "getdelim"}, NEW p, Kept(p, 0), Same(fp, p), NEW v, End(p, "line", v), NEW t,
         Clean(p) => /\ v = t /\ Running(call.from, p, t, call.want) /\ Ends(t)
                     /\ call.want > 0 => Len(t) <= call.want
                     /\ p.eof => ~HasNL(t)
                     /\ ~p.eof => Len(t) >= 1 /\ (t[Len(t)] = NL \/ Len(t) = call.want)
  PROVE  CallKept' /\ Promised
<1>1. /\ CallKept' /\ Seen = call.from /\ Seen' = Stream(p)
      /\ ret' = [op |-> "line", arg |-> <<call.want>>, val |-> v]
      /\ ~Clean(p) => Promised
  BY EndKept
<1> DEFINE f == call.from
           g == Stream(p)
           n == call.want
<1>2. n \in 0..MaxContent /\ n \in Nat
  <2>1. n \in 1..MaxContent \/ n = 0
    BY DEF KeepInv, CallKept
  <2> HIDE DEF n
  <2> QED BY <2>1, FileBufferAssumption, SMT
<1>3. ASSUME Clean(p) PROVE Promised
  <2>1. LineDone(f, g, t, n)
    BY <1>2, <1>3, RunLine
  <2>2. f = Seen /\ g = Seen' /\ ret' = [op |-> "line", arg |-> <<n>>, val |-> t]
    BY <1>1, <1>3
  <2> HIDE DEF f, g, n
  <2> QED BY <1>2, <2>1, <2>2, LineStep
<1> QED BY <1>1, <1>3

\* A turn of fread's loop.
LEMMA FreadKept ==
  ASSUME KeepInv, FreadTurn
  PROVE  CallKept' /\ Promised
<1> DEFINE f == call.from
           got == call.got
           gl == Len(got)
           w == call.want
           left == w - gl
           u == fp.unread
           ul == Len(u)
           k == Least(ul, left)
<1>1. /\ Running(f, fp, got, w) /\ got \in Seq(Cell) /\ gl \in Nat /\ w \in Nat /\ gl <= w
      /\ u \in Seq(Cell) /\ ul \in Nat /\ call.op = "fread" /\ Kept(fp, 0)
  <2>1. call.op = "fread"
    BY DEF FreadTurn
  <2>2. gl <= w
    BY <2>1, LoopIs DEF CallRight
  <2>3. Kept(fp, 0)
    BY <2>1 DEF KeepInv, CallKept
  <2> QED BY <2>1, <2>2, <2>3, LoopIs
<1>2. \/ left = 0 /\ End(fp, "get", got)
      \/ left # 0 /\ k > 0 /\ Turn(Take(fp, k), got \o SubSeq(u, 1, k), 0)
      \/ left # 0 /\ ~(k > 0) /\ \E o \in Fill(fp, left) :
            IF o.s = <<>> THEN End(o.p, "get", got) ELSE Turn(o.p, got \o o.s, 0)
  BY DEF FreadTurn
<1>3. left \in Nat /\ (left # 0 => left >= 1) /\ (left = 0 => gl = w) /\ gl + left = w
  <2>1. left = w - gl
    OBVIOUS
  <2> HIDE DEF left, w, gl
  <2> QED BY <1>1, <2>1, SMT
<1>4. CASE left = 0 /\ End(fp, "get", got)
  <2>1. Same(fp, fp)
    BY DEF Same
  <2>2. Len(got) = w
    BY <1>3, <1>4
  <2> QED BY <1>1, <1>4, <2>1, <2>2, GetEnds
<1>5. CASE left # 0 /\ k > 0 /\ Turn(Take(fp, k), got \o SubSeq(u, 1, k), 0)
  <2>0. k \in Int /\ k <= ul /\ k <= left
    <3> HIDE DEF ul, left
    <3>1. ul \in Int /\ left \in Int
      BY <1>1, <1>3, SMT
    <3> QED BY <3>1, LeastIs
  <2>1. k \in 0..ul /\ k + 0 >= 0
    <3> HIDE DEF ul, left, k
    <3> QED BY <1>1, <1>5, <2>0, SMT
  <2> DEFINE p == Take(fp, k)
             s == got \o SubSeq(u, 1, k)
             l == 0
  <2>2. s = Join(got, Front(u, k))
    BY DEF Join, Front
  <2>3. Turn(p, s, l)
    BY <1>5
  <2>4. Kept(p, 0) /\ Running(f, p, Join(got, Front(u, k)), w)
    <3>1. l \in {0, -1} /\ Kept(fp, l) /\ k \in 0..Len(fp.unread) /\ k + l >= 0 /\ p = Take(fp, k) /\ w \in Nat
          /\ Running(f, fp, got, w)
      BY <1>1, <2>1
    <3> HIDE DEF k, l, p, f, got, w
    <3> QED BY <3>1, RunTake
  <2> HIDE DEF p, s, l
  <2>5. call.op # "none" /\ call.op \notin {"fgets", "getdelim"} /\ Running(call.from, p, s, call.want)
    BY <1>1, <2>2, <2>4
  <2> QED BY <2>3, <2>4, <2>5, TurnKept
<1>6. CASE left # 0 /\ ~(k > 0) /\ \E o \in Fill(fp, left) :
            IF o.s = <<>> THEN End(o.p, "get", got) ELSE Turn(o.p, got \o o.s, 0)
  <2>0. u = <<>>
    <3>1. ul = 0
      <4>1. k = Least(ul, left)
        OBVIOUS
      <4> HIDE DEF ul, left, k
      <4> QED BY <1>1, <1>3, <1>6, <4>1, SMT DEF Least
    <3> QED BY <1>1, <3>1, EmptyIs
  <2>1. PICK o \in Fill(fp, left) : IF o.s = <<>> THEN End(o.p, "get", got) ELSE Turn(o.p, got \o o.s, 0)
    BY <1>6
  <2>2. GotBytes(fp, left, o)
    <3> HIDE DEF left
    <3> QED BY <1>1, <1>3, <1>6, <2>0, FillKeeps
  <2>3. Kept(o.p, 0) /\ Running(f, o.p, Join(got, o.s), w)
    <3>1. left \in Nat /\ GotBytes(fp, left, o) /\ Running(f, fp, got, w) /\ got \in Seq(Cell) /\ w \in Nat
          /\ Len(got) + left <= w
      <4>1. w <= w
        <5> HIDE DEF w
        <5> QED BY <1>1, SMT
      <4> QED BY <1>1, <1>3, <2>2, <4>1
    <3> HIDE DEF left, f, got, w
    <3> QED BY <3>1, RunRead
  <2>4. Same(fp, o.p) /\ o.s \in Seq(Cell) /\ (Clean(o.p) /\ o.s = <<>> => o.p.eof)
    BY <2>2 DEF GotBytes
  <2>5. CASE o.s = <<>>
    <3>1. Join(got, o.s) = got
      BY <1>1, <2>5 DEF Join
    <3>2. Running(f, o.p, got, w)
      BY <2>3, <3>1
    <3>3. End(o.p, "get", got)
      BY <2>1, <2>5
    <3> DEFINE p == o.p
    <3>4. Kept(p, 0) /\ Same(fp, p) /\ End(p, "get", got) /\ Running(call.from, p, got, call.want)
          /\ (Clean(p) => p.eof)
      BY <2>3, <2>4, <2>5, <3>2, <3>3
    <3> HIDE DEF p, got
    <3> QED BY <1>1, <3>4, GetEnds
  <2>6. CASE o.s # <<>>
    <3> DEFINE s == got \o o.s
               l == 0
               p == o.p
    <3>1. s = Join(got, o.s)
      BY DEF Join
    <3>2. Turn(p, s, l)
      BY <2>1, <2>6
    <3>3. Kept(p, 0) /\ Running(call.from, p, s, call.want)
      BY <2>3, <3>1
    <3>4. call.op # "none" /\ call.op \notin {"fgets", "getdelim"}
      BY <1>1
    <3> HIDE DEF s, l, p
    <3> QED BY <3>2, <3>3, <3>4, TurnKept
  <2> QED BY <2>5, <2>6
<1> QED BY <1>2, <1>4, <1>5, <1>6

\* What fgets and getdelim take from the buffer: no newline but the last byte.
LEMMA LineTaken ==
  ASSUME KeepInv, call.op \in {"fgets", "getdelim"}, NEW low \in {0, -1}, Kept(fp, low),
         NEW k \in 0..Len(fp.unread), k <= ToNL(fp.unread), k + low >= 0 \/ fp.act # "read",
         NEW p, p = Take(fp, k), NEW s, s = Join(call.got, Front(fp.unread, k))
  PROVE  /\ Kept(p, 0) /\ Same(fp, p) /\ Running(call.from, p, s, call.want)
         /\ p.err = fp.err /\ p.lost = fp.lost
         /\ s \in Seq(Cell) /\ Len(s) = Len(call.got) + k /\ Ends(s)
         /\ Len(p.unread) = Len(fp.unread) - k /\ p.unread \in Seq(Cell)
         /\ k = 0 \/ ~HasNL(fp.unread) => ~HasNL(s)
         /\ k >= 1 => ~p.eof
         /\ k >= 1 /\ HasNL(fp.unread) /\ k = ToNL(fp.unread) => s[Len(s)] = NL
<1> DEFINE u == fp.unread
           c == Front(u, k)
           got == call.got
           f == call.from
           w == call.want
<1>1. /\ Running(f, fp, got, w) /\ got \in Seq(Cell) /\ Len(got) \in Nat /\ w \in Nat /\ u \in Seq(Cell)
      /\ Len(u) \in Nat /\ ~HasNL(got)
  <2>1. ~HasNL(got)
    BY DEF KeepInv, CallKept
  <2> QED BY <2>1, LoopIs
<1>2. Kept(p, 0) /\ Running(f, p, s, w)
  <2>1. low \in {0, -1} /\ Kept(fp, low) /\ k \in 0..Len(fp.unread) /\ (k + low >= 0 \/ fp.act # "read")
        /\ p = Take(fp, k) /\ w \in Nat /\ Running(f, fp, got, w)
    BY <1>1
  <2> HIDE DEF f, got, w
  <2>2. Kept(p, 0) /\ Running(f, p, Join(got, Front(fp.unread, k)), w)
    BY <2>1, RunTake
  <2> QED BY <2>2 DEF got
<1>3. Same(fp, p) /\ p.eof = fp.eof /\ p.err = fp.err /\ p.lost = fp.lost /\ Len(p.unread) = Len(u) - k
  <2>1. low \in {0, -1} /\ Kept(fp, low) /\ k \in 0..Len(fp.unread) /\ (k + low >= 0 \/ fp.act # "read")
        /\ p = Take(fp, k)
    OBVIOUS
  <2>2. Same(fp, p) /\ p.eof = fp.eof /\ p.err = fp.err /\ p.lost = fp.lost /\ Len(p.unread) = Len(fp.unread) - k
    BY <2>1, TakeKeeps, ZenonT(90)
  <2> QED BY <2>2
<1>4. p.unread \in Seq(Cell)
  BY <1>2, RightIs DEF Kept
<1>5. c \in Seq(Cell) /\ Len(c) = k
  BY <1>1, FrontIs
<1>6. /\ Ends(c) /\ (~HasNL(u) => ~HasNL(c)) /\ (k >= 1 => c[k] = u[k])
      /\ k >= 1 /\ HasNL(u) /\ k = ToNL(u) => u[k] = NL
  BY <1>1, LineFront
<1>7. k = 0 => ~HasNL(c)
  <2>1. \A i \in 1..0 : FALSE
    BY SMT
  <2> HIDE DEF c
  <2> QED BY <1>5, <2>1 DEF HasNL
<1>8. s = Join(got, c)
  OBVIOUS
<1> HIDE DEF c, got, u
<1>9. s \in Seq(Cell) /\ Len(s) = Len(got) + Len(c)
  BY <1>1, <1>5, <1>8, JoinIs
<1>10. /\ ~HasNL(c) => ~HasNL(s)
       /\ Ends(s) /\ (Len(c) >= 1 => s[Len(s)] = c[Len(c)])
  BY <1>1, <1>5, <1>6, <1>8, LineJoin
<1>11. ASSUME k >= 1 PROVE ~p.eof
  <2>1. fp.eof => u = <<>>
    BY DEF Kept, u
  <2>2. Len(u) # 0
    <3> DEFINE l == Len(u)
    <3>1. k \in 0..l /\ l \in Nat
      BY <1>1 DEF u
    <3> HIDE DEF l
    <3>2. l # 0
      BY <1>11, <3>1, SMT
    <3> QED BY <3>2 DEF l
  <2>3. u # <<>>
    BY <1>1, <2>2, EmptyIs
  <2> QED BY <1>3, <2>1, <2>3
<1> QED BY <1>2, <1>3, <1>4, <1>5, <1>6, <1>7, <1>9, <1>10, <1>11 DEF u, got

\* One byte more by getc.
LEMMA LineMore ==
  ASSUME KeepInv, call.op \in {"fgets", "getdelim"}, NEW p, Kept(p, 0), Same(fp, p), NEW s \in Seq(Cell), ~HasNL(s),
         Running(call.from, p, s, call.want), call.want > 0 => Len(s) + 1 <= call.want, NEW o \in Getc(p),
         NEW t, t = Join(s, o.s)
  PROVE  /\ Kept(o.p, 0) /\ Same(fp, o.p) /\ Running(call.from, o.p, t, call.want)
         /\ t \in Seq(Cell) /\ Len(t) = Len(s) + Len(o.s) /\ Ends(t)
         /\ o.s = <<>> => t = s /\ (Clean(o.p) => o.p.eof)
         /\ o.s # <<>> => /\ Len(o.s) = 1 /\ (Clean(o.p) => ~o.p.eof)
                          /\ o.s = <<NL>> => t[Len(t)] = NL
                          /\ o.s # <<NL>> => ~HasNL(t)
<1> DEFINE d == o.s
           q == o.p
           f == call.from
           w == call.want
           dl == Len(d)
<1>1. GotBytes(p, 1, o)
  BY GetcKeeps
<1>2. /\ Kept(q, 0) /\ Same(p, q) /\ d \in Seq(Cell) /\ dl <= 1 /\ (p.eof => d = <<>>)
      /\ Clean(q) => (d = <<>> => q.eof) /\ (q.eof /\ ~p.eof => dl < 1)
  BY <1>1 DEF GotBytes
<1>3. Running(f, q, t, w)
  <2> DEFINE m == 1
  <2>1. m \in Nat /\ GotBytes(p, m, o) /\ Running(f, p, s, w) /\ s \in Seq(Cell) /\ w \in Nat
        /\ (w > 0 => Len(s) + m <= w)
    BY <1>1, LoopIs
  <2> HIDE DEF m, f, w
  <2>2. Running(f, o.p, Join(s, o.s), w)
    BY <2>1, RunRead
  <2> QED BY <2>2
<1>4. Same(fp, q)
  BY <1>2 DEF Same
<1>5. t = Join(s, d)
  OBVIOUS
<1>6. d = <<>> \/ (d # <<>> /\ dl = 1 /\ ~(dl < 1))
  <2>1. dl \in Nat /\ (dl = 0 => d = <<>>)
    BY <1>2, LenIs, EmptyIs
  <2> HIDE DEF dl
  <2>2. dl = 0 \/ (dl = 1 /\ ~(dl < 1))
    BY <1>2, <2>1, SMT
  <2> QED BY <2>1, <2>2
<1> HIDE DEF d, q, f, w, dl
<1>7. t \in Seq(Cell) /\ Len(t) = Len(s) + Len(d)
  BY <1>2, <1>5, JoinIs
<1>8. CASE d = <<>>
  <2>1. t = s
    BY <1>5, <1>8 DEF Join
  <2>2. Ends(t)
    BY <2>1 DEF Ends, HasNL
  <2> QED BY <1>2, <1>3, <1>4, <1>7, <1>8, <2>1, <2>2 DEF d, q, f, w
<1>9. CASE d # <<>> /\ dl = 1 /\ ~(dl < 1)
  <2>1. Ends(d) /\ (d = <<NL>> <=> d[1] = NL) /\ (d # <<NL>> => ~HasNL(d))
    BY <1>2, <1>9, LineByte DEF dl
  <2>2. /\ ~HasNL(d) => ~HasNL(t)
        /\ Ends(d) => Ends(t)
        /\ Len(d) >= 1 => t[Len(t)] = d[Len(d)]
    BY <1>2, <1>5, LineJoin
  <2>3. t[Len(t)] = d[1]
    <3>1. Len(d) >= 1
      <4>1. 1 >= 1
        BY SMT
      <4> QED BY <1>9, <4>1 DEF dl
    <3> QED BY <1>9, <2>2, <3>1 DEF dl
  <2>4. Clean(q) => ~q.eof
    BY <1>2, <1>9
  <2> QED BY <1>2, <1>3, <1>4, <1>7, <1>9, <2>1, <2>2, <2>3, <2>4 DEF d, q, f, w, dl
<1> QED BY <1>6, <1>8, <1>9

\* A turn of fgets's loop.
LEMMA FgetsKept ==
  ASSUME KeepInv, FgetsTurn
  PROVE  CallKept' /\ Promised
<1> DEFINE f == call.from
           got == call.got
           gl == Len(got)
           w == call.want
           left == w - gl
           u == fp.unread
           ul == Len(u)
           nl == ToNL(u)
           k == Least(nl, left)
           p == Take(fp, k)
           s == got \o SubSeq(u, 1, k)
           l == 0
           Rest(o) == LET t == s \o o.s
                      IN IF o.s = <<>> THEN End(o.p, "line", IF o.p.eof THEN t ELSE <<>>)
                         ELSE IF o.s = <<NL>> \/ Len(t) = w THEN End(o.p, "line", t)
                         ELSE Turn(o.p, t, l)
<1>1. /\ got \in Seq(Cell) /\ gl \in Nat /\ w \in Nat /\ gl < w
      /\ u \in Seq(Cell) /\ ul \in Nat /\ call.op = "fgets" /\ Kept(fp, l)
  <2>1. call.op = "fgets"
    BY DEF FgetsTurn
  <2>2. gl < w
    BY <2>1, LoopIs DEF CallRight
  <2>3. Kept(fp, l)
    BY <2>1 DEF KeepInv, CallKept
  <2> QED BY <2>1, <2>2, <2>3, LoopIs
<1>2. \/ k > 0 /\ (HasNL(u) \/ k = left) /\ End(p, "line", s)
      \/ ~(k > 0 /\ (HasNL(u) \/ k = left)) /\ \E o \in Getc(p) : Rest(o)
  BY DEF FgetsTurn
<1>3. /\ nl \in 0..ul /\ left >= 1 /\ left \in Nat /\ gl + left = w
      /\ k \in 0..ul /\ k \in Nat /\ k <= nl /\ k <= left /\ k + l >= 0 /\ (k # left => k = nl)
      /\ (k > 0 => k >= 1) /\ (~(k > 0) => k = 0 /\ k # left)
  <2>1. nl \in 0..ul
    BY <1>1, ToNLIs
  <2>2. left = w - gl /\ k = Least(nl, left) /\ l = 0
    OBVIOUS
  <2> HIDE DEF left, w, gl, nl, ul, k, l
  <2> QED BY <1>1, <2>1, <2>2, SMT DEF Least
<1>4. s = Join(got, Front(u, k))
  BY DEF Join, Front
<1>5. /\ Kept(p, 0) /\ Same(fp, p) /\ Running(f, p, s, w)
      /\ s \in Seq(Cell) /\ Len(s) = gl + k /\ Ends(s)
      /\ k = 0 \/ ~HasNL(u) => ~HasNL(s)
      /\ k >= 1 => ~p.eof
      /\ k >= 1 /\ HasNL(u) /\ k = nl => s[Len(s)] = NL
  <2>1. /\ call.op \in {"fgets", "getdelim"} /\ l \in {0, -1} /\ Kept(fp, l)
        /\ k \in 0..Len(fp.unread) /\ k <= ToNL(fp.unread) /\ (k + l >= 0 \/ fp.act # "read")
        /\ p = Take(fp, k) /\ s = Join(call.got, Front(fp.unread, k))
    BY <1>1, <1>3, <1>4
  <2> HIDE DEF l, k, p, s
  <2> QED BY <2>1, LineTaken
<1> HIDE DEF f, got, u, nl, p, s, k, l
<1>6. CASE k > 0 /\ (HasNL(u) \/ k = left) /\ End(p, "line", s)
  <2>1. gl + k <= w /\ (k = left => gl + k = w) /\ gl + k >= 1
    <3> HIDE DEF gl, w, left, ul
    <3> QED BY <1>1, <1>3, <1>6, SMT
  <2>2. Len(s) <= w /\ Len(s) >= 1 /\ (s[Len(s)] = NL \/ Len(s) = w)
    <3>1. Len(s) <= w /\ Len(s) >= 1 /\ (k = left => Len(s) = w)
      BY <1>5, <2>1
    <3>2. CASE k = left
      BY <3>1, <3>2
    <3>3. CASE k # left
      BY <1>3, <1>5, <1>6, <3>1, <3>3
    <3> QED BY <3>2, <3>3
  <2>3. ~p.eof
    BY <1>3, <1>5, <1>6
  <2>4. call.op \in {"fgets", "getdelim"} /\ Running(call.from, p, s, call.want)
    BY <1>1, <1>5 DEF f
  <2> QED BY <1>5, <1>6, <2>2, <2>3, <2>4, LineEnds
<1>7. CASE ~(k > 0 /\ (HasNL(u) \/ k = left)) /\ \E o \in Getc(p) : Rest(o)
  <2>1. PICK o \in Getc(p) : Rest(o)
    BY <1>7
  <2> DEFINE t == s \o o.s
             q == o.p
             v == IF q.eof THEN t ELSE <<>>
  <2>2. \/ o.s = <<>> /\ End(q, "line", v)
        \/ o.s # <<>> /\ (o.s = <<NL>> \/ Len(t) = w) /\ End(q, "line", t)
        \/ o.s # <<>> /\ o.s # <<NL>> /\ Turn(q, t, l)
    <3> HIDE DEF w
    <3> QED BY <2>1
  <2>3. ~HasNL(s) /\ gl + k + 1 <= w
    <3>1. k < left /\ (k = 0 \/ ~HasNL(u))
      <4> DEFINE b == HasNL(u)
      <4>1. k \in Nat /\ left \in Nat /\ k <= left /\ left >= 1 /\ ~(k > 0 /\ (b \/ k = left))
        BY <1>3, <1>7
      <4> HIDE DEF b, left
      <4>2. k # left /\ (k = 0 \/ ~b)
        BY <1>3, <4>1
      <4>3. k < left
        BY <4>1, <4>2, SMT
      <4> QED BY <4>2, <4>3 DEF b
    <3>2. gl + k + 1 <= w
      <4> HIDE DEF gl, w, left, ul
      <4> QED BY <1>1, <1>3, <3>1, SMT
    <3> QED BY <1>5, <3>1, <3>2
  <2>4. t = Join(s, o.s)
    BY DEF Join
  <2> HIDE DEF t
  <2>5. /\ Kept(q, 0) /\ Same(fp, q) /\ Running(f, q, t, w)
        /\ t \in Seq(Cell) /\ Len(t) = Len(s) + Len(o.s) /\ Ends(t)
        /\ o.s = <<>> => t = s /\ (Clean(q) => q.eof)
        /\ o.s # <<>> => /\ Len(o.s) = 1 /\ (Clean(q) => ~q.eof)
                         /\ o.s = <<NL>> => t[Len(t)] = NL
                         /\ o.s # <<NL>> => ~HasNL(t)
    <3>1. /\ call.op \in {"fgets", "getdelim"} /\ Running(call.from, p, s, call.want)
          /\ (call.want > 0 => Len(s) + 1 <= call.want)
      BY <1>1, <1>5, <2>3 DEF f
    <3> QED BY <1>5, <2>3, <2>4, <3>1, LineMore DEF f
  <2> HIDE DEF q, v
  <2>6. call.op \in {"fgets", "getdelim"} /\ Running(call.from, q, t, call.want) /\ call.op # "none"
        /\ call.op # "getdelim"
    BY <1>1, <2>5 DEF f
  <2>7. CASE o.s = <<>> /\ End(q, "line", v)
    <3>1. Clean(q) => v = t /\ ~HasNL(t) /\ q.eof
      BY <2>3, <2>5, <2>7 DEF v
    <3>2. Len(t) <= w
      <4>1. gl + k <= w
        <5> HIDE DEF gl, w, left, ul
        <5> QED BY <1>1, <1>3, <2>3, SMT
      <4> QED BY <1>5, <2>5, <2>7, <4>1
    <3> QED BY <2>5, <2>6, <2>7, <3>1, <3>2, LineEnds
  <2>8. CASE o.s # <<>> /\ (o.s = <<NL>> \/ Len(t) = w) /\ End(q, "line", t)
    <3>1. Len(t) <= w /\ Len(t) >= 1
      <4>1. Len(t) = gl + k + 1
        BY <1>5, <2>5, <2>8
      <4>2. gl + k + 1 >= 1
        <5> HIDE DEF gl
        <5> QED BY <1>1, <1>3, SMT
      <4> QED BY <2>3, <4>1, <4>2
    <3>2. t[Len(t)] = NL \/ Len(t) = w
      BY <2>5, <2>8
    <3> QED BY <2>5, <2>6, <2>8, <3>1, <3>2, LineEnds
  <2>9. CASE o.s # <<>> /\ o.s # <<NL>> /\ Turn(q, t, l)
    <3>1. ~HasNL(t)
      BY <2>5, <2>9
    <3> QED BY <2>5, <2>6, <2>9, <3>1, TurnKept
  <2> QED BY <2>2, <2>7, <2>8, <2>9
<1> QED BY <1>2, <1>6, <1>7

\* The storage has a byte more than is in it, for the one that ends the string.
LEMMA SizesAbove ==
  ASSUME NEW i \in Nat, NEW k \in Nat, NEW cap \in Nat, NEW z, NEW c \in Sizes(i, k, cap, z)
  PROVE  i + k < c
<1> DEFINE n == i + k + 2
           h == n \div 2
<1>1. n \in Nat /\ h \in Nat /\ i + k < n
  BY SMT
<1>2. \/ i + k < cap /\ c = cap
      \/ c = n
      \/ c = n + h
  BY DEF Sizes
<1> HIDE DEF n, h
<1> QED BY <1>1, <1>2, SMT

\* A turn of getdelim's loop.
LEMMA GetdelimKept ==
  ASSUME KeepInv, GetdelimTurn
  PROVE  CallKept' /\ Promised
<1> DEFINE f == call.from
           got == call.got
           i == Len(got)
           cap == call.cap
           u == fp.unread
           ul == Len(u)
           k == ToNL(u)
           z == HasNL(u)
           p == Take(fp, k)
           s == got \o SubSeq(u, 1, k)
           short == cap - i
           Rest(c, o) == IF o.s = <<>> THEN End(o.p, "line", IF o.p.eof THEN s ELSE <<>>)
                         ELSE IF Len(s) + 1 >= c
                         THEN Turn([o.p EXCEPT !.unread = o.s \o @, !.rpos = @ - 1], s, c)
                         ELSE IF o.s = <<NL>> THEN End(o.p, "line", s \o o.s)
                         ELSE Turn(o.p, s \o o.s, c)
<1>1. /\ got \in Seq(Cell) /\ i \in Nat /\ cap \in Nat /\ i <= cap
      /\ u \in Seq(Cell) /\ ul \in Nat /\ call.op = "getdelim" /\ call.want = 0
      /\ Kept(fp, 0) \/ (Kept(fp, -1) /\ u # <<>> /\ i < cap)
  <2>1. call.op = "getdelim"
    BY DEF GetdelimTurn
  <2>2. i <= cap
    BY <2>1, LoopIs DEF CallRight
  <2>3. call.want = 0 /\ (Kept(fp, 0) \/ (Kept(fp, -1) /\ u # <<>> /\ i < cap))
    BY <2>1 DEF KeepInv, CallKept
  <2> QED BY <2>1, <2>2, <2>3, LoopIs
<1>2. PICK low \in {0, -1} : Kept(fp, low) /\ (low # 0 => low = -1 /\ u # <<>> /\ i < cap)
  BY <1>1
<1>3. \/ i + k >= cap /\ End([Take(fp, short) EXCEPT !.err = TRUE], "line", <<>>)
      \/ z /\ End(p, "line", s)
      \/ ~z /\ \E c \in Sizes(i, k, cap, z) : \E o \in Getc(p) : Rest(c, o)
  BY DEF GetdelimTurn
<1>4. /\ k \in 0..ul /\ k \in Nat /\ k <= k /\ (~z => k = ul) /\ (u # <<>> => k >= 1) /\ (z => k >= 1)
      /\ k + low >= 0
  <2>1. k \in 0..ul /\ (~z => k = ul) /\ (z => k >= 1)
    BY <1>1, ToNLIs
  <2>2. u # <<>> => ul # 0
    BY <1>1, EmptyIs
  <2> DEFINE b == u # <<>>
  <2>3. /\ k \in 0..ul /\ (~z => k = ul) /\ (z => k >= 1) /\ (b => ul # 0) /\ (low = 0 \/ (low = -1 /\ b))
        /\ z \in BOOLEAN /\ b \in BOOLEAN /\ ul \in Nat
    <3>1. low = 0 \/ (low = -1 /\ b)
      BY <1>2
    <3>2. z \in BOOLEAN /\ b \in BOOLEAN
      BY DEF HasNL
    <3> HIDE DEF k, ul, z
    <3> QED BY <1>1, <2>1, <2>2, <3>1, <3>2, Zenon
  <2> HIDE DEF k, ul, z, b
  <2>4. k \in Nat /\ k <= k
    BY <2>3, SMT
  <2>5. b => k >= 1
    <3>1. CASE z
      BY <2>3, <3>1
    <3>2. CASE ~z
      BY <2>3, <3>2, SMT
    <3> QED BY <3>1, <3>2
  <2>6. k + low >= 0
    <3>1. CASE low = 0
      BY <2>4, <3>1, SMT
    <3>2. CASE low = -1 /\ b
      <4>1. k >= 1
        BY <2>5, <3>2
      <4> QED BY <2>4, <3>2, <4>1, SMT
    <3> QED BY <2>3, <3>1, <3>2
  <2> QED BY <2>3, <2>4, <2>5, <2>6 DEF b
<1>5. s = Join(got, Front(u, k))
  BY DEF Join, Front
<1>6. /\ Kept(p, 0) /\ Same(fp, p) /\ Running(f, p, s, 0)
      /\ s \in Seq(Cell) /\ Len(s) = i + k /\ Ends(s)
      /\ Len(p.unread) = ul - k /\ p.unread \in Seq(Cell)
      /\ k = 0 \/ ~z => ~HasNL(s)
      /\ k >= 1 => ~p.eof
      /\ k >= 1 /\ z => s[Len(s)] = NL
  <2>1. /\ call.op \in {"fgets", "getdelim"} /\ low \in {0, -1} /\ Kept(fp, low)
        /\ k \in 0..Len(fp.unread) /\ k <= ToNL(fp.unread) /\ (k + low >= 0 \/ fp.act # "read")
        /\ p = Take(fp, k) /\ s = Join(call.got, Front(fp.unread, k)) /\ k = ToNL(fp.unread)
    BY <1>1, <1>2, <1>4, <1>5
  <2> HIDE DEF k, p, s
  <2>2. /\ Kept(p, 0) /\ Same(fp, p) /\ Running(call.from, p, s, call.want)
        /\ s \in Seq(Cell) /\ Len(s) = Len(call.got) + k /\ Ends(s)
        /\ Len(p.unread) = Len(fp.unread) - k /\ p.unread \in Seq(Cell)
        /\ k = 0 \/ ~HasNL(fp.unread) => ~HasNL(s)
        /\ k >= 1 => ~p.eof
        /\ k >= 1 /\ HasNL(fp.unread) /\ k = ToNL(fp.unread) => s[Len(s)] = NL
    BY <2>1, LineTaken
  <2> QED BY <1>1, <2>1, <2>2
<1> HIDE DEF p, s
<1>7. CASE i + k >= cap /\ End([Take(fp, short) EXCEPT !.err = TRUE], "line", <<>>)
  <2>1. short \in 0..ul /\ short <= k /\ short + low >= 0
    <3> DEFINE b == i < cap
    <3>1. /\ short = cap - i /\ i + k >= cap /\ low \in {0, -1} /\ (low # 0 => low = -1 /\ i < cap)
          /\ i \in Nat /\ cap \in Nat /\ i <= cap /\ k \in 0..ul /\ ul \in Nat
      BY <1>1, <1>2, <1>4, <1>7
    <3> HIDE DEF short, cap, i, k, ul
    <3>2. short \in 0..ul /\ short <= k
      BY <3>1, SMT
    <3>3. CASE low = 0
      BY <3>1, <3>2, <3>3, SMT
    <3>4. CASE low = -1 /\ i < cap
      <4>1. short >= 1
        BY <3>1, <3>4, SMT
      <4> QED BY <3>1, <3>2, <3>4, <4>1, SMT
    <3> QED BY <3>1, <3>3, <3>4
  <2> DEFINE q == Take(fp, short)
             x == Join(got, Front(u, short))
  <2>2. Kept(q, 0) /\ Same(fp, q)
    <3>1. /\ call.op \in {"fgets", "getdelim"} /\ low \in {0, -1} /\ Kept(fp, low)
          /\ short \in 0..Len(fp.unread) /\ short <= ToNL(fp.unread) /\ (short + low >= 0 \/ fp.act # "read")
          /\ q = Take(fp, short) /\ x = Join(call.got, Front(fp.unread, short))
      BY <1>1, <1>2, <2>1
    <3> HIDE DEF short, q, x
    <3> QED BY <3>1, LineTaken
  <2> HIDE DEF q
  <2> DEFINE v == [q EXCEPT !.err = TRUE]
             e == <<>>
             o == [p |-> v, n |-> 0]
  <2>3. o \in Refused(q)
    BY DEF Refused
  <2>4. o.p = v
    OBVIOUS
  <2>5. v.err
    <3>1. q \in FileType
      BY <2>2, RightIs DEF Kept
    <3> QED BY <3>1 DEF FileType
  <2>6. End(v, "line", e)
    BY <1>7 DEF q
  <2> HIDE DEF o, v, e
  <2>7. PutDone(q, e, o)
    BY <2>2, <2>3, RefusedKeeps
  <2>8. Kept(v, 0) /\ Same(q, v)
    BY <2>4, <2>7 DEF PutDone
  <2>9. Same(fp, v) /\ ~Clean(v) /\ call.op # "none"
    BY <1>1, <2>2, <2>5, <2>8 DEF Same, Clean
  <2> QED BY <2>6, <2>8, <2>9, EndKept
<1>8. CASE z /\ End(p, "line", s)
  <2>1. k >= 1 /\ ~p.eof /\ s[Len(s)] = NL
    BY <1>4, <1>6, <1>8
  <2>2. Len(s) >= 1
    <3>1. i + k >= 1
      <4> HIDE DEF i, k
      <4> QED BY <1>1, <1>4, <2>1, SMT
    <3> QED BY <1>6, <3>1
  <2>3. call.op \in {"fgets", "getdelim"} /\ Running(call.from, p, s, call.want) /\ ~(call.want > 0)
    <3>1. ~(0 > 0)
      BY SMT
    <3> QED BY <1>1, <1>6, <3>1
  <2> QED BY <1>6, <1>8, <2>1, <2>2, <2>3, LineEnds
<1>9. CASE ~z /\ \E c \in Sizes(i, k, cap, z) : \E o \in Getc(p) : Rest(c, o)
  <2>1. PICK c \in Sizes(i, k, cap, z), o \in Getc(p) : Rest(c, o)
    BY <1>9
  <2> DEFINE q == o.p
             t == s \o o.s
             v == IF q.eof THEN s ELSE <<>>
             b == [o.p EXCEPT !.unread = o.s \o @, !.rpos = @ - 1]
  <2>2. \/ o.s = <<>> /\ End(q, "line", v)
        \/ o.s # <<>> /\ Turn(b, s, c)
        \/ o.s # <<>> /\ o.s = <<NL>> /\ End(q, "line", t)
        \/ o.s # <<>> /\ o.s # <<NL>> /\ Turn(q, t, c)
    BY <2>1
  <2>3. ~HasNL(s) /\ p.unread = <<>>
    <3>1. ul - k = 0
      <4>1. k = ul
        BY <1>4, <1>9
      <4> HIDE DEF ul, k
      <4> QED BY <1>1, <4>1, SMT
    <3> QED BY <1>6, <1>9, <3>1, EmptyIs
  <2>4. Len(s) < c
    <3>1. i + k < c
      <4> HIDE DEF i, k, cap, z
      <4> QED BY <1>1, <1>4, SizesAbove
    <3> QED BY <1>6, <3>1
  <2>5. t = Join(s, o.s)
    BY DEF Join
  <2>6. call.op \in {"fgets", "getdelim"} /\ Running(call.from, p, s, call.want) /\ ~(call.want > 0)
        /\ call.op # "none"
    <3>1. ~(0 > 0)
      BY SMT
    <3> QED BY <1>1, <1>6, <3>1
  <2> HIDE DEF t
  <2>7. /\ Kept(q, 0) /\ Same(fp, q) /\ Running(f, q, t, call.want)
        /\ t \in Seq(Cell) /\ Len(t) = Len(s) + Len(o.s) /\ Ends(t)
        /\ o.s = <<>> => t = s /\ (Clean(q) => q.eof)
        /\ o.s # <<>> => /\ Len(o.s) = 1 /\ (Clean(q) => ~q.eof)
                         /\ o.s = <<NL>> => t[Len(t)] = NL
                         /\ o.s # <<NL>> => ~HasNL(t)
    BY <1>6, <2>3, <2>5, <2>6, LineMore
  <2> HIDE DEF q, v, b
  <2>8. CASE o.s = <<>> /\ End(q, "line", v)
    <3>1. Clean(q) => v = t /\ ~HasNL(t) /\ q.eof
      BY <2>3, <2>7, <2>8 DEF v
    <3> QED BY <2>6, <2>7, <2>8, <3>1, LineEnds
  <2>9. CASE o.s # <<>> /\ Turn(b, s, c)
    <3>1. BufRight(b)
      <4>1. BufferInv'
        BY GetdelimInv DEF KeepInv
      <4>2. fp' = b
        BY <2>9 DEF Turn
      <4> QED BY <4>1, <4>2 DEF BufferInv
    <3>2. o \in Fill(p, 1)
      BY <2>3 DEF Getc
    <3>3. /\ Kept(b, -1) /\ b.unread # <<>> /\ Same(p, b) /\ Flagged(p, b)
          /\ Clean(b) => Stream(b) = Stream(p) /\ b.eof = p.eof
      <4>1. /\ Kept(p, 0) /\ p.unread = <<>> /\ o \in Fill(p, 1) /\ o.s # <<>>
        BY <1>6, <2>3, <2>9, <3>2
      <4> QED BY <3>1, <4>1, PutBackKeeps DEF b
    <3>4. Running(f, b, s, call.want)
      <4>1. call.want \in Nat /\ Running(f, p, s, call.want)
        BY <2>6, LoopIs
      <4> DEFINE w == call.want
      <4> HIDE DEF w, f
      <4>2. w \in Nat /\ Running(f, p, s, w)
        BY <4>1 DEF w
      <4> QED BY <3>3, <4>2, RunSame DEF w
    <3>5. call.op = "getdelim"
      BY <1>1
    <3> QED BY <2>3, <2>4, <2>6, <2>9, <3>3, <3>4, <3>5, TurnKept
  <2>10. CASE o.s # <<>> /\ o.s = <<NL>> /\ End(q, "line", t)
    <3>1. Len(t) >= 1 /\ t[Len(t)] = NL /\ (Clean(q) => ~q.eof)
      <4>1. Len(t) = i + k + 1
        BY <1>6, <2>7, <2>10
      <4>2. i + k + 1 >= 1
        <5> HIDE DEF i, k
        <5> QED BY <1>1, <1>4, SMT
      <4> QED BY <2>7, <2>10, <4>1, <4>2
    <3> QED BY <2>6, <2>7, <2>10, <3>1, LineEnds
  <2>11. CASE o.s # <<>> /\ o.s # <<NL>> /\ Turn(q, t, c)
    <3>1. ~HasNL(t)
      BY <2>7, <2>11
    <3> QED BY <2>6, <2>7, <2>11, <3>1, TurnKept
  <2> QED BY <2>2, <2>8, <2>9, <2>10, <2>11
<1> QED BY <1>3, <1>7, <1>8, <1>9

\* A stream that was just opened is what an unbuffered one starts from.
LEMMA PromiseInit ==
  ASSUME Init
  PROVE  KeepInv /\ BS!Init
<1>0. PICK o \in Opens : fp \in {Opened(o, x) : x \in Contents(o)}
  BY DEF Init
<1>1. PICK s \in Contents(o) : fp = Opened(o, s)
  BY <1>0
<1>2. BufferInv /\ BufRight(fp) /\ call.op = "none"
  BY BufferInvInit DEF BufferInv, Init, NoCall
<1>3. /\ fp.act = "none" /\ fp.unread = <<>> /\ fp.held = <<>> /\ fp.pushed = 0 /\ fp.file = s
      /\ fp.eof = FALSE /\ fp.err = FALSE /\ fp.lost = FALSE
      /\ fp.off = IF o.dev = "mem" /\ o.app THEN Len(s) ELSE 0
  BY <1>1 DEF Opened
<1>4. ReadAhead(fp)
  BY <1>3, NothingUnread
<1>5. Kept(fp, 0)
  BY <1>2, <1>3, <1>4 DEF Kept
<1>6. KeepInv
  BY <1>2, <1>5 DEF KeepInv, CallKept, Idle
<1>7. PICK n \in 0..MaxContent : s \in [1..n -> Byte]
  <2> DEFINE m == MaxContent
  <2>1. s \in Strings(m - 1)
    BY DEF Contents
  <2>2. PICK n \in 0..(m - 1) : s \in [1..n -> Byte]
    BY <2>1 DEF Strings
  <2>3. n \in 0..m
    <3>1. m \in Nat
      BY FileBufferAssumption
    <3> HIDE DEF m
    <3> QED BY <3>1, SMT
  <2> QED BY <2>2, <2>3
<1>8. fp.off \in 0..MaxContent
  <2>1. n \in Nat /\ n \in 0..MaxContent /\ 0 \in 0..MaxContent
    BY FileBufferAssumption, SMT
  <2>2. Len(s) = n
    <3>1. s \in [1..n -> Cell]
      BY <1>7 DEF Cell
    <3> QED BY <2>1, <3>1, SMT
  <2> QED BY <1>3, <2>1, <2>2
<1> DEFINE f == Stream(fp)
           C == UNION {[1..j -> Byte] : j \in 0..MaxContent}
<1>9. /\ f.content = s /\ f.pos = fp.off /\ f.pushed = <<>> /\ f.eof = FALSE /\ f.err = FALSE
      /\ f.app \in BOOLEAN /\ f.late \in BOOLEAN
  <2>1. /\ f \in StreamType /\ f.content = Content(fp) /\ f.pos = Position(fp) /\ f.pushed = Front(fp.unread, fp.pushed)
        /\ Len(Front(fp.unread, fp.pushed)) = fp.pushed /\ f.eof = fp.eof /\ f.err = (fp.err \/ fp.lost)
    BY <1>2, <1>4, KeptIs
  <2>2. f.pushed \in Seq(Cell) /\ f.app \in BOOLEAN /\ f.late \in BOOLEAN
    BY <2>1, StreamTypes
  <2>3. f.pushed = <<>>
    BY <1>3, <2>1, <2>2, EmptyIs
  <2>4. f.content = s
    BY <1>3, <2>1 DEF Content
  <2>5. f.pos = fp.off
    <3> DEFINE a == fp.off
    <3>1. f.pos = a - (Len(<<>>) - 0)
      BY <1>3, <2>1 DEF Position
    <3>2. Len(<<>>) = 0
      BY EmptySeq
    <3>3. a \in Int
      <4> HIDE DEF a
      <4>1. a \in 0..MaxContent
        BY <1>8 DEF a
      <4> QED BY <4>1, FileBufferAssumption, SMT
    <3> HIDE DEF a
    <3>4. a - (0 - 0) = a
      BY <3>3, SMT
    <3> QED BY <3>1, <3>2, <3>4 DEF a
  <2> QED BY <1>3, <2>1, <2>2, <2>3, <2>4, <2>5
<1>10. f = [content |-> s, pos |-> fp.off, pushed |-> <<>>, eof |-> FALSE, err |-> FALSE,
            app |-> f.app, late |-> f.late]
  <2> DEFINE g == [content |-> s, pos |-> fp.off, pushed |-> <<>>, eof |-> FALSE, err |-> FALSE,
                   app |-> f.app, late |-> f.late]
  <2>1. f = [content |-> f.content, pos |-> f.pos, pushed |-> f.pushed, eof |-> f.eof, err |-> f.err,
             app |-> f.app, late |-> f.late]
    BY StreamIs
  <2> HIDE DEF f
  <2> QED BY <1>9, <2>1
<1>11. s \in C
  BY <1>7
<1>12. f \in [content : C, pos : 0..MaxContent, pushed : {<<>>}, eof : {FALSE}, err : {FALSE},
              app : BOOLEAN, late : BOOLEAN]
  <2>1. fp.off \in 0..MaxContent /\ f.app \in BOOLEAN /\ f.late \in BOOLEAN /\ s \in C
    BY <1>8, <1>9, <1>11
  <2> DEFINE a == f.app
             l == f.late
             d == fp.off
  <2>2. f = [content |-> s, pos |-> d, pushed |-> <<>>, eof |-> FALSE, err |-> FALSE, app |-> a, late |-> l]
    BY <1>10
  <2>3. d \in 0..MaxContent /\ a \in BOOLEAN /\ l \in BOOLEAN
    BY <2>1
  <2> HIDE DEF f, a, l, d, C
  <2> QED BY <1>11, <2>2, <2>3, Zenon
<1>13. Seen = f /\ ret = [op |-> "open", arg |-> <<>>, val |-> 0]
  BY <1>2 DEF Seen, Init
<1>14. BS!Init
  BY <1>12, <1>13 DEF BS!Init
<1> QED BY <1>6, <1>14

\* A step of the FILE keeps the promise, and what it rests on.
LEMMA PromiseNext ==
  ASSUME KeepInv, [Next]_vars
  PROVE  KeepInv' /\ Promised
<1>1. BufferInv'
  BY BufferInvNext DEF KeepInv
<1>2. CallKept' /\ Promised
  <2>1. CASE fputc \/ fwrite \/ fgetc
    BY <2>1, FputcKept, FwriteKept, FgetcKept
  <2>2. CASE fread \/ fgets \/ getdelim
    BY <2>2, BeginsKept
  <2>3. CASE FreadTurn \/ FgetsTurn \/ GetdelimTurn
    BY <2>3, FreadKept, FgetsKept, GetdelimKept
  <2>4. CASE ungetc \/ fseek \/ rewind \/ ftell
    BY <2>4, UngetcKept, FseekKept, RewindKept, FtellKept
  <2>5. CASE fflush \/ setvbuf \/ clearerr
    BY <2>5, FflushKept, SetvbufKept, ClearerrKept
  <2>6. CASE UNCHANGED vars
    <3>1. fp' = fp /\ call' = call /\ ret' = ret
      BY <2>6 DEF vars
    <3>2. Seen' = Seen
      BY <3>1 DEF Seen
    <3>3. CallKept'
      BY <3>1 DEF KeepInv, CallKept, Idle
    <3> QED BY <3>1, <3>2, <3>3 DEF Promised
  <2> QED BY <2>1, <2>2, <2>3, <2>4, <2>5, <2>6 DEF Next
<1> QED BY <1>1, <1>2 DEF KeepInv

\* For all ways a stream may be opened, whatever the device does: a FILE is an
\* unbuffered stream of bytes, and a call that is not its step has set the error
\* flag, or memory was short.
THEOREM KeepsItsPromise == Spec => KeepsPromise
<1>1. Init => KeepInv /\ BS!Init
  BY PromiseInit
<1>2. KeepInv /\ [Next]_vars => KeepInv' /\ [BS!Next]_<<Seen, ret>>
  BY PromiseNext DEF Promised
<1> QED BY <1>1, <1>2, PTL DEF Spec, KeepsPromise, BS!Spec

==============================================================================
