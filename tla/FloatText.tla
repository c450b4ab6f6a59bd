----------------------------- MODULE FloatText -----------------------------
(***************************************************************************)
(* Floating-point numbers to text and back (csrc/stdio.c: fmt_fp, decfloat *)
(* and hexfloat, with fp_frexp, fp_scalbn and fp_fmod).  The algorithms    *)
(* are the code's; the sizes are parameters, so that every branch is taken *)
(* on a small format.  A limb holds DIGS decimal digits; it is shifted     *)
(* left by at most UP bits and right by at most DIGS.  A number is         *)
(* m * 2^q.  Rounding is to nearest.  The sign, which mirrors the rest, is *)
(* kept where decfloat does not mirror; that of the text is left out.      *)
(***************************************************************************)
EXTENDS Integers, Sequences, SequencesExt, FiniteSetsExt, Bitwise

CONSTANTS
  DIGS, UP,       \* 9 and 29: digits of a limb; 2^UP < 10^DIGS
  BITS,           \* 30, of a limb: 10^DIGS <= 2^BITS
  MANT,           \* C2GO_DBL_MANT_DIG, FS_MANT_DIG
  MAXEXP,         \* C2GO_DBL_MAX_EXP
  KMAX,           \* FS_KMAX
  GUARD,          \* 17: decimal digits that may matter beyond those asked for
  XDIGS           \* 8: hexadecimal digits hexfloat collects in an integer

LIMB == 10 ^ DIGS
Smaller(a, b) == IF a < b THEN a ELSE b
Larger(a, b) == IF a > b THEN a ELSE b
Begin(s, n) == SubSeq(s, 1, n)
Zeros(n) == [k \in 1 .. n |-> 0]
Folded(base, s) == FoldLeft(LAMBDA n, d : base * n + d, 0, s)

RECURSIVE Length(_)
Length(m) == IF m = 0 THEN 0 ELSE 1 + Length(m \div 2)

\* n / d, rounded to the nearest integer, ties to even.
RneOf(down, twice, d) == IF twice > d \/ (twice = d /\ down % 2 = 1) THEN down + 1 ELSE down
Rne(n, d) == RneOf(n \div d, 2 * (n % d), d)

\* The number n (of any unit) when it is stored in a double.
FpCut(n, u) == Rne(n, u) * u
Fp(n) == IF n < 2 ^ MANT THEN n ELSE FpCut(n, 2 ^ (Length(n) - MANT))

Width(n) == IF n < 10 THEN 1 ELSE IF n < 100 THEN 2 ELSE 3
Figures(n, w) == [k \in 1 .. w |-> (n \div 10 ^ (w - k)) % 10]

-----------------------------------------------------------------------------
(* fp_frexp, fp_scalbn and fp_fmod work on the bits of a double: i is its  *)
(* exponent field and its fraction, BIAS the exponent of 1.                *)

BIAS == MAXEXP - 1
FRAC == MANT - 1
InfBits == 2 * MAXEXP * 2 ^ FRAC - 2 ^ FRAC
Field(i) == i \div 2 ^ FRAC
Fract(i) == i % 2 ^ FRAC

\* In units of the smallest subnormal number.
Units(i) == IF Field(i) = 0 THEN i ELSE (2 ^ FRAC + Fract(i)) * 2 ^ (Field(i) - 1)

\* The bits of n units times 2^k, rounded.
Packing(n, k, g) ==
  Smaller(InfBits, g * 2 ^ FRAC + IF g - k > 30 THEN 0 ELSE IF g > k THEN Rne(n, 2 ^ (g - k))
                                  ELSE n * 2 ^ (k - g))
Packed(n, k) == IF n = 0 THEN 0 ELSE Packing(n, k, Larger(0, Length(n) + k - MANT))
Times(i, k) == IF i = InfBits THEN i ELSE Packed(Units(i), k)

\* NORM (64) is a power that makes a subnormal number normal.
NORM == MANT + 1
Frexp(i) ==
  CASE Field(i) = 0 /\ i # 0 ->
         [y |-> BIAS * 2 ^ FRAC - 2 ^ FRAC + Fract(Times(i, NORM)),
          e |-> Field(Times(i, NORM)) - (BIAS - 1) - NORM]
    [] i = 0 -> [y |-> 0, e |-> 0]
    [] OTHER -> [y |-> BIAS * 2 ^ FRAC - 2 ^ FRAC + Fract(i), e |-> Field(i) - (BIAS - 1)]

\* The exponent of the last factor has to be one of a normal number, and what
\* is made smaller must not be rounded twice.
Down == MANT - (BIAS - 1)
ScalbnUp(i, n) ==
  IF n <= BIAS THEN Times(i, n)
  ELSE IF n <= 2 * BIAS THEN Times(Times(i, BIAS), n - BIAS)
  ELSE Times(Times(Times(i, BIAS), BIAS), Smaller(BIAS, n - 2 * BIAS))
ScalbnDown(i, n) ==
  IF n - Down >= 1 - BIAS THEN Times(Times(i, Down), n - Down)
  ELSE Times(Times(Times(i, Down), Down), Larger(1 - BIAS, n - 2 * Down))
Scalbn(i, n) == IF n < 1 - BIAS THEN ScalbnDown(i, n) ELSE ScalbnUp(i, n)

\* Shifted until the leading bit is where the hidden one of a normal number is.
NormalBy(i, k) == [e |-> 1 - k, m |-> i * 2 ^ k]
Normalized(i) ==
  IF Field(i) = 0 THEN NormalBy(i, MANT - Length(i))
  ELSE [e |-> Field(i), m |-> 2 ^ FRAC + Fract(i)]

RECURSIVE LongDivision(_, _)
Subtracted(x, m) == IF x.m >= m THEN x.m - m ELSE x.m
Repacked(x) ==
  IF x.m = 0 THEN 0
  ELSE IF x.e - (MANT - Length(x.m)) > 0
  THEN x.m * 2 ^ (MANT - Length(x.m)) - 2 ^ FRAC + (x.e - (MANT - Length(x.m))) * 2 ^ FRAC
  ELSE (x.m * 2 ^ (MANT - Length(x.m))) \div 2 ^ (1 - (x.e - (MANT - Length(x.m))))
LongDivision(x, y) ==
  IF x.e > y.e
  THEN LongDivision([e |-> x.e - 1, m |-> 2 * Subtracted(x, y.m)], y)
  ELSE Repacked([x EXCEPT !.m = Subtracted(x, y.m)])
Fmod(i, j) ==
  IF i < j THEN i ELSE IF i = j THEN 0 ELSE LongDivision(Normalized(i), Normalized(j))

-----------------------------------------------------------------------------
(* fmt_fp.  big[] is x, of which a .. z - 1 are in use and r is the limb   *)
(* before the radix point; what was never written is v.junk, any value.    *)

MantSlots == 1 + (MANT - UP + DIGS - 2) \div (DIGS - 1) + 1
Slots == MantSlots + (MAXEXP + MANT + UP - 1 + DIGS - 1) \div DIGS
Limbs == -1 .. Slots

\* The limbs of n / 2^k.
RECURSIVE Spread(_, _)
Spread(n, k) ==
  <<n \div 2 ^ k>> \o IF n % 2 ^ k = 0 THEN <<>> ELSE Spread(LIMB * (n % 2 ^ k), k)

Placed(v, s, a, e2) ==
  [a |-> a, r |-> a, z |-> a + Len(s), e2 |-> e2,
   x |-> [d \in Limbs |-> IF d \in a .. a + Len(s) - 1 THEN s[d - a + 1] ELSE v.junk]]
Scaled(v) ==
  IF v.m = 0 THEN Placed(v, <<0>>, Slots - MantSlots - 1, 0)
  ELSE Placed(v, Spread(v.m, MANT - UP),
              IF v.q + MANT < UP THEN 0 ELSE Slots - MantSlots - 1, v.q + MANT - UP)

Trimmed(b) ==
  IF b.z <= b.a THEN b
  ELSE [b EXCEPT !.z = Min({z \in b.a .. b.z : \A d \in z .. b.z - 1 : b.x[d] = 0})]

\* One limb after the other, from the last.
RECURSIVE LeftFrom(_, _, _, _)
LeftLimb(b, d, sh, t) == LeftFrom([b EXCEPT !.x[d] = t % LIMB], d - 1, sh, t \div LIMB)
LeftFrom(b, d, sh, carry) ==
  IF d >= b.a THEN LeftLimb(b, d, sh, b.x[d] * 2 ^ sh + carry)
  ELSE IF carry = 0 THEN b ELSE [b EXCEPT !.a = d, !.x[d] = carry]
ShiftLeft(b, sh) == [Trimmed(LeftFrom(b, b.z - 1, sh, 0)) EXCEPT !.e2 = @ - sh]

\* Faulty variant, for mutation: as many limbs as the digits that are asked for.
Need_Short(p) == 1 + (p + DIGS - 1) \div DIGS

\* Limbs that no longer matter are cut off: they must leave no trace.
Need(p) == 1 + (p + GUARD + DIGS - 1) \div DIGS

Cut(b, first, need) == IF b.z - first > need THEN [b EXCEPT !.z = first + need] ELSE b

RECURSIVE RightFrom(_, _, _, _)
RightLimb(b, d, sh, n, carry) ==
  RightFrom([b EXCEPT !.x[d] = n \div 2 ^ sh + carry], d + 1, sh,
            (LIMB \div 2 ^ sh) * (n % 2 ^ sh))
RightFrom(b, d, sh, carry) ==
  IF d < b.z THEN RightLimb(b, d, sh, b.x[d], carry)
  ELSE IF carry = 0 THEN b ELSE [b EXCEPT !.z = d + 1, !.x[d] = carry]
Ahead(b) == IF b.x[b.a] = 0 THEN [b EXCEPT !.a = @ + 1] ELSE b
Righted(b, t, p) == Cut(b, IF t = "f" THEN b.r ELSE b.a, Need(p))
ShiftRight(b, t, p, sh) ==
  [Righted(Ahead(RightFrom(b, b.a, sh, 0)), t, p) EXCEPT !.e2 = @ + sh]

RECURSIVE Shifted(_, _, _)
Shifted(b, t, p) ==
  CASE b.e2 > 0 -> Shifted(ShiftLeft(b, Smaller(UP, b.e2)), t, p)
    [] b.e2 < 0 -> Shifted(ShiftRight(b, t, p, Smaller(DIGS, -b.e2)), t, p)
    [] OTHER -> b

Exp10(b) == IF b.a < b.z THEN DIGS * (b.r - b.a) + Width(b.x[b.a]) - 1 ELSE 0

\* while (*d > 999999999) ...
RECURSIVE Carried(_, _)
Grown(b, d) == IF d < b.a THEN [b EXCEPT !.a = d, !.x[d] = 1] ELSE [b EXCEPT !.x[d] = @ + 1]
Carried(b, d) == IF b.x[d] < LIMB THEN b ELSE Carried(Grown([b EXCEPT !.x[d] = 0], d - 1), d - 1)

\* j digits after the radix point are kept: limb d is cut to a multiple of i.
Odd(b, d, i) == \/ (b.x[d] \div i) % 2 = 1
                \/ i = LIMB /\ d > b.a /\ b.x[d - 1] % 2 = 1
Up(b, d, i, rest) ==
  IF rest = i \div 2 /\ d + 1 = b.z THEN Odd(b, d, i) ELSE rest >= i \div 2
RoundedAt(b, d, i, rest) ==
  CASE rest = 0 /\ d + 1 = b.z -> b
    [] Up(b, d, i, rest) -> Carried([b EXCEPT !.x[d] = @ - rest + i], d)
    [] OTHER -> [b EXCEPT !.x[d] = @ - rest]
RoundedFrom(b, d, i) == [RoundedAt(b, d, i, b.x[d] % i) EXCEPT !.z = Smaller(@, d + 1)]
Rounded(b, j) ==
  IF j < DIGS * (b.z - b.r - 1)
  THEN RoundedFrom(b, b.r + 1 + j \div DIGS, 10 ^ (DIGS - (j % DIGS))) ELSE b

\* %g without #: the digits after the point that are not trailing zeros.
NotZeros(b) ==
  DIGS * (b.z - b.r - 1)
    - IF b.z > b.a /\ b.x[b.z - 1] # 0
      THEN Max({k \in 0 .. DIGS : b.x[b.z - 1] % 10 ^ k = 0}) ELSE DIGS
Significant(b, style, e) == Larger(0, NotZeros(b) + IF style = "f" THEN 0 ELSE e)

\* p figures of the limbs that begin with d, and zeros.
Figured(b, d, p) ==
  Begin(FlattenSeq([k \in 1 .. Larger(0, b.z - d) |-> Figures(b.x[d + k - 1], DIGS)])
          \o Zeros(Larger(0, p)), Larger(0, p))
IntegerPart(b, a) ==
  Figures(b.x[a], Width(b.x[a]))
    \o FlattenSeq([k \in 1 .. b.r - a |-> Figures(b.x[a + k], DIGS)])

\* The text: its figures before and after the point, its exponent if there is
\* one, and the length the field is padded by.
Lead(b) == Figures(b.x[b.a], Width(b.x[b.a]))
Mantissa(b, lead, p, exp, len) ==
  [int |-> <<lead[1]>>, exp |-> exp, len |-> len, x |-> b.x,
   frac |-> Begin(Tail(lead) \o Figured([b EXCEPT !.z = Larger(@, b.a + 1)], b.a + 1, p),
                  Larger(0, p))]
Layout(b, style, p, e, len) ==
  IF style = "f"
  THEN [int |-> IntegerPart(b, Smaller(b.a, b.r)), frac |-> Figured(b, b.r + 1, p),
        exp |-> <<>>, len |-> len + Larger(e, 0), x |-> b.x]
  ELSE Mantissa(b, Lead(b), p, <<e>>, len + 2 + Larger(2, Width(Larger(e, -e))))
Laid(b, style, p, e, alt) == Layout(b, style, p, e, 1 + p + IF p > 0 \/ alt THEN 1 ELSE 0)

StyleOf(p, e) == IF p > e /\ e >= -4 THEN "f" ELSE "e"
Shortest(b, style, most, e, alt) ==
  Laid(b, style, IF alt THEN most ELSE Smaller(most, Significant(b, style, e)), e, alt)
General(b, p, e, alt) ==
  Shortest(b, StyleOf(p, e), IF StyleOf(p, e) = "f" THEN p - (e + 1) ELSE p - 1, e, alt)
Styled(b, t, p, e, alt) ==
  IF t = "g" THEN General(b, Larger(p, 1), e, alt) ELSE Laid(b, t, p, e, alt)
Trimming(b, t, p, alt) == Styled(Trimmed(b), t, p, Exp10(b), alt)
Rounding(b, t, p, alt) ==
  Trimming(Rounded(b, p - (IF t = "f" THEN 0 ELSE Exp10(b)) - IF t = "g" /\ p > 0 THEN 1 ELSE 0),
           t, p, alt)
FmtDecimal(v, t, p, alt) == Rounding(Shifted(Scaled(v), t, p), t, p, alt)
Fmt_fp(v, t, prec, alt) == FmtDecimal(v, t, IF prec < 0 THEN 6 ELSE prec, alt)

\* %a: the significand in hexadecimal and the binary exponent.
RECURSIVE HexFigures(_)
HexFigures(y) ==
  <<y \div 2 ^ (MANT - 1)>>
    \o IF y % 2 ^ (MANT - 1) = 0 THEN <<>> ELSE HexFigures(16 * (y % 2 ^ (MANT - 1)))
HexText(s, e2, p, point, fill) ==
  [int |-> <<s[1]>>, frac |-> Tail(s) \o Zeros(fill), exp |-> <<e2>>,
   len |-> Len(s) + point + fill + 2 + Width(Larger(e2, -e2))]
HexFill(s, e2, p, point) ==
  HexText(s, e2, p, point,
          IF p # 0 /\ Len(s) + point - 2 < p THEN p + 2 - (Len(s) + point) ELSE 0)
HexPoint(s, e2, p, alt) == HexFill(s, e2, p, IF Len(s) > 1 \/ p > 0 \/ alt THEN 1 ELSE 0)
Fmt_a(v, p, alt) ==
  HexPoint(HexFigures(IF p >= 0 /\ p < (MANT + 2) \div 4
                      THEN FpCut(v.m, 2 ^ (MANT - 1 - 4 * p)) ELSE v.m),
           IF v.m = 0 THEN 0 ELSE v.q + MANT - 1, p, alt)

-----------------------------------------------------------------------------
(* decfloat.  Of the ring x[] the model keeps the limbs in use, s, and the *)
(* place a of the first; rp digits are before the radix point.             *)

Place(w) == (w.a + Len(w.s)) % KMAX
NoTrailing(s, least) ==
  Begin(s, Min({n \in least .. Len(s) : \A k \in n + 1 .. Len(s) : s[k] = 0}))
MadeOdd(n) == IF n % 2 = 0 THEN n + 1 ELSE n

\* What is beyond the buffer leaves a mark in its last limb.
Room == (KMAX - 3) * DIGS
Packs(ds, k) == [i \in 1 .. k |-> Folded(10, SubSeq(ds, DIGS * (i - 1) + 1, DIGS * i))]
Marks(s, beyond) == IF beyond THEN [s EXCEPT ![Len(s)] = MadeOdd(@)] ELSE s
Kept(ds, k) == Marks(Packs(ds \o Zeros(DIGS), k), \E j \in Room + 1 .. Len(ds) : ds[j] # 0)
Collected(ds) == Kept(ds, (Smaller(Len(ds), Room) + DIGS - 1) \div DIGS)

\* Leading limbs that have become zero are left behind.
Dropped(w, n) ==
  [w EXCEPT !.a = (@ + n) % KMAX, !.s = SubSeq(@, n + 1, Len(@)), !.rp = @ - DIGS * n]
Advanced(w) ==
  Dropped(w, Max({k \in 0 .. Len(w.s) : \A i \in 1 .. k : w.s[i] = 0}))

\* Every limb is divided by n, and what is left goes to the next one.
Divided(s, n) ==
  [k \in DOMAIN s |-> s[k] \div n + IF k = 1 THEN 0 ELSE (LIMB \div n) * (s[k - 1] % n)]
Remainder(s, n) == (LIMB \div n) * (s[Len(s)] % n)

Appended(w, rest) == IF rest = 0 THEN w ELSE [w EXCEPT !.s = Append(@, rest)]
AlignedBy(w, m, n) ==
  Appended(Advanced([w EXCEPT !.s = Divided(@, n), !.rp = @ + DIGS - m]), Remainder(w.s, n))
Aligned(w) ==
  IF w.rp % DIGS = 0 THEN w ELSE AlignedBy(w, w.rp % DIGS, 10 ^ (DIGS - (w.rp % DIGS)))

\* The threshold: the limbs of the largest number of MANT bits.
Th == <<(2 ^ MANT - 1) \div LIMB, (2 ^ MANT - 1) % LIMB>>

\* From the last limb on; a limb may become LIMB itself.  A ring that is full
\* ors its last limb into the one before.
Pushed(s, carry) ==
  <<carry>> \o IF Len(s) < KMAX - 1 THEN s
               ELSE [Begin(s, Len(s) - 1) EXCEPT ![Len(s) - 1] = @ | s[Len(s)]]
RECURSIVE UpFrom(_, _, _)
UpCarry(t) == IF t > LIMB THEN t \div LIMB ELSE 0
UpLimb(w, k, t) ==
  UpFrom([w EXCEPT !.s[k] = IF t > LIMB THEN t % LIMB ELSE t], k - 1, UpCarry(t))
UpFrom(w, k, carry) ==
  IF k > 0 THEN UpLimb(w, k, w.s[k] * 2 ^ UP + carry)
  ELSE IF carry = 0 THEN [w EXCEPT !.s = NoTrailing(@, 1)]
  ELSE [w EXCEPT !.rp = @ + DIGS, !.a = (@ - 1) % KMAX, !.s = Pushed(NoTrailing(@, 1), carry)]

RECURSIVE Balanced(_)
Balanced(w) ==
  IF w.rp < 2 * DIGS \/ (w.rp = 2 * DIGS /\ w.s[1] < Th[1])
  THEN Balanced([UpFrom(w, Len(w.s), 0) EXCEPT !.e2 = @ - UP]) ELSE w

FitsTh(w) ==
  w.rp = 2 * DIGS /\ \/ w.s = <<>> \/ w.s[1] < Th[1]
                     \/ w.s[1] = Th[1] /\ (Len(w.s) = 1 \/ w.s[2] <= Th[2])
Ring(w, rest) ==
  IF Len(w.s) < KMAX - 1 THEN Appended(w, rest)
  ELSE [w EXCEPT !.s[Len(w.s)] = IF rest = 0 THEN @ ELSE MadeOdd(@)]
Downscaled(w, sh) ==
  Ring(Advanced([w EXCEPT !.e2 = @ + sh, !.s = Divided(@, 2 ^ sh)]), Remainder(w.s, 2 ^ sh))

RECURSIVE Fitted(_)
Fitted(w) == IF FitsTh(w) THEN w ELSE Fitted(Downscaled(w, IF w.rp > 3 * DIGS THEN DIGS ELSE 1))

\* What the limbs after the first two make of the last bit, in quarters.
TailOf(s) ==
  CASE Len(s) < 3 -> 0
    [] Len(s) >= 3 /\ 2 * s[3] < LIMB -> IF s[3] # 0 \/ Len(s) > 3 THEN 1 ELSE 0
    [] OTHER -> IF 2 * s[3] > LIMB \/ Len(s) > 3 THEN 3 ELSE 2

\* Faulty variant, for mutation: small numbers keep their precision.
Precision_Full(bits, room) == bits

\* A number below the normal ones has fewer bits.
Precision(bits, room) == Smaller(bits, Larger(room, 0))

\* A tail that the fraction swallowed counts again, upwards whatever the sign.
Swallowed(s, bits, tail) == Len(s) > 2 /\ MANT - bits >= 2 /\ tail % 4 = 0
FracOf(w, bits, tail) ==
  tail + IF ~Swallowed(w.s, bits, tail) THEN 0 ELSE IF w.neg THEN -4 ELSE 4

\* Rounded to bits bits by a bias that pushes the others out.  Quarters are the
\* unit of y, frac and sum.
Bias(bits) == IF bits < MANT THEN 4 * 2 ^ (2 * MANT - bits - 1) ELSE 0
Low(y, bits) == IF bits < MANT THEN y % (4 * 2 ^ (MANT - bits)) ELSE 0
Ended(w, sum, e2, denormal, frac, emax) ==
  [m |-> sum, q |-> e2, z |-> Place(w), n |-> Len(w.s), swallowed |-> FALSE,
   erange |-> (e2 + MANT > emax - 5 \/ e2 + MANT < 0)
                /\ (e2 + MANT > emax \/ (denormal /\ frac # 0))]
Halved(w, sum, denormal, bits, frac, emin, emax) ==
  IF (w.e2 + MANT > emax - 5 \/ w.e2 + MANT < 0) /\ sum >= 4 * 2 ^ MANT
  THEN Ended(w, sum \div 8, w.e2 + 1, denormal /\ bits # MANT + w.e2 - emin, frac, emax)
  ELSE Ended(w, sum \div 4, w.e2, denormal, frac, emax)
SumOf(y, bits, frac) == Fp(Fp(y - Low(y, bits) + Bias(bits)) + frac) - Bias(bits)
Assembled(w, y, bits0, bits, frac, emin) ==
  Halved(w, SumOf(y, bits, frac), bits0 > MANT + w.e2 - emin, bits, frac, emin,
         3 - emin - bits0)
WithFrac(w, y, bits0, bits, emin, tail) ==
  [Assembled(w, y, bits0, bits, FracOf(w, bits, tail), emin)
     EXCEPT !.swallowed = Swallowed(w.s, bits, tail)]
WithBits(w, y, bits0, bits, emin) ==
  WithFrac(w, y, bits0, bits, emin, Fp(Low(y, bits) + TailOf(w.s)))
TwoLimbs(s) == 4 * Folded(LIMB, Begin(s \o Zeros(2), 2))
Rounds(w, bits, emin) ==
  WithBits(w, TwoLimbs(w.s), bits, Precision(bits, MANT + w.e2 - emin), emin)

Exactly(n) == [m |-> n, q |-> 0, z |-> 0, n |-> 2, swallowed |-> FALSE, erange |-> FALSE]
Beyond == [Exactly(0) EXCEPT !.q = 1]
Tiny == [Exactly(0) EXCEPT !.q = -1]

\* ds are the digits from the first that is not zero, lrp of them before the
\* point once the exponent is taken into account.
LastNonzero(ds) == Max({k \in DOMAIN ds : ds[k] # 0})
FitsBits(n, bits) == bits > BITS \/ n < 2 ^ bits
DecimalOf(ds, x, lrp, bits, emin, neg) ==
  CASE lrp = Len(ds) /\ Len(ds) <= DIGS /\ FitsBits(Folded(10, ds), bits) ->
         Exactly(Folded(10, ds))
    [] lrp > (-emin) \div 2 -> Beyond
    [] lrp < emin - 2 * MANT -> Tiny
    [] LastNonzero(ds) < DIGS /\ LastNonzero(ds) <= lrp /\ lrp <= DIGS ->
         Exactly(x[1] \div 10 ^ (DIGS - lrp))
    [] LastNonzero(ds) < DIGS /\ LastNonzero(ds) <= lrp /\ lrp \in DIGS + 1 .. 2 * DIGS - 1
         /\ FitsBits(x[1], bits - 3 * (lrp - DIGS)) -> Exactly(x[1] * 10 ^ (lrp - DIGS))
    [] OTHER ->
         Rounds(Fitted(Balanced(Aligned([a |-> 0, s |-> NoTrailing(x, 1), rp |-> lrp,
                                         e2 |-> 0, neg |-> neg]))), bits, emin)
Decfloat(ds, lrp, bits, emin, neg) ==
  IF ds = <<>> THEN Exactly(0) ELSE DecimalOf(ds, Collected(ds), lrp, bits, emin, neg)

-----------------------------------------------------------------------------
(* hexfloat: XDIGS digits in the integer x, some in the fraction y, and a  *)
(* mark for the others.  Unit is the unit of y and bias.                   *)

Fraction == MANT \div 4 + 1 - XDIGS
Unit == 2 * 16 ^ Fraction
XB == 4 * XDIGS

RECURSIVE Normal(_, _, _)
Normal(x, y, e2) ==
  IF x >= 2 ^ (XB - 1) THEN [x |-> x, y |-> y, e2 |-> e2]
  ELSE Normal(2 * x + (2 * y) \div Unit, (2 * y) % Unit, e2 - 1)

\* Faulty variant, for mutation: what follows x is forgotten.
Sticky_Never(v, bits) == FALSE

\* The last bit of x stands for all that follows it, if they are rounded away.
Sticky(v, bits) == bits < XB /\ v.y # 0 /\ v.x % 2 = 0

Marked(v, bits) == IF Sticky(v, bits) THEN [v EXCEPT !.x = @ + 1, !.y = 0] ELSE v
HexBias(bits) == IF bits < MANT THEN Unit * 2 ^ (XB + MANT - bits - 1) ELSE 0
HexSum(v, bias) == Fp(Fp(bias + Unit * v.x) + v.y) - bias
HexEnd(sum, e2) == [Exactly(sum) EXCEPT !.q = e2 - Length(Unit) + 1, !.erange = sum = 0]
HexRounded(v, bits) ==
  [HexEnd(HexSum(Marked(v, bits), HexBias(bits)), v.e2)
     EXCEPT !.swallowed = bits = XB - 1 /\ Sticky(v, bits)]
HexNormal(v, bits, emin) == HexRounded(v, Precision(bits, XB + v.e2 - emin))
HexOf(x, y, e2, bits, emin) ==
  CASE x = 0 -> Exactly(0)
    [] x # 0 /\ e2 > -emin -> Beyond
    [] x # 0 /\ e2 < emin - 2 * MANT -> Tiny
    [] OTHER -> HexNormal(Normal(x, y, e2), bits, emin)
HexPadded(ds, n) ==
  2 * Folded(16, SubSeq(ds \o Zeros(n), XDIGS + 1, n))
    + IF \E k \in n + 1 .. Len(ds) : ds[k] # 0 THEN 1 ELSE 0
Hexfloat(ds, rp, exp, bits, emin) ==
  HexOf(Folded(16, Begin(ds \o Zeros(XDIGS), XDIGS)), HexPadded(ds, XDIGS + Fraction),
        exp + 4 * rp - XB, bits, emin)

-----------------------------------------------------------------------------
(* What the texts and the numbers should be.  A number is compared by its  *)
(* decimal figures, INTS before the point and FRACS after it.              *)

INTS == 14
FRACS == 30

RECURSIVE Fractions(_, _, _)
Fractions(n, k, w) ==
  IF w = 0 THEN <<>> ELSE <<(10 * n) \div 2 ^ k>> \o Fractions((10 * n) % 2 ^ k, k, w - 1)

\* The figures of m * 2^q, exact where 2^-q has no more than FRACS of them.
DecimalBy(n, k) ==
  Zeros(INTS - 9) \o Figures(n \div 2 ^ k, 9) \o Fractions(n % 2 ^ k, k, FRACS)
Decimal(m, q) == DecimalBy(m * 2 ^ Larger(0, q), Larger(0, -q))

Leading(s) == IF \E k \in DOMAIN s : s[k] # 0 THEN Min({k \in DOMAIN s : s[k] # 0}) ELSE INTS
LessThan(s, t) ==
  \E k \in DOMAIN s : s[k] < t[k] /\ \A i \in 1 .. k - 1 : s[i] = t[i]

RECURSIVE Incremented(_)
Incremented(s) ==
  IF Last(s) < 9 THEN Front(s) \o <<Last(s) + 1>> ELSE Incremented(Front(s)) \o <<0>>

\* The first c figures of s, rounded to even.
NearestTo(s, c, half, rest) ==
  IF LessThan(half, rest) \/ (half = rest /\ s[c] % 2 = 1)
  THEN Incremented(Begin(s, c)) ELSE Begin(s, c)
RoundedTo(s, c) ==
  NearestTo(s, c, Zeros(c) \o <<5>> \o Zeros(Len(s) - c - 1),
            Zeros(c) \o SubSeq(s, c + 1, Len(s)))

StripRight(s) == Begin(s, Max({0} \cup {k \in DOMAIN s : s[k] # 0}))
StripLeft(s) == SubSeq(s, Min({k \in DOMAIN s : s[k] # 0} \cup {Len(s) + 1}), Len(s))
LengthOf(r, least, alt) ==
  Len(r.int) + Len(r.frac) + (IF Len(r.frac) > 0 \/ alt THEN 1 ELSE 0)
    + IF r.exp = <<>> THEN 0 ELSE 2 + Larger(least, Width(Larger(r.exp[1], -r.exp[1])))

\* The text r of v, printed in style t with precision p, P of them after the
\* first figure of e, whose exponent is X.
FixedExact(r, f, p) ==
  r.frac = SubSeq(f, INTS + 1, INTS + p) /\ r.int = SubSeq(f, Smaller(INTS, Leading(f)), INTS)
GeneralExact(r, e, P, X, alt, fixed) ==
  /\ StripRight(StripLeft(r.int \o r.frac)) = StripRight(StripLeft(e))
  /\ fixed => Len(r.int) = Larger(X, 0) + 1
  /\ IF alt THEN Len(r.frac) = (IF fixed THEN P - X ELSE P) ELSE StripRight(r.frac) = r.frac
Nearest(r, t, p, P, X, s, e, alt, fixed) ==
  /\ (r.exp = <<>>) = fixed
  /\ ~fixed => r.exp[1] = X /\ Len(r.int) = 1
  /\ CASE t = "f" -> FixedExact(r, RoundedTo(s, INTS + p), p)
       [] t = "e" -> r.int \o r.frac = SubSeq(e, Leading(e), Leading(e) + p)
       [] t = "g" -> GeneralExact(r, e, P, X, alt, fixed)
NearestIn(r, t, p, P, X, s, e, alt) ==
  Nearest(r, t, p, P, X, s, e, alt, IF t = "g" THEN P >= X /\ X >= -4 ELSE t = "f")
NearestOf(r, t, p, P, s, e, alt) == NearestIn(r, t, p, P, INTS - Leading(e), s, e, alt)
NearestAt(r, t, p, P, s, alt) == NearestOf(r, t, p, P, s, RoundedTo(s, Leading(s) + P), alt)

\* The text is the nearest to v that has the precision asked for; the field was
\* padded for its length; and no limb outside big[] was written (stdio.c:738-970).
PrintsNearest(v, t, p, alt, r) ==
  /\ r.len = LengthOf(r, 2, alt)
  /\ \A d \in Limbs \ (0 .. Slots - 1) : r.x[d] = v.junk
  /\ NearestAt(r, t, p, IF t = "g" THEN Larger(p, 1) - 1 ELSE p, Decimal(v.m, v.q), alt)

\* And so is that of %a, whose figures are those of v where none is cut.
PrintsHex(v, p, alt, r) ==
  /\ Folded(16, r.int \o r.frac) * 2 ^ (MANT - 1)
       = FpCut(v.m, IF p < 0 THEN 1 ELSE 2 ^ Larger(0, MANT - 1 - 4 * p)) * 16 ^ Len(r.frac)
  /\ IF p >= 0 THEN Len(r.frac) = p ELSE StripRight(r.frac) = r.frac
  /\ r.len = LengthOf(r, 1, alt)

\* A number of a format with bits bits: the conversion to float is one.
Grid(m, q, bits, emin) == Larger(emin, q + Length(m) - bits)
StoredOn(m, q, g) ==
  [q |-> g, m |-> IF g <= q THEN m * 2 ^ (q - g) ELSE IF g - q > 24 THEN 0 ELSE Rne(m, 2 ^ (g - q))]
Stored(m, q, bits, emin) ==
  IF m = 0 THEN [m |-> 0, q |-> emin] ELSE StoredOn(m, q, Grid(m, q, bits, emin))

\* Nothing of the format is nearer to s than v.
Edge(v, bits, emin) == IF v.m = 2 ^ (bits - 1) /\ v.q > emin THEN 2 ELSE 1
Halfway(v, s, below, above) ==
  /\ v.m > 0 => ~LessThan(s, below) /\ (s = below => v.m % 2 = 0)
  /\ ~LessThan(above, s) /\ (s = above => v.m % 2 = 0)
Around(v, s, edge) ==
  Halfway(v, s, IF v.m = 0 THEN s ELSE Decimal(2 ^ edge * v.m - 1, v.q - edge),
          Decimal(2 * v.m + 1, v.q - 1))
RaisedToPower(v, s, exact) == v.m \in {2 ^ k : k \in 0 .. MANT} /\ LessThan(s, exact)
InRange(v, r, s, exact, bits, emin, over) ==
  /\ over = (Length(v.m) + v.q > 3 - emin - bits)
  /\ ~over => Around(v, s, Edge(v, bits, emin))
  /\ over \/ (s # exact /\ v.m < 2 ^ (bits - 1) /\ ~RaisedToPower(v, s, exact)) => r.erange
  /\ r.erange => over \/ (s # exact /\ v.q = emin)
Reads(v, r, s, bits, emin, over) ==
  InRange(v, r, s, Decimal(v.m, v.q), bits, emin, over)

\* A decimal text is read as the number of the format nearest to it, and out of
\* range is what has to be, if it is not raised to a power of two (stdio.c:2371-2544);
\* not so a negative one of which a tail was swallowed.  Limbs are written inside x[] only.
ReadsNearest(s, r, bits, emin, neg, over) ==
  CASE r = Beyond -> over
    [] r = Tiny -> LessThan(s, Decimal(1, emin - 1))
    [] OTHER -> /\ r.n >= 2 \/ r.z # KMAX - 1
                /\ \/ neg /\ r.swallowed
                   \/ Reads(Stored(r.m, r.q, bits, emin), r, s, bits, emin, over)
DigitsAt(ds, lrp) ==
  SubSeq(Zeros(INTS - lrp) \o ds \o Zeros(INTS + FRACS), 1, INTS + FRACS)
Digits(ds, lrp) == DigitsAt(ds, Larger(lrp, Len(ds) - FRACS))
OverAt(s, bits, emax) == ~LessThan(s, Decimal(2 ^ (bits + 1) - 1, emax - bits - 1))
ReadsDecimal(ds, lrp, bits, emin, neg, r) ==
  ReadsNearest(Digits(ds, lrp), r, bits, emin, neg,
               OverAt(Digits(ds, lrp), bits, 3 - emin - bits))

\* And so is a hexadecimal one, unless a mark for the rest falls on the very bit
\* that decides how to round: the last of x, or the one behind the digits that
\* are kept when the first is 1 (stdio.c:2618-2657).
SameNumber(u, v) == u.m * 2 ^ Larger(0, u.q - v.q) = v.m * 2 ^ Larger(0, v.q - u.q)
HexNearest(m, q, bits, emin, r) ==
  CASE r = Beyond -> q + Length(m) > 3 - emin - bits
    [] r = Tiny -> Stored(m, q, bits, emin).m = 0
    [] OTHER -> r.swallowed \/ SameNumber(Stored(r.m, r.q, bits, emin), Stored(m, q, bits, emin))
MarkDecides(ds, bits) ==
  bits = MANT /\ ds # <<>> /\ ds[1] = 1 /\ \E k \in XDIGS + Fraction + 1 .. Len(ds) : ds[k] # 0
ReadsHex(ds, rp, exp, bits, emin, r) ==
  MarkDecides(ds, bits) \/ HexNearest(Folded(16, ds), exp + 4 * (rp - Len(ds)), bits, emin, r)

\* Splitting and the remainder are exact, and scaling is rounded once
\* (stdio.c:619-736).
SplitsExactly(i, r) ==
  /\ i # 0 => Field(r.y) = BIAS - 1
  /\ Units(i) * 2 ^ Larger(0, -r.e) = Units(r.y) * 2 ^ Larger(0, r.e)
ScalesExactly(i, n, r) == r = Times(i, n)
DividesExactly(i, j, r) == Units(r) = Units(i) % Units(j)
=============================================================================
