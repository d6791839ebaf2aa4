--------------------------- MODULE NpfFloats_proofs ---------------------------
(***************************************************************************)
(* The float converters, for every build and every number.                 *)
(*                                                                         *)
(* The scaling of a fraction loses no high bits, and it leaves a mantissa  *)
(* whose top nibble is a decimal digit.  The invariant ScaleInv follows    *)
(* the steps that are left.  A step halves, or it multiplies by five and   *)
(* then, from the first that is not a leading zero on, only halves.  Where *)
(* it never multiplied the mantissa is down to an eighth of its range a    *)
(* step before the last, and multiplies then.                              *)
(*                                                                         *)
(* No store leaves the array and no cell is printed that was not stored.   *)
(* The invariant PlaceInv says, place by place, which cells hold a digit   *)
(* and what the counters of the converter are bounded by: the exponent of  *)
(* the first digit, above all, bounds the text of an exponent.             *)
(*                                                                         *)
(* With both, and the types of what the scaling declares (Scalars), every  *)
(* step goes on to a later place or makes a loop shorter that has work     *)
(* left.                                                                   *)
(*                                                                         *)
(* The text of %a, read back, is the number rounded to its nibbles: both   *)
(* the loop that drops nibbles and the value of the text divide by powers  *)
(* of sixteen.                                                             *)
(***************************************************************************)
EXTENDS NpfCFloat, NpfInduction, SequenceTheorems, FiniteSetTheorems

Scaling == pc \in {"ScaleFrac", "FusedScaleFrac"}
Emitting == pc \in {"Emit", "FusedEmit"}

\* The mantissa, in units of its top nibble.
Bounded ==
  /\ man \in Nat /\ man < 16 * TopNibble /\ carry \in {0, 1} /\ digit \in BOOLEAN
  /\ left \in Int /\ FirstLeft <= left /\ left <= 4
  /\ left <= 0 => ~digit
  /\ ~digit => /\ left = 1 => man < 8 * TopNibble
               /\ left = 2 => man < 4 * TopNibble
               /\ left = 3 => man < 2 * TopNibble
               /\ left # 4
  /\ left = 4 => man + carry < 10 * TopNibble
  /\ left # FirstLeft => man + carry < 16 * TopNibble

Printable == man \in Nat /\ man < 10 * TopNibble

Inputs == /\ cfg \in Builds /\ exp \in Int
          /\ real.exp \in Nat /\ real.frac \in Nat

ScaleInv == Inputs /\ (Scaling => Bounded) /\ (Emitting => Printable)

-----------------------------------------------------------------------------
(* Arithmetic.                                                               *)

LEMMA DivisionNat ==
  ASSUME NEW n \in Nat, NEW d \in Nat \ {0}
  PROVE  /\ n \div d \in Nat /\ n % d \in Nat /\ n % d < d
         /\ n = d * (n \div d) + (n % d)
  OBVIOUS

\* The intermediate has a top nibble, and room for at least a byte.
LEMMA Widths ==
  ASSUME cfg \in Builds
  PROVE  /\ TopNibble \in Nat /\ TopNibble >= 16
         /\ Range2 = 16 * TopNibble
<1>1. /\ cfg.ftoa \in Nat /\ cfg.ftoa >= 8 /\ cfg.bin \in Nat
      /\ 0..Greater(cfg.bin, cfg.ftoa) \subseteq DOMAIN Pow
  BY BuildsAssumption
<1>2. cfg.ftoa \in 0..Greater(cfg.bin, cfg.ftoa) /\ cfg.ftoa - 4 \in 0..Greater(cfg.bin, cfg.ftoa)
  BY <1>1 DEF Greater
<1>3. cfg.ftoa \in DOMAIN Pow /\ cfg.ftoa - 4 \in DOMAIN Pow
  BY <1>1, <1>2
<1>4. Pow[cfg.ftoa] = 16 * Pow[cfg.ftoa - 4] /\ Pow[cfg.ftoa - 4] >= 16
      /\ Pow[cfg.ftoa - 4] \in Nat \ {0}
  BY <1>1, <1>3, PowersAssumption
<1> QED BY <1>4 DEF TopNibble, Range2

\* A power of two that the widths reach.
LEMMA PowerReached ==
  ASSUME cfg \in Builds, NEW k \in Nat, k <= cfg.bin \/ k <= cfg.ftoa
  PROVE  Pow[k] \in Nat \ {0}
<1>1. /\ cfg.ftoa \in Nat /\ cfg.bin \in Nat
      /\ 0..Greater(cfg.bin, cfg.ftoa) \subseteq DOMAIN Pow
  BY BuildsAssumption
<1>2. k \in 0..Greater(cfg.bin, cfg.ftoa)
  BY <1>1 DEF Greater
<1> QED BY <1>1, <1>2, PowersAssumption

\* The limit of a multiplication is a fifth of the range, less what a carry adds.
LEMMA Limit ==
  ASSUME NEW P \in Nat, P >= 16, NEW n \in Nat
  PROVE  /\ n <= (16 * P - 4) \div 5 => 5 * n + 4 <= 16 * P
         /\ n < 2 * P => n <= (16 * P - 4) \div 5
<1>1. 16 * P - 4 \in Nat
  OBVIOUS
<1> DEFINE q == (16 * P - 4) \div 5
           r == (16 * P - 4) % 5
<1>2. q \in Nat /\ r \in Nat /\ r < 5 /\ 16 * P - 4 = 5 * q + r
  BY <1>1, DivisionNat
<1> HIDE DEF q, r
<1>3. /\ n <= q => 5 * n + 4 <= 16 * P
      /\ n < 2 * P => n <= q
  BY <1>2
<1> QED BY <1>3 DEF q

LEMMA HalfOf ==
  ASSUME NEW n \in Nat
  PROVE  /\ n \div 2 \in Nat /\ n % 2 \in {0, 1} /\ n = 2 * (n \div 2) + (n % 2)
<1>1. n \div 2 \in Nat /\ n % 2 \in Nat /\ n % 2 < 2 /\ n = 2 * (n \div 2) + (n % 2)
  BY DivisionNat
<1> QED BY <1>1

\* What half a mantissa is below.
LEMMA HalfBelow ==
  ASSUME NEW P \in Nat, P >= 16, NEW n \in Nat, n < 16 * P
  PROVE  /\ n \div 2 \in Nat /\ n % 2 \in {0, 1}
         /\ n \div 2 < 8 * P /\ n \div 2 < 16 * P
         /\ (n \div 2) + (n % 2) < 10 * P /\ (n \div 2) + (n % 2) < 16 * P
         /\ n < 8 * P => n \div 2 < 4 * P
         /\ n < 4 * P => n \div 2 < 2 * P
<1> DEFINE h == n \div 2
           c == n % 2
<1>1. h \in Nat /\ c \in {0, 1} /\ n = 2 * h + c
  BY HalfOf
<1> HIDE DEF h, c
<1>2. /\ h < 8 * P /\ h < 16 * P /\ h + c < 10 * P /\ h + c < 16 * P
      /\ n < 8 * P => h < 4 * P
      /\ n < 4 * P => h < 2 * P
  BY <1>1
<1> QED BY <1>1, <1>2 DEF h, c

\* Nothing wraps below the modulus.
LEMMA Below ==
  ASSUME NEW n \in Nat, NEW d \in Nat \ {0}, n < d
  PROVE  n % d = n
  OBVIOUS

-----------------------------------------------------------------------------
(* The steps.                                                                *)

\* The number taken apart is natural, and its exponent an integer.
LEMMA RealApart ==
  ASSUME Inputs
  PROVE  /\ Bin \in Nat /\ Exponent \in Int
         /\ cfg.man \in Nat /\ cfg.bin \in Nat /\ cfg.ftoa \in Nat /\ cfg.bin > cfg.man
<1>1. /\ cfg.man \in Nat /\ cfg.bin \in Nat /\ cfg.ftoa \in Nat /\ cfg.bin > cfg.man
      /\ cfg.maxexp \in Nat
  BY BuildsAssumption DEF Inputs
<1>2. Pow[cfg.man] \in Nat
  BY <1>1, PowerReached DEF Inputs
<1> QED BY <1>1, <1>2 DEF Inputs, Bin, Exponent, Greater, ExpBias

\* 1317-1337: a fraction starts with as many steps as leading zeros, at most.
LEMMA StartBounded ==
  ASSUME Inputs, HasFraction, StartFraction, exp' = exp, cfg' = cfg
  PROVE  Bounded'
<1>1. /\ Bin \in Nat /\ cfg.man \in Nat /\ cfg.bin \in Nat /\ cfg.ftoa \in Nat
      /\ cfg.bin > cfg.man /\ exp \in Int /\ exp < cfg.man
  BY RealApart DEF Inputs, HasFraction
<1>2. /\ TopNibble \in Nat /\ TopNibble >= 16 /\ Range2 = 16 * TopNibble
      /\ TopNibble' = TopNibble
  BY Widths DEF Inputs, TopNibble
<1>3. /\ left' = FirstLeft /\ FirstLeft' = FirstLeft /\ digit' = FALSE
      /\ FirstLeft \in Int /\ FirstLeft <= 0
  BY <1>1 DEF StartFraction, FirstLeft, ShiftF
<1>4. BinF(exp) \in Nat
  <2>1. /\ cfg.bin - cfg.man + ShiftF(exp) \in Nat
        /\ cfg.bin - cfg.man + ShiftF(exp) <= cfg.bin
    BY <1>1 DEF ShiftF
  <2>2. Pow[cfg.bin - cfg.man + ShiftF(exp)] \in Nat /\ Pow[cfg.bin] \in Nat \ {0}
    BY <1>1, <2>1, PowerReached DEF Inputs
  <2>3. Bin * Pow[cfg.bin - cfg.man + ShiftF(exp)] \in Nat
    BY <1>1, <2>2
  <2> QED BY <2>2, <2>3, DivisionNat DEF BinF
<1>5. man' \in Nat /\ man' < 16 * TopNibble /\ carry' \in {0, 1}
  <2>1. CASE cfg.bin > cfg.ftoa
    <3>1. /\ man' = (BinF(exp) \div Pow[cfg.bin - cfg.ftoa]) % Range2
          /\ carry' = (BinF(exp) \div Pow[cfg.bin - cfg.ftoa - 1]) % 2
      BY <1>1, <2>1 DEF StartFraction
    <3>2. Pow[cfg.bin - cfg.ftoa] \in Nat \ {0} /\ Pow[cfg.bin - cfg.ftoa - 1] \in Nat \ {0}
      <4>1. cfg.bin - cfg.ftoa \in Nat /\ cfg.bin - cfg.ftoa - 1 \in Nat
            /\ cfg.bin - cfg.ftoa <= cfg.bin /\ cfg.bin - cfg.ftoa - 1 <= cfg.bin
        BY <1>1, <2>1
      <4>2. cfg \in Builds
        BY DEF Inputs
      <4>3. Pow[cfg.bin - cfg.ftoa] \in Nat \ {0}
        BY <4>1, <4>2, PowerReached
      <4>4. Pow[cfg.bin - cfg.ftoa - 1] \in Nat \ {0}
        BY <4>1, <4>2, PowerReached
      <4> QED BY <4>3, <4>4
    <3>3. /\ BinF(exp) \div Pow[cfg.bin - cfg.ftoa] \in Nat
          /\ BinF(exp) \div Pow[cfg.bin - cfg.ftoa - 1] \in Nat
      BY <1>4, <3>2, DivisionNat
    <3>4. man' \in Nat /\ man' < Range2
      BY <1>2, <3>1, <3>3, DivisionNat
    <3>5. carry' \in {0, 1}
      BY <3>1, <3>3, HalfOf
    <3> QED BY <1>2, <3>4, <3>5
  <2>2. CASE cfg.bin <= cfg.ftoa
    <3>1. /\ man' = (BinF(exp) * Pow[cfg.ftoa - cfg.bin]) % Range2 /\ carry' = 0
      BY <1>1, <2>2 DEF StartFraction
    <3>2. cfg.ftoa - cfg.bin \in Nat /\ cfg.ftoa - cfg.bin <= cfg.ftoa
      BY <1>1, <2>2
    <3>3. Pow[cfg.ftoa - cfg.bin] \in Nat
      BY <3>2, PowerReached DEF Inputs
    <3>4. BinF(exp) * Pow[cfg.ftoa - cfg.bin] \in Nat
      BY <1>4, <3>3
    <3>5. Range2 \in Nat \ {0}
      BY <1>2
    <3>6. man' \in Nat /\ man' < Range2
      BY <3>1, <3>4, <3>5, DivisionNat
    <3> QED BY <1>2, <3>1, <3>6
  <2> QED BY <1>1, <2>1, <2>2
<1>6. /\ left' \in Int /\ left' <= 0 /\ left' = FirstLeft' /\ ~digit' /\ digit' \in BOOLEAN
  BY <1>3
<1>7. left' # 1 /\ left' # 2 /\ left' # 3 /\ left' # 4 /\ FirstLeft' <= left' /\ left' <= 4
  BY <1>6
<1>8. man' < 16 * TopNibble'
  BY <1>2, <1>5
<1> QED BY <1>5, <1>6, <1>7, <1>8, Zenon DEF Bounded

\* 1085-1098, 1348-1363: one step.
LEMMA StepBounded ==
  ASSUME Inputs, Bounded, left < 4, ScaleFraction, cfg' = cfg
  PROVE  Bounded'
<1> DEFINE P == TopNibble
<1>1. /\ P \in Nat /\ P >= 16 /\ Range2 = 16 * P /\ P' = P
  BY Widths DEF Inputs, TopNibble
<1>2. /\ man \in Nat /\ man < 16 * P /\ carry \in {0, 1}
      /\ left \in Int /\ FirstLeft <= left /\ left <= 3
  BY DEF Bounded
<1>3. left' = left + 1 /\ FirstLeft' = FirstLeft /\ FirstLeft \in Int
  BY DEF ScaleFraction, FirstLeft, ShiftF, Inputs
<1>4. /\ FiveFits => 5 * man + 4 <= 16 * P
      /\ man < 2 * P => FiveFits
  BY <1>1, <1>2, Limit DEF FiveFits
<1>5. CASE (~FiveFits \/ digit) /\ Halve /\ UNCHANGED digit
  <2>1. man' = man \div 2 /\ carry' = man % 2
    BY <1>5 DEF Halve
  <2>2. /\ man' \in Nat /\ carry' \in {0, 1} /\ man' < 8 * P /\ man' < 16 * P
        /\ man' + carry' < 10 * P /\ man' + carry' < 16 * P
        /\ man < 8 * P => man' < 4 * P
        /\ man < 4 * P => man' < 2 * P
    BY <1>1, <1>2, <2>1, HalfBelow
  <2>3. left' <= 0 => ~digit'
    <3>1. left' <= 0 => left <= 0
      BY <1>2, <1>3
    <3> QED BY <1>5, <3>1, Zenon DEF Bounded
  <2>4. ~digit => /\ left = 1 => man < 8 * P
                  /\ left = 2 => man < 4 * P
                  /\ left = 3 => man < 2 * P
    BY DEF Bounded
  <2>5. ~digit => ~FiveFits
    BY <1>5, Zenon
  <2>6. ~digit => left # 3
    BY <2>4, <2>5, <1>4, Zenon
  <2>7. /\ left' \in Int /\ FirstLeft' <= left' /\ left' <= 4
        /\ left # 3 => left' # 4
        /\ left' = 2 => left = 1
        /\ left' = 3 => left = 2
    BY <1>2, <1>3
  <2>8. /\ left' = 4 => man' + carry' < 10 * TopNibble'
        /\ left' # FirstLeft' => man' + carry' < 16 * TopNibble'
        /\ man' < 16 * TopNibble'
    BY <1>1, <2>2, Zenon
  <2>9. ~digit => /\ left' = 1 => man' < 8 * P
                  /\ left' = 2 => man' < 4 * P
                  /\ left' = 3 => man' < 2 * P
                  /\ left' # 4
    BY <2>2, <2>4, <2>6, <2>7, Zenon
  <2>10. digit' = digit /\ digit \in BOOLEAN
    BY <1>5 DEF Bounded
  <2> QED BY <1>1, <2>2, <2>3, <2>7, <2>8, <2>9, <2>10, Zenon DEF Bounded
<1>6. CASE FiveFits /\ ~digit /\ TimesFive /\ digit' = (left >= 0)
  <2>1. /\ man' = man * 5 + 3 * carry /\ carry' = 0
    <3>1. man * 5 + 3 * carry \in Nat /\ man * 5 + 3 * carry < 16 * P
      BY <1>1, <1>2, <1>4, <1>6
    <3>2. man' = (man * 5 + 3 * carry) % (16 * P) /\ carry' = 0
      BY <1>1, <1>6 DEF TimesFive
    <3>3. 16 * P \in Nat \ {0}
      BY <1>1
    <3> QED BY <3>1, <3>2, <3>3, Below
  <2>2. /\ man' \in Nat /\ carry' \in {0, 1} /\ man' + carry' < 16 * P /\ man' < 16 * P
    BY <1>1, <1>2, <1>4, <1>6, <2>1
  <2>3. left = 3 => man < 2 * P
    BY <1>6, Zenon DEF Bounded
  <2>4. left' = 4 => man' + carry' < 10 * P
    BY <1>1, <1>2, <1>3, <2>1, <2>3
  <2>a. /\ left' <= 0 => ~(left >= 0)
        /\ ~(left >= 0) => left' # 1 /\ left' # 2 /\ left' # 3 /\ left' # 4
    BY <1>2, <1>3
  <2>b. /\ ~digit' => ~(left >= 0)
        /\ ~(left >= 0) => ~digit'
    BY <1>6, Zenon
  <2>5. left' <= 0 => ~digit'
    BY <2>a, <2>b, Zenon
  <2>6. ~digit' => left' # 1 /\ left' # 2 /\ left' # 3 /\ left' # 4
    BY <2>a, <2>b, Zenon
  <2>7. left' \in Int /\ FirstLeft' <= left' /\ left' <= 4 /\ digit' \in BOOLEAN
    BY <1>2, <1>3, <1>6
  <2> QED BY <1>1, <2>2, <2>4, <2>5, <2>6, <2>7, Zenon DEF Bounded
<1> QED BY <1>5, <1>6 DEF ScaleFraction

\* 1102, 1364: the carry that is left fits where the last step was taken.
LEMMA NudgePrintable ==
  ASSUME Inputs, Bounded, left >= 4, cfg' = cfg,
         GuardedNudge \/ man' = (man + carry) % Range2
  PROVE  Printable'
<1>1. /\ TopNibble \in Nat /\ TopNibble >= 16 /\ Range2 = 16 * TopNibble
      /\ TopNibble' = TopNibble
  BY Widths DEF Inputs, TopNibble
<1>2. man \in Nat /\ carry \in {0, 1} /\ man + carry < 10 * TopNibble
  BY DEF Bounded
<1>3. man + carry \in Nat /\ man + carry < Range2 /\ Range2 \in Nat \ {0}
  BY <1>1, <1>2
<1>4. man' = man \/ man' = man + carry
  BY <1>3, Below DEF GuardedNudge
<1> QED BY <1>1, <1>2, <1>4 DEF Printable

\* 1113, 1373: what is kept below the top nibble gives ten times as much.
LEMMA RestPrintable ==
  ASSUME Inputs, Printable, cfg' = cfg, man' = (RestOf * 10) % Range2
  PROVE  Printable'
<1>1. /\ TopNibble \in Nat /\ TopNibble >= 16 /\ Range2 = 16 * TopNibble
      /\ TopNibble' = TopNibble
  BY Widths DEF Inputs, TopNibble
<1>2. RestOf \in Nat /\ RestOf < TopNibble
  BY <1>1, DivisionNat DEF RestOf, Printable
<1>3. RestOf * 10 \in Nat /\ RestOf * 10 < Range2 /\ Range2 \in Nat \ {0}
  BY <1>1, <1>2
<1>4. man' = RestOf * 10
  BY <1>3, Below
<1> QED BY <1>1, <1>2, <1>4 DEF Printable

-----------------------------------------------------------------------------
(* The invariant.                                                            *)

\* What is neither scaled nor printed has only to keep its parameters.
LEMMA Elsewhere ==
  ASSUME Inputs, UNCHANGED <<cfg, real>>, exp' \in Int, ~Scaling', ~Emitting'
  PROVE  ScaleInv'
  BY Zenon DEF ScaleInv, Inputs

\* Neither does a step that only moves decimals about.
LEMMA Undisturbed ==
  ASSUME ScaleInv, UNCHANGED <<cfg, real, pc, exp, man, carry, left, digit>>
  PROVE  ScaleInv'
<1>1. Inputs' /\ (Scaling' <=> Scaling) /\ (Emitting' <=> Emitting)
  BY DEF ScaleInv, Inputs, Scaling, Emitting
<1>2. TopNibble' = TopNibble /\ FirstLeft' = FirstLeft
  BY DEF TopNibble, FirstLeft, ShiftF
<1>3. (Bounded => Bounded') /\ (Printable => Printable')
  BY <1>2, Zenon DEF Bounded, Printable
<1> QED BY <1>1, <1>3, Zenon DEF ScaleInv

LEMMA ScaleInvInit == Init => ScaleInv
<1> SUFFICES ASSUME Init PROVE ScaleInv
  OBVIOUS
<1>1. cfg \in Builds /\ Fractions[cfg.man] \subseteq Nat /\ exp = 0 /\ cfg.maxexp \in Nat
  BY BuildsAssumption DEF Init
<1>2. real.exp \in 0..(2 * cfg.maxexp - 1) /\ real.frac \in Fractions[cfg.man]
  BY DEF Init
<1>3. real.exp \in Nat /\ real.frac \in Nat
  BY <1>1, <1>2
<1>4. pc \in {"Hex", "FusedStart", "Start"}
  BY DEF Init
<1>5. ~Scaling /\ ~Emitting
  BY <1>4 DEF Scaling, Emitting
<1> QED BY <1>1, <1>3, <1>5 DEF ScaleInv, Inputs

\* The fused %f.
LEMMA FusedKeeps ==
  ASSUME ScaleInv, FusedNext
  PROVE  ScaleInv'
<1> USE DEF inputs, scale, place
<1>1. Inputs
  BY DEF ScaleInv
<1>2. ASSUME NEW kind, FusedLeave(kind)
      PROVE  ScaleInv'
  <2>1. UNCHANGED <<cfg, real, exp>> /\ pc' = "FusedDone"
    BY <1>2 DEF FusedLeave
  <2> QED BY <1>1, <2>1, Elsewhere DEF Inputs, Scaling, Emitting
<1>3. CASE FusedStart
  <2>1. CASE IsSpecial /\ FusedLeave(SpecialKind)
    BY <2>1, <1>2
  <2>2. CASE ~IsSpecial /\ fs.prec > cfg.cbuf - 2 /\ FusedLeave("ERR")
    BY <2>2, <1>2
  <2>3. CASE exp' = Exponent /\ pc' = "FusedInteger" /\ UNCHANGED <<cfg, real>>
    BY <1>1, <2>3, RealApart, Elsewhere DEF Scaling, Emitting
  <2> QED BY <1>3, <2>1, <2>2, <2>3 DEF FusedStart
<1>4. CASE FusedInteger
  <2>1. UNCHANGED <<cfg, real>> /\ pc' = "FusedScaleInt"
    BY <1>4 DEF FusedInteger
  <2>2. exp' \in Int
    BY <1>1, <1>4, RealApart DEF FusedInteger, StartInteger, Inputs
  <2> QED BY <1>1, <2>1, <2>2, Elsewhere DEF Scaling, Emitting
<1>5. CASE FusedScaleInt
  <2>1. CASE FusedLeave("ERR")
    BY <2>1, <1>2
  <2>2. CASE UNCHANGED <<cfg, real, exp, pc>>
    BY <1>1, <1>5, <2>2, Elsewhere DEF FusedScaleInt, Inputs, Scaling, Emitting
  <2> QED BY <1>5, <2>1, <2>2 DEF FusedScaleInt
<1>6. CASE FusedIntDigits
  <2>1. CASE FusedLeave("ERR")
    BY <2>1, <1>2
  <2>2. CASE HasFraction /\ StartFraction /\ pc' = "FusedScaleFrac" /\ UNCHANGED <<cfg, real, exp>>
    <3>1. Bounded'
      BY <1>1, <2>2, StartBounded
    <3> QED BY <1>1, <2>2, <3>1 DEF ScaleInv, Inputs, Scaling, Emitting
  <2>3. CASE man' = 0 /\ pc' = "FusedEmit" /\ UNCHANGED <<cfg, real, exp>>
    <3>1. TopNibble' = TopNibble /\ TopNibble \in Nat /\ TopNibble >= 16
      BY <1>1, <2>3, Widths DEF Inputs, TopNibble
    <3>2. Printable'
      BY <2>3, <3>1 DEF Printable
    <3> QED BY <1>1, <2>3, <3>2 DEF ScaleInv, Inputs, Scaling, Emitting
  <2> QED BY <1>6, <2>1, <2>2, <2>3 DEF FusedIntDigits
<1>7. CASE FusedScaleFrac
  <2>1. /\ UNCHANGED <<cfg, real, exp, pc>> /\ left < 4 /\ ScaleFraction
        /\ pc = "FusedScaleFrac"
    BY <1>7 DEF FusedScaleFrac, ScaleFraction
  <2>2. Bounded'
    BY <1>1, <2>1, StepBounded DEF ScaleInv, Scaling
  <2> QED BY <1>1, <2>1, <2>2 DEF ScaleInv, Inputs, Scaling, Emitting
<1>8. CASE FusedNudge
  <2>1. UNCHANGED <<cfg, real, exp>> /\ Scaling /\ GuardedNudge
    BY <1>8 DEF FusedNudge, Scaling
  <2>2. CASE dec_f > 0
    <3>1. pc' = "FusedEmit" /\ (dec_f = 0 \/ left >= 4)
      BY <1>8, <2>2 DEF FusedNudge
    <3>2. left >= 4
      BY <2>2, <3>1
    <3>3. Printable'
      BY <1>1, <2>1, <3>2, NudgePrintable DEF ScaleInv
    <3> QED BY <1>1, <2>1, <3>1, <3>3 DEF ScaleInv, Inputs, Scaling, Emitting
  <2>3. CASE ~(dec_f > 0)
    <3>1. pc' = "FusedTie"
      BY <1>8, <2>3 DEF FusedNudge
    <3> QED BY <1>1, <2>1, <3>1, Elsewhere DEF Inputs, Scaling, Emitting
  <2> QED BY <2>2, <2>3
<1>9. CASE FusedEmit
  <2>1. UNCHANGED <<cfg, real, exp>> /\ pc = "FusedEmit"
    BY <1>9 DEF FusedEmit
  <2>2. CASE pc' = "FusedTie"
    BY <1>1, <2>1, <2>2, Elsewhere DEF Inputs, Scaling, Emitting
  <2>3. CASE man' = (RestOf * 10) % Range2 /\ UNCHANGED pc
    <3>1. Printable'
      BY <1>1, <2>1, <2>3, RestPrintable DEF ScaleInv, Emitting
    <3> QED BY <1>1, <2>1, <2>3, <3>1 DEF ScaleInv, Inputs, Scaling, Emitting
  <2> QED BY <1>9, <2>2, <2>3 DEF FusedEmit
<1>10. CASE FusedTie
  <2>1. UNCHANGED <<cfg, real, exp>> /\ pc' = "FusedRound"
    BY <1>10 DEF FusedTie
  <2> QED BY <1>1, <2>1, Elsewhere DEF Inputs, Scaling, Emitting
<1>11. CASE FusedRound
  <2>1. CASE FusedLeave("ERR")
    BY <2>1, <1>2
  <2>2. CASE UNCHANGED <<cfg, real, exp, pc>>
    BY <1>1, <1>11, <2>2, Elsewhere DEF FusedRound, Inputs, Scaling, Emitting
  <2> QED BY <1>11, <2>1, <2>2 DEF FusedRound
<1>12. CASE FusedReturn
  <2>1. UNCHANGED <<cfg, real, exp>> /\ pc' = "FusedDone"
    BY <1>12 DEF FusedReturn
  <2> QED BY <1>1, <2>1, Elsewhere DEF Inputs, Scaling, Emitting
<1> QED BY <1>3, <1>4, <1>5, <1>6, <1>7, <1>8, <1>9, <1>10, <1>11, <1>12 DEF FusedNext

\* The converter that %e and %g share with %f.
LEMMA SciKeeps ==
  ASSUME ScaleInv, SciNext
  PROVE  ScaleInv'
<1> USE DEF inputs, scale, place
<1>1. Inputs
  BY DEF ScaleInv
<1>2. ASSUME NEW kind, Leave(kind)
      PROVE  ScaleInv'
  <2>1. UNCHANGED <<cfg, real, exp>> /\ pc' = "Done"
    BY <1>2 DEF Leave
  <2> QED BY <1>1, <2>1, Elsewhere DEF Inputs, Scaling, Emitting
<1>3. CASE Start
  <2>1. CASE IsSpecial /\ Leave(SpecialKind)
    BY <2>1, <1>2
  <2>2. CASE ~IsSpecial /\ ~PrecisionFits /\ Leave("ERR")
    BY <2>2, <1>2
  <2>3. CASE pc' = "Generate" /\ UNCHANGED <<cfg, real, exp>>
    BY <1>1, <2>3, Elsewhere DEF Inputs, Scaling, Emitting
  <2> QED BY <1>3, <2>1, <2>2, <2>3 DEF Start
<1>4. CASE Generate
  <2>1. exp' = Exponent /\ pc' = "Integer" /\ UNCHANGED <<cfg, real>>
    BY <1>4 DEF Generate
  <2> QED BY <1>1, <2>1, RealApart, Elsewhere DEF Scaling, Emitting
<1>5. CASE Integer
  <2>1. UNCHANGED <<cfg, real>> /\ pc' = "ScaleInt"
    BY <1>5 DEF Integer
  <2>2. exp' \in Int
    BY <1>1, <1>5, RealApart DEF Integer, StartInteger, Inputs
  <2> QED BY <1>1, <2>1, <2>2, Elsewhere DEF Scaling, Emitting
<1>6. CASE ScaleInt
  <2>1. UNCHANGED <<cfg, real, exp, pc>> /\ pc = "ScaleInt"
    BY <1>6 DEF ScaleInt
  <2> QED BY <1>1, <2>1, Elsewhere DEF Inputs, Scaling, Emitting
<1>7. CASE IntDigits
  <2>1. CASE Leave("ERR")
    BY <2>1, <1>2
  <2>2. CASE HasFraction /\ StartFraction /\ UNCHANGED <<cfg, real, exp>>
             /\ pc' \in {"ScaleFrac", "Tail"}
    <3>1. Bounded'
      BY <1>1, <2>2, StartBounded
    <3> QED BY <1>1, <2>2, <3>1 DEF ScaleInv, Inputs, Scaling, Emitting
  <2>3. CASE pc' = "Significant" /\ UNCHANGED <<cfg, real, exp>>
    BY <1>1, <2>3, Elsewhere DEF Inputs, Scaling, Emitting
  <2> QED BY <1>7, <2>1, <2>2, <2>3 DEF IntDigits
<1>8. CASE ScaleFrac
  <2>1. /\ UNCHANGED <<cfg, real, exp, pc>> /\ left < 4 /\ ScaleFraction
        /\ pc = "ScaleFrac"
    BY <1>8 DEF ScaleFrac, ScaleFraction
  <2>2. Bounded'
    BY <1>1, <2>1, StepBounded DEF ScaleInv, Scaling
  <2> QED BY <1>1, <2>1, <2>2 DEF ScaleInv, Inputs, Scaling, Emitting
<1>9. CASE Nudge
  <2>1. UNCHANGED <<cfg, real, exp>> /\ Scaling /\ man' = (man + carry) % Range2
    BY <1>9 DEF Nudge, Scaling
  <2>2. CASE Wanted
    <3>1. pc' = "Emit" /\ left >= 4
      BY <1>9, <2>2 DEF Nudge
    <3>2. Printable'
      BY <1>1, <2>1, <3>1, NudgePrintable DEF ScaleInv
    <3> QED BY <1>1, <2>1, <3>1, <3>2 DEF ScaleInv, Inputs, Scaling, Emitting
  <2>3. CASE ~Wanted
    <3>1. pc' = "Tail"
      BY <1>9, <2>3 DEF Nudge
    <3> QED BY <1>1, <2>1, <3>1, Elsewhere DEF Inputs, Scaling, Emitting
  <2> QED BY <2>2, <2>3
<1>10. CASE Emit
  <2>1. UNCHANGED <<cfg, real, exp>> /\ pc = "Emit"
    BY <1>10 DEF Emit
  <2>2. CASE pc' = "Tail"
    BY <1>1, <2>1, <2>2, Elsewhere DEF Inputs, Scaling, Emitting
  <2>3. CASE man' = (RestOf * 10) % Range2 /\ UNCHANGED pc
    <3>1. Printable'
      BY <1>1, <2>1, <2>3, RestPrintable DEF ScaleInv, Emitting
    <3> QED BY <1>1, <2>1, <2>3, <3>1 DEF ScaleInv, Inputs, Scaling, Emitting
  <2> QED BY <1>10, <2>2, <2>3 DEF Emit
<1>11. CASE Leftover \/ Significant \/ Round
  <2>1. UNCHANGED <<cfg, real, exp>> /\ pc' \in {"Significant", "Round", "Shortest"}
    BY <1>11 DEF Leftover, Significant, Round
  <2> QED BY <1>1, <2>1, Elsewhere DEF Inputs, Scaling, Emitting
<1>12. CASE Shortest
  <2>1. UNCHANGED <<cfg, real, exp>> /\ pc' \in {"Layout", "Generate"}
    BY <1>12 DEF Shortest
  <2> QED BY <1>1, <2>1, Elsewhere DEF Inputs, Scaling, Emitting
<1>13. ASSUME NEW stores, NEW n, LayOut(stores, n)
       PROVE  ScaleInv'
  <2>1. UNCHANGED <<cfg, real, exp>> /\ pc' = "Done"
    BY <1>13 DEF LayOut
  <2> QED BY <1>1, <2>1, Elsewhere DEF Inputs, Scaling, Emitting
<1>14. CASE LayFixed
  <2>1. CASE Leave("ERR")
    BY <2>1, <1>2
  <2>2. CASE \E stores, n : LayOut(stores, n)
    BY <2>2, <1>13
  <2> QED BY <1>14, <2>1, <2>2, Zenon DEF LayFixed
<1>15. CASE LaySci
  BY <1>13, <1>15, Zenon DEF LaySci
<1> QED
  BY <1>3, <1>4, <1>5, <1>6, <1>7, <1>8, <1>9, <1>10, <1>11, <1>12, <1>14, <1>15 DEF SciNext

LEMMA ScaleInvNext == ScaleInv /\ [Next]_vars => ScaleInv'
<1> SUFFICES ASSUME ScaleInv, [Next]_vars PROVE ScaleInv'
  OBVIOUS
<1>1. Inputs
  BY DEF ScaleInv
<1>2. CASE Unified
  <2>1. UNCHANGED <<cfg, real, exp>> /\ pc' = "Start"
    BY <1>2 DEF Unified, inputs, scale
  <2> QED BY <1>1, <2>1, Elsewhere DEF Inputs, Scaling, Emitting
<1>3. CASE Hex
  <2>1. UNCHANGED <<cfg, real, exp>> /\ pc' \in {"Start", "Done"}
    BY <1>3 DEF Hex, inputs, scale
  <2> QED BY <1>1, <2>1, Elsewhere DEF Inputs, Scaling, Emitting
<1>4. CASE UNCHANGED vars
  BY <1>4, Undisturbed DEF vars, fusedVars, inputs, scale
<1> QED BY <1>2, <1>3, <1>4, FusedKeeps, SciKeeps DEF Next, Done

\* The invariant holds in every state that either converter reaches.
LEMMA ScaleInvHolds == Spec => []ScaleInv
<1>1. Init => ScaleInv
  BY ScaleInvInit
<1>2. ScaleInv /\ [Next]_vars => ScaleInv'
  BY ScaleInvNext
<1> QED BY <1>1, <1>2, PTL DEF Spec

-----------------------------------------------------------------------------
(* What it is for.                                                           *)

LEMMA NeverWraps == ScaleInv => ScalingNeverWraps
<1> SUFFICES ASSUME ScaleInv, Scaling
             PROVE  /\ FiveFits => man * 5 + 3 * carry < Range2
                    /\ left # FirstLeft => man + carry < Range2
  BY DEF ScalingNeverWraps, Scaling
<1>1. TopNibble \in Nat /\ TopNibble >= 16 /\ Range2 = 16 * TopNibble
  BY Widths DEF ScaleInv, Inputs
<1>2. Bounded
  BY DEF ScaleInv
<1>3. man \in Nat /\ carry \in {0, 1}
  BY <1>2 DEF Bounded
<1>4. FiveFits => 5 * man + 4 <= Range2
  BY <1>1, <1>3, Limit DEF FiveFits
<1>5. FiveFits => man * 5 + 3 * carry < Range2
  BY <1>1, <1>3, <1>4
<1>6. left # FirstLeft => man + carry < Range2
  BY <1>1, <1>2, Zenon DEF Bounded
<1> QED BY <1>5, <1>6

\* A mantissa below ten units of the top nibble has a decimal digit there.
LEMMA TopDecimal ==
  ASSUME NEW P \in Nat \ {0}, NEW n \in Nat, n < 10 * P
  PROVE  n \div P <= 9
<1> DEFINE q == n \div P
<1>1. q \in Nat /\ P * q <= n
  <2>1. q \in Nat /\ n % P \in Nat /\ n = P * q + (n % P)
    BY DivisionNat
  <2>2. P * q \in Nat
    BY <2>1
  <2> HIDE DEF q
  <2> QED BY <2>1, <2>2
<1> HIDE DEF q
<1>2. ~(q >= 10)
  <2> SUFFICES ASSUME q >= 10 PROVE FALSE
    OBVIOUS
  <2>1. q - 10 \in Nat /\ P * (q - 10) \in Nat
    BY <1>1
  <2>2. P * q = P * (q - 10) + 10 * P
    BY <1>1
  <2> QED BY <1>1, <2>1, <2>2
<1> QED BY <1>1, <1>2 DEF q

LEMMA PrintsDecimals == ScaleInv => DigitsDecimal
<1> SUFFICES ASSUME ScaleInv, Emitting PROVE NextDecimal <= 9
  BY DEF DigitsDecimal, Emitting
<1>1. TopNibble \in Nat /\ TopNibble >= 16
  BY Widths DEF ScaleInv, Inputs
<1>2. man \in Nat /\ man < 10 * TopNibble
  BY DEF ScaleInv, Printable
<1>3. TopNibble \in Nat \ {0}
  BY <1>1
<1> QED BY <1>2, <1>3, TopDecimal DEF NextDecimal

\* Whatever the width of the intermediate, no step of the scaling of a fraction
\* wraps, and after any there is room for the carry left (1087-1102, 1349-1364).
THEOREM ScalingSound == Spec => []ScalingNeverWraps
<1>1. ScaleInv => ScalingNeverWraps
  BY NeverWraps
<1> QED BY <1>1, ScaleInvHolds, PTL

\* What is added to '0' is a decimal digit, whatever the width (1112, 1371).
THEOREM DigitsSound == Spec => []DigitsDecimal
<1>1. ScaleInv => DigitsDecimal
  BY PrintsDecimals
<1> QED BY <1>1, ScaleInvHolds, PTL

-----------------------------------------------------------------------------
(* Numerals.                                                                 *)

\* The numeral of a number, taken apart: it is defined by recursion.
LEMMA NumeralRec ==
  /\ Numeral \in [Nat -> Seq(0..9)]
  /\ \A n \in Nat : Numeral[n] = IF n < 10 THEN <<n>> ELSE <<n % 10>> \o Numeral[n \div 10]
<1> DEFINE T == Seq(0..9)
           E(g, n) == IF n < 10 THEN <<n>> ELSE <<n % 10>> \o g[n \div 10]
           Step == [g \in [Nat -> T] |-> [n \in Nat |-> E(g, n)]]
           F == CHOOSE f : f = [n \in Nat |-> E(f, n)]
<1>1. \A n \in Nat : /\ n \div 10 \in Nat /\ n % 10 \in 0..9
                     /\ n < 10 => n \in 0..9
                     /\ ~(n < 10) => n \div 10 \in 0..(n - 1)
  OBVIOUS
<1>2. ASSUME NEW n \in Nat, NEW s, n < 10 \/ s \in T
      PROVE  (IF n < 10 THEN <<n>> ELSE <<n % 10>> \o s) \in T
  <2>1. CASE n < 10
    <3>1. n \in 0..9
      BY <1>1, <2>1
    <3>2. <<n>> \in Seq(0..9)
      BY <3>1
    <3> QED BY <3>2, <2>1, Zenon
  <2>2. CASE ~(n < 10)
    <3>1. <<n % 10>> \in Seq(0..9)
      <4>1. n % 10 \in 0..9
        BY <1>1
      <4> DEFINE d == n % 10
      <4> HIDE DEF d
      <4>2. <<d>> \in Seq(0..9)
        BY <4>1 DEF d
      <4> QED BY <4>2 DEF d
    <3>2. s \in Seq(0..9)
      BY <1>2, <2>2
    <3>3. <<n % 10>> \o s \in Seq(0..9)
      BY <3>1, <3>2, ConcatProperties
    <3> QED BY <3>3, <2>2, Zenon
  <2> QED BY <2>1, <2>2
<1>3. ASSUME NEW g \in [Nat -> T], NEW n \in Nat PROVE E(g, n) \in T
  <2>1. g[n \div 10] \in T
    BY <1>1
  <2> QED BY <1>2, <2>1
<1>4. Recursive(Step, T)
  <2>1. Step \in [[Nat -> T] -> [Nat -> T]]
    <3> HIDE DEF E, T
    <3> QED BY <1>3
  <2>2. ASSUME NEW g \in [Nat -> T], NEW h \in [Nat -> T], NEW n \in Nat,
               \A k \in 0..(n - 1) : g[k] = h[k]
        PROVE  Step[g][n] = Step[h][n]
    <3>1. E(g, n) = E(h, n)
      <4>1. CASE n < 10
        BY <4>1, Zenon
      <4>2. CASE ~(n < 10)
        <5>1. g[n \div 10] = h[n \div 10]
          BY <1>1, <2>2, <4>2
        <5> QED BY <5>1, Zenon
      <4> QED BY <4>1, <4>2
    <3> HIDE DEF E, T
    <3> QED BY <3>1
  <2> HIDE DEF Step, T
  <2> QED BY <2>1, <2>2 DEF Recursive
<1>5. T # {}
  BY EmptySeq
<1>6. PICK f \in [Nat -> T] : f = Step[f]
  <2> HIDE DEF Step, T
  <2> QED BY <1>4, <1>5, Recursion
<1>7. f = [n \in Nat |-> E(f, n)]
  <2> HIDE DEF E, T
  <2> QED BY <1>6
<1>8. F = [n \in Nat |-> E(F, n)]
  <2> HIDE DEF E
  <2> QED BY <1>7
<1>9. Numeral = F
  BY DEF Numeral
<1>10. \A n \in Nat : F[n] = E(F, n)
  <2> HIDE DEF E, F
  <2> QED BY <1>8
<1>11. F \in [Nat -> T]
  <2> DEFINE G == {n \in Nat : F[n] \in T}
  <2>1. \A n \in Nat : 0..(n - 1) \subseteq G => n \in G
    <3> SUFFICES ASSUME NEW n \in Nat, 0..(n - 1) \subseteq G PROVE F[n] \in T
      OBVIOUS
    <3>1. F[n] = E(F, n)
      BY <1>10
    <3> HIDE DEF F
    <3>2. n < 10 \/ F[n \div 10] \in T
      BY <1>1
    <3>3. E(F, n) \in T
      BY <1>2, <3>2
    <3> QED BY <3>1, <3>3
  <2>2. Nat \subseteq G
    <3> HIDE DEF G
    <3> QED BY <2>1, StrongInduction
  <2> HIDE DEF F, E, T
  <2> QED BY <2>2, <1>8
<1> HIDE DEF F
<1> QED BY <1>9, <1>10, <1>11, Zenon

\* It has a digit for every one of the number, and digits only.
LEMMA NumeralLen ==
  ASSUME NEW n \in Nat
  PROVE  /\ Numeral[n] \in Seq(0..9) /\ Len(Numeral[n]) \in Nat \ {0}
         /\ \A k \in 1..Len(Numeral[n]) : Numeral[n][k] \in 0..9
         /\ n < 10 => Len(Numeral[n]) = 1
         /\ ~(n < 10) => Len(Numeral[n]) = 1 + Len(Numeral[n \div 10])
<1> DEFINE s == Numeral[n]
           t == Numeral[n \div 10]
<1>1. n \div 10 \in Nat /\ n % 10 \in 0..9
  OBVIOUS
<1>2. s \in Seq(0..9) /\ t \in Seq(0..9)
  BY <1>1, NumeralRec
<1>3. s = IF n < 10 THEN <<n>> ELSE <<n % 10>> \o t
  BY NumeralRec
<1> HIDE DEF s, t
<1>4. Len(s) \in Nat /\ Len(t) \in Nat /\ \A k \in 1..Len(s) : s[k] \in 0..9
  BY <1>2
<1>5. n < 10 => Len(s) = 1
  <2>1. Len(<<n>>) = 1
    OBVIOUS
  <2> QED BY <1>3, <2>1, Zenon
<1>6. ~(n < 10) => Len(s) = 1 + Len(t)
  <2> DEFINE d == n % 10
             u == <<d>>
  <2>1. u \in Seq(0..9) /\ Len(u) = 1
    <3>1. d \in 0..9
      BY <1>1
    <3> HIDE DEF d
    <3> QED BY <3>1
  <2> HIDE DEF u
  <2>2. Len(u \o t) = 1 + Len(t)
    BY <2>1, <1>2, ConcatProperties
  <2> QED BY <1>3, <2>2, Zenon DEF u
<1>7. Len(s) # 0
  <2> DEFINE x == Len(s)
             y == Len(t)
  <2>1. x \in Nat /\ y \in Nat /\ (x = 1 \/ x = 1 + y)
    BY <1>4, <1>5, <1>6, Zenon
  <2> HIDE DEF x, y
  <2>2. x # 0
    BY <2>1
  <2> QED BY <2>2 DEF x
<1>8. Len(s) \in Nat \ {0}
  BY <1>4, <1>7
<1> QED BY <1>2, <1>4, <1>5, <1>6, <1>8 DEF s, t

\* A smaller number has no more digits.
LEMMA NumeralGrows ==
  ASSUME NEW n \in Nat
  PROVE  \A m \in 0..n : Len(Numeral[m]) <= Len(Numeral[n])
<1> DEFINE S == {k \in Nat : \A m \in 0..k : Len(Numeral[m]) <= Len(Numeral[k])}
<1>1. \A k \in Nat : 0..(k - 1) \subseteq S => k \in S
  <2> SUFFICES ASSUME NEW k \in Nat, 0..(k - 1) \subseteq S, NEW m \in 0..k
               PROVE  Len(Numeral[m]) <= Len(Numeral[k])
    OBVIOUS
  <2>1. m \in Nat /\ Len(Numeral[k]) \in Nat \ {0} /\ Len(Numeral[m]) \in Nat \ {0}
    <3>1. m \in Nat
      OBVIOUS
    <3> QED BY <3>1, NumeralLen
  <2>2. CASE m < 10
    <3>1. Len(Numeral[m]) = 1
      BY <2>1, <2>2, NumeralLen
    <3> QED BY <2>1, <3>1
  <2>3. CASE ~(m < 10)
    <3>1. /\ ~(k < 10) /\ k \div 10 \in 0..(k - 1) /\ m \div 10 \in 0..(k \div 10)
          /\ k \div 10 \in Nat /\ m \div 10 \in Nat
      BY <2>3
    <3>2. Len(Numeral[m \div 10]) <= Len(Numeral[k \div 10])
      BY <3>1
    <3>3. Len(Numeral[m]) = 1 + Len(Numeral[m \div 10])
      BY <2>1, <2>3, NumeralLen
    <3>4. Len(Numeral[k]) = 1 + Len(Numeral[k \div 10])
      BY <3>1, NumeralLen
    <3>5. Len(Numeral[m \div 10]) \in Nat \ {0} /\ Len(Numeral[k \div 10]) \in Nat \ {0}
      BY <3>1, NumeralLen
    <3> QED BY <3>2, <3>3, <3>4, <3>5
  <2> QED BY <2>2, <2>3
<1>2. Nat \subseteq S
  <2> HIDE DEF S
  <2> QED BY <1>1, StrongInduction
<1> QED BY <1>2

\* An exponent has at most four.
LEMMA FourDigits ==
  ASSUME NEW n \in Nat, n < 10000
  PROVE  Len(Numeral[n]) <= 4
<1>1. ASSUME NEW m \in Nat PROVE m < 10 => Len(Numeral[m]) <= 1
  <2> DEFINE x == Len(Numeral[m])
  <2>1. m < 10 => x = 1
    BY NumeralLen
  <2> HIDE DEF x
  <2>2. m < 10 => x <= 1
    BY <2>1
  <2> QED BY <2>2 DEF x
<1>2. ASSUME NEW m \in Nat PROVE m < 100 => Len(Numeral[m]) <= 2
  <2>1. m \div 10 \in Nat /\ (m < 100 => m \div 10 < 10)
    OBVIOUS
  <2>2. Len(Numeral[m \div 10]) \in Nat \ {0}
    BY <2>1, NumeralLen
  <2> QED BY <1>1, <2>1, <2>2, NumeralLen
<1>3. ASSUME NEW m \in Nat PROVE m < 1000 => Len(Numeral[m]) <= 3
  <2>1. m \div 10 \in Nat /\ (m < 1000 => m \div 10 < 100)
    OBVIOUS
  <2>2. Len(Numeral[m \div 10]) \in Nat \ {0}
    BY <2>1, NumeralLen
  <2> QED BY <1>2, <2>1, <2>2, NumeralLen
<1>4. n \div 10 \in Nat /\ n \div 10 < 1000
  OBVIOUS
<1>5. Len(Numeral[n \div 10]) \in Nat \ {0}
  BY <1>4, NumeralLen
<1> QED BY <1>3, <1>4, <1>5, NumeralLen

-----------------------------------------------------------------------------
(* Buffers: what was stored to is inside the array.                          *)

\* The arrays of n cells that hold members of S where anything was stored.
Buffers(n, S) == UNION {[D -> S] : D \in SUBSET (0..(n - 1))}

LEMMA BufferFacts ==
  ASSUME NEW n, NEW S, NEW b \in Buffers(n, S)
  PROVE  /\ DOMAIN b \subseteq 0..(n - 1) /\ b \in [DOMAIN b -> S]
         /\ \A k \in DOMAIN b : b[k] \in S
<1>1. PICK D \in SUBSET (0..(n - 1)) : b \in [D -> S]
  BY DEF Buffers
<1> QED BY <1>1

LEMMA BufferIntro ==
  ASSUME NEW n, NEW S, NEW D \in SUBSET (0..(n - 1)), NEW b \in [D -> S]
  PROVE  b \in Buffers(n, S)
  BY DEF Buffers

LEMMA BufferWider ==
  ASSUME NEW n, NEW S, NEW U, S \subseteq U, NEW b \in Buffers(n, S)
  PROVE  b \in Buffers(n, U)
<1>1. DOMAIN b \subseteq 0..(n - 1) /\ b \in [DOMAIN b -> S]
  BY BufferFacts
<1>2. b \in [DOMAIN b -> U]
  BY <1>1
<1> QED BY <1>1, <1>2, BufferIntro

LEMMA BlankBuffer == ASSUME NEW n, NEW S PROVE Blank \in Buffers(n, S) /\ DOMAIN Blank = {}
<1>1. Blank \in [{} -> S] /\ DOMAIN Blank = {}
  BY DEF Blank
<1>2. {} \in SUBSET (0..(n - 1))
  OBVIOUS
<1> QED BY <1>1, <1>2, BufferIntro

\* What a store adds, and a run of stores.
LEMMA PutDomain ==
  ASSUME NEW b, NEW i, NEW c
  PROVE  DOMAIN Put(b, i, c) = DOMAIN b \cup {i} /\ Put(b, i, c)[i] = c
  BY DEF Put

LEMMA PutRunDomain ==
  ASSUME NEW b, NEW i, NEW s
  PROVE  DOMAIN PutRun(b, i, s) = DOMAIN b \cup i..(i + Len(s) - 1)
  BY DEF PutRun

\* Inside the array they leave a buffer.
LEMMA PutBuffer ==
  ASSUME NEW n \in Nat, NEW S, NEW b \in Buffers(n, S), NEW i \in 0..(n - 1), NEW c \in S
  PROVE  Put(b, i, c) \in Buffers(n, S)
<1> DEFINE D == DOMAIN b \cup {i}
           p == Put(b, i, c)
<1>1. DOMAIN b \subseteq 0..(n - 1) /\ \A k \in DOMAIN b : b[k] \in S
  BY BufferFacts
<1>2. p = [k \in D |-> IF k = i THEN c ELSE b[k]]
  BY DEF Put
<1>3. D \in SUBSET (0..(n - 1)) /\ p \in [D -> S]
  BY <1>1, <1>2
<1> HIDE DEF p, D
<1>4. p \in Buffers(n, S)
  BY <1>3, BufferIntro
<1> QED BY <1>4 DEF p

LEMMA PutRunBuffer ==
  ASSUME NEW n \in Nat, NEW S, NEW b \in Buffers(n, S), NEW i \in Nat, NEW s \in Seq(S),
         i + Len(s) <= n
  PROVE  PutRun(b, i, s) \in Buffers(n, S)
<1> DEFINE R == i..(i + Len(s) - 1)
           D == DOMAIN b \cup R
           p == PutRun(b, i, s)
<1>1. DOMAIN b \subseteq 0..(n - 1) /\ \A k \in DOMAIN b : b[k] \in S
  BY BufferFacts
<1>2. p = [k \in D |-> IF k \in R THEN s[k - i + 1] ELSE b[k]]
  BY DEF PutRun
<1>3. Len(s) \in Nat /\ \A k \in 1..Len(s) : s[k] \in S
  OBVIOUS
<1>4. R \subseteq 0..(n - 1) /\ \A k \in R : k - i + 1 \in 1..Len(s)
  BY <1>3
<1>5. \A k \in R : s[k - i + 1] \in S
  BY <1>3, <1>4
<1>6. \A k \in D : k \in R \/ k \in DOMAIN b
  OBVIOUS
<1> HIDE DEF R
<1>7. D \in SUBSET (0..(n - 1)) /\ p \in [D -> S]
  BY <1>1, <1>2, <1>4, <1>5, <1>6
<1> HIDE DEF p, D
<1>8. p \in Buffers(n, S)
  BY <1>7, BufferIntro
<1> QED BY <1>8 DEF p

\* A cell that was stored to.
LEMMA CellStored ==
  ASSUME NEW n, NEW S, NEW b \in Buffers(n, S), NEW i \in DOMAIN b
  PROVE  Cell(b, i) = b[i] /\ Cell(b, i) \in S
  BY BufferFacts DEF Cell

LEMMA CellAny ==
  ASSUME NEW n, NEW S, NEW b \in Buffers(n, S), NEW i
  PROVE  Cell(b, i) \in S \cup {Unset}
  BY BufferFacts DEF Cell

\* What is printed was stored.
LEMMA TextStored ==
  ASSUME NEW n \in Nat, NEW S, Unset \notin S, NEW b \in Buffers(n, S), NEW m \in 1..n,
         0..(m - 1) \subseteq DOMAIN b
  PROVE  /\ Len(Text(b, m)) \in 1..n
         /\ \A k \in DOMAIN Text(b, m) : Text(b, m)[k] # Unset
<1> DEFINE t == Text(b, m)
<1>1. t = [k \in 1..m |-> Cell(b, m - k)]
  BY DEF Text
<1>2. \A k \in 1..m : m - k \in 0..(m - 1)
  OBVIOUS
<1>3. \A k \in 1..m : Cell(b, m - k) \in S
  BY <1>2, CellStored
<1> DEFINE c == [k \in 1..m |-> Cell(b, m - k)]
<1>4. c \in [1..m -> S]
  BY <1>3
<1> HIDE DEF c
<1>5. Len(c) = m /\ DOMAIN c = 1..m /\ \A k \in 1..m : c[k] \in S
  BY <1>4
<1>6. t = c
  BY <1>1 DEF c
<1> HIDE DEF t
<1>7. Len(t) \in 1..n /\ \A k \in DOMAIN t : t[k] # Unset
  BY <1>5, <1>6
<1> QED BY <1>7 DEF t

\* 1303-1305: the digits at the bottom of the array move to its top, and stay digits
\* where they overwrite each other.
LEMMA RaisedBuffer ==
  ASSUME cfg.cbuf \in Nat, NEW S, S \subseteq 0..Unset, NEW b \in Buffers(cfg.cbuf, S),
         NEW k \in 0..cfg.cbuf, 0..(k - 1) \subseteq DOMAIN b
  PROVE  /\ Raised(b, k) \in Buffers(cfg.cbuf, S)
         /\ (cfg.cbuf - k)..(cfg.cbuf - 1) \subseteq DOMAIN Raised(b, k)
<1> DEFINE C == cfg.cbuf
           T == Buffers(C, 0..Unset)
           V(x, j) == Cell(x, k - j)
           A(j) == C - j
           E(x, j) == Put(x, A(j), V(x, j))
           Step == [j \in 1..k |-> [x \in T |-> E(x, j)]]
           F == CHOOSE f : f = [j \in 0..k |-> IF j = 0 THEN b ELSE E(f[j - 1], j)]
<1>0. k \in Nat /\ C \in Nat /\ k <= C /\ (k - 1) + 1 = k
  OBVIOUS
<1>1. ASSUME NEW U \in SUBSET (0..Unset), NEW x \in Buffers(C, U), NEW j \in 1..k,
             V(x, j) \in U
      PROVE  E(x, j) \in Buffers(C, U) /\ DOMAIN E(x, j) = DOMAIN x \cup {A(j)}
  <2> DEFINE i == C - j
             c == Cell(x, k - j)
  <2>1. i \in 0..(C - 1) /\ c \in U
    BY <1>0, <1>1
  <2> HIDE DEF i, c
  <2>2. Put(x, i, c) \in Buffers(C, U)
    BY <1>1, <2>1, PutBuffer
  <2>3. DOMAIN Put(x, i, c) = DOMAIN x \cup {i}
    BY PutDomain
  <2> QED BY <2>2, <2>3 DEF i, c
<1>2. ASSUME NEW x \in T, NEW j \in 1..k PROVE E(x, j) \in T
  <2>1. Cell(x, k - j) \in (0..Unset) \cup {Unset}
    BY CellAny
  <2>2. Cell(x, k - j) \in 0..Unset
    BY <2>1 DEF Unset
  <2> QED BY <1>1, <2>2
<1>3. Turns(Step, k, T)
  <2> HIDE DEF E, T
  <2> QED BY <1>2 DEF Turns
<1>4. b \in T
  BY BufferWider
<1>5. PICK f \in [0..k -> T] : f = [j \in 0..k |-> IF j = 0 THEN b ELSE Step[j][f[j - 1]]]
  <2> HIDE DEF Step, T
  <2> QED BY <1>0, <1>3, <1>4, Iteration
<1>6. f = [j \in 0..k |-> IF j = 0 THEN b ELSE E(f[j - 1], j)]
  <2>1. ASSUME NEW j \in 0..k
        PROVE  (IF j = 0 THEN b ELSE Step[j][f[j - 1]]) = (IF j = 0 THEN b ELSE E(f[j - 1], j))
    <3>1. j = 0 \/ (j \in 1..k /\ j - 1 \in 0..k)
      OBVIOUS
    <3>2. CASE j # 0
      <4>1. f[j - 1] \in T /\ j \in 1..k
        BY <3>1, <3>2
      <4> HIDE DEF E, T
      <4>2. Step[j][f[j - 1]] = E(f[j - 1], j)
        BY <4>1
      <4> QED BY <3>2, <4>2, Zenon
    <3> QED BY <3>2, Zenon
  <2> HIDE DEF Step, E, T
  <2> QED BY <1>5, <2>1
<1>7. F = [j \in 0..k |-> IF j = 0 THEN b ELSE E(F[j - 1], j)]
  <2> HIDE DEF E
  <2> QED BY <1>6
<1>8. Raised(b, k) = F[k]
  BY DEF Raised
<1>9. /\ F[0] = b
      /\ \A j \in 1..k : F[j] = E(F[j - 1], j)
  <2> HIDE DEF E, F
  <2>1. \A j \in 1..k : j \in 0..k /\ j # 0
    OBVIOUS
  <2> QED BY <1>7, <2>1
<1> HIDE DEF F
<1> DEFINE G == {j \in Nat : /\ F[j] \in Buffers(C, S) /\ DOMAIN b \subseteq DOMAIN F[j]
                             /\ (C - j)..(C - 1) \subseteq DOMAIN F[j]}
<1>10. 0 \in G
  <2>1. (C - 0)..(C - 1) = {}
    BY <1>0
  <2> QED BY <1>9, <2>1
<1>11. ASSUME NEW j \in 0..(k - 1), j \in G PROVE j + 1 \in G
  <2>1. /\ j + 1 \in 1..k /\ j + 1 \in Nat /\ (j + 1) - 1 = j
        /\ k - (j + 1) \in 0..(k - 1)
    OBVIOUS
  <2>2. /\ F[j] \in Buffers(C, S) /\ DOMAIN b \subseteq DOMAIN F[j]
        /\ (C - j)..(C - 1) \subseteq DOMAIN F[j]
    BY <1>11
  <2>3. k - (j + 1) \in DOMAIN F[j]
    BY <2>1, <2>2
  <2>4. Cell(F[j], k - (j + 1)) \in S
    BY <2>2, <2>3, CellStored
  <2>5. F[j + 1] = E(F[j], j + 1)
    <3>1. F[j + 1] = E(F[(j + 1) - 1], j + 1)
      <4> HIDE DEF E
      <4> QED BY <1>9, <2>1
    <3> QED BY <2>1, <3>1, Zenon
  <2>6. E(F[j], j + 1) \in Buffers(C, S) /\ DOMAIN E(F[j], j + 1) = DOMAIN F[j] \cup {C - (j + 1)}
    <3> DEFINE x == F[j]
               i == j + 1
    <3>1. S \in SUBSET (0..Unset) /\ x \in Buffers(C, S) /\ i \in 1..k /\ V(x, i) \in S
      BY <2>1, <2>2, <2>4
    <3> HIDE DEF x, i, E, V, A
    <3>2. E(x, i) \in Buffers(C, S)
      BY <1>1, <3>1
    <3>3. DOMAIN E(x, i) = DOMAIN x \cup {A(i)}
      BY PutDomain DEF E
    <3> QED BY <3>2, <3>3 DEF x, i, A
  <2> HIDE DEF E
  <2>7. (C - (j + 1))..(C - 1) \subseteq {C - (j + 1)} \cup (C - j)..(C - 1)
    BY <1>0
  <2> QED BY <2>1, <2>2, <2>5, <2>6, <2>7
<1>12. k \in G
  <2> HIDE DEF G
  <2>1. 0..k \subseteq G
    BY <1>0, <1>10, <1>11, InductionUpTo
  <2> QED BY <1>0, <2>1
<1> QED BY <1>8, <1>12

\* The layout: every store is of a character or of a cell that holds one, and none
\* leaves the array.
StoresInside(s, b, S) ==
  /\ s \in Seq([at: Int, from: Int, char: 0..Unset])
  /\ \A j \in 1..Len(s) : /\ s[j].at \in 0..(cfg.cbuf - 1)
                          /\ s[j].from < 0 => s[j].char \in S
                          /\ s[j].from >= 0 => s[j].from \in DOMAIN b

LEMMA StoredBuffer ==
  ASSUME cfg.cbuf \in Nat, NEW S, S \subseteq 0..Unset, NEW b \in Buffers(cfg.cbuf, S),
         NEW s, StoresInside(s, b, S)
  PROVE  /\ Stored(b, s) \in Buffers(cfg.cbuf, S)
         /\ \A j \in 1..Len(s) : s[j].at \in DOMAIN Stored(b, s)
<1> DEFINE C == cfg.cbuf
           n == Len(s)
           T == Buffers(C, 0..Unset)
           V(x, j) == IF s[j].from < 0 THEN s[j].char ELSE Cell(x, s[j].from)
           E(x, j) == Put(x, s[j].at, V(x, j))
           Step == [j \in 1..n |-> [x \in T |-> E(x, j)]]
           F == CHOOSE f : f = [j \in 0..n |-> IF j = 0 THEN b ELSE E(f[j - 1], j)]
<1>0. /\ n \in Nat
      /\ \A j \in 1..n : /\ s[j].at \in 0..(C - 1) /\ s[j].from \in Int
                         /\ s[j].char \in 0..Unset
                         /\ s[j].from < 0 => s[j].char \in S
                         /\ s[j].from >= 0 => s[j].from \in DOMAIN b
  <2>1. s \in Seq([at: Int, from: Int, char: 0..Unset])
    BY DEF StoresInside
  <2> DEFINE R == [at: Int, from: Int, char: 0..Unset]
  <2>a. s \in Seq(R)
    BY <2>1
  <2> HIDE DEF R
  <2>2. n \in Nat /\ \A j \in 1..n : s[j] \in R
    BY <2>a
  <2>3. \A j \in 1..n : s[j].from \in Int /\ s[j].char \in 0..Unset
    BY <2>2 DEF R
  <2> QED BY <2>2, <2>3 DEF StoresInside
<1>1. ASSUME NEW U \in SUBSET (0..Unset), NEW x \in Buffers(C, U), NEW j \in 1..n, V(x, j) \in U
      PROVE  E(x, j) \in Buffers(C, U) /\ DOMAIN E(x, j) = DOMAIN x \cup {s[j].at}
  <2> DEFINE i == s[j].at
             c == V(x, j)
  <2>1. i \in 0..(C - 1) /\ c \in U
    BY <1>0, <1>1
  <2> HIDE DEF i, c, V
  <2>2. Put(x, i, c) \in Buffers(C, U)
    BY <1>1, <2>1, PutBuffer
  <2>3. DOMAIN Put(x, i, c) = DOMAIN x \cup {i}
    BY PutDomain
  <2> QED BY <2>2, <2>3 DEF i, c
<1>2. ASSUME NEW x \in T, NEW j \in 1..n PROVE E(x, j) \in T
  <2>1. Cell(x, s[j].from) \in (0..Unset) \cup {Unset}
    BY CellAny
  <2>2. Cell(x, s[j].from) \in 0..Unset
    BY <2>1 DEF Unset
  <2>3. V(x, j) \in 0..Unset
    BY <1>0, <2>2
  <2> QED BY <1>1, <2>3
<1>3. Turns(Step, n, T)
  <2> HIDE DEF E, T
  <2> QED BY <1>2 DEF Turns
<1>4. b \in T
  BY BufferWider
<1>5. PICK f \in [0..n -> T] : f = [j \in 0..n |-> IF j = 0 THEN b ELSE Step[j][f[j - 1]]]
  <2> HIDE DEF Step, T
  <2> QED BY <1>0, <1>3, <1>4, Iteration
<1>6. f = [j \in 0..n |-> IF j = 0 THEN b ELSE E(f[j - 1], j)]
  <2>1. ASSUME NEW j \in 0..n
        PROVE  (IF j = 0 THEN b ELSE Step[j][f[j - 1]]) = (IF j = 0 THEN b ELSE E(f[j - 1], j))
    <3> HIDE DEF E, T
    <3>2. CASE j # 0
      <4>0. j \in 1..n /\ j - 1 \in 0..n
        BY <1>0, <3>2
      <4>1. f[j - 1] \in T
        BY <4>0
      <4>2. Step[j][f[j - 1]] = E(f[j - 1], j)
        BY <4>0, <4>1
      <4> QED BY <3>2, <4>2, Zenon
    <3> QED BY <3>2, Zenon
  <2> HIDE DEF Step, E, T
  <2> QED BY <1>5, <2>1
<1>7. F = [j \in 0..n |-> IF j = 0 THEN b ELSE E(F[j - 1], j)]
  <2> HIDE DEF E
  <2> QED BY <1>6
<1>8. Stored(b, s) = F[n]
  BY DEF Stored
<1>9. /\ F[0] = b
      /\ \A j \in 1..n : F[j] = E(F[j - 1], j)
  <2> HIDE DEF E, F
  <2>1. \A j \in 1..n : j \in 0..n /\ j # 0
    BY <1>0
  <2>2. 0 \in 0..n
    BY <1>0
  <2> QED BY <1>7, <2>1, <2>2
<1> HIDE DEF F, n
<1> DEFINE G == {j \in Nat : /\ F[j] \in Buffers(C, S) /\ DOMAIN b \subseteq DOMAIN F[j]
                             /\ \A i \in 1..j : s[i].at \in DOMAIN F[j]}
<1>10. 0 \in G
  BY <1>9
<1>11. ASSUME NEW j \in 0..(n - 1), j \in G PROVE j + 1 \in G
  <2>1. j + 1 \in 1..n /\ j + 1 \in Nat /\ (j + 1) - 1 = j /\ 1..(j + 1) = 1..j \cup {j + 1}
    BY <1>0
  <2>2. /\ F[j] \in Buffers(C, S) /\ DOMAIN b \subseteq DOMAIN F[j]
        /\ \A i \in 1..j : s[i].at \in DOMAIN F[j]
    BY <1>11
  <2>3. V(F[j], j + 1) \in S
    <3>1. CASE s[j + 1].from < 0
      BY <1>0, <2>1, <3>1
    <3>2. CASE ~(s[j + 1].from < 0)
      <4>1. s[j + 1].from \in DOMAIN F[j]
        BY <1>0, <2>1, <2>2, <3>2
      <4>2. Cell(F[j], s[j + 1].from) \in S
        BY <2>2, <4>1, CellStored
      <4> QED BY <3>2, <4>2
    <3> QED BY <3>1, <3>2
  <2>5. F[j + 1] = E(F[j], j + 1)
    <3>1. F[j + 1] = E(F[(j + 1) - 1], j + 1)
      <4> HIDE DEF E
      <4> QED BY <1>9, <2>1
    <3> QED BY <2>1, <3>1, Zenon
  <2>6. E(F[j], j + 1) \in Buffers(C, S) /\ DOMAIN E(F[j], j + 1) = DOMAIN F[j] \cup {s[j + 1].at}
    <3> HIDE DEF E, V
    <3> DEFINE x == F[j]
               i == j + 1
    <3>1. S \in SUBSET (0..Unset) /\ x \in Buffers(C, S) /\ i \in 1..n /\ V(x, i) \in S
      BY <2>1, <2>2, <2>3
    <3> HIDE DEF x, i
    <3>2. E(x, i) \in Buffers(C, S) /\ DOMAIN E(x, i) = DOMAIN x \cup {s[i].at}
      BY <1>1, <3>1, Zenon
    <3> QED BY <3>2 DEF x, i
  <2> HIDE DEF E
  <2> QED BY <2>1, <2>2, <2>5, <2>6
<1>12. n \in G
  <2> HIDE DEF G
  <2>1. 0..n \subseteq G
    BY <1>0, <1>10, <1>11, InductionUpTo
  <2> QED BY <1>0, <2>1
<1> QED BY <1>8, <1>12 DEF n

-----------------------------------------------------------------------------
(* The locals and the array, place by place.                                 *)

FusedBusy == {"FusedInteger", "FusedScaleInt", "FusedScaleFrac", "FusedEmit", "FusedTie",
              "FusedRound"}
Generated == {"ScaleFrac", "Emit", "Tail", "Significant", "Round", "Shortest", "Layout"}
SciBusy == {"Generate", "Integer", "ScaleInt"} \cup Generated
Places == {"FusedStart", "FusedDone", "Hex", "Start", "Done"} \cup FusedBusy \cup SciBusy

Widest == Len(Numeral[Range2 - 1])

\* The locals of scale, and the parameters.  No exponent is below that of the subnormals.
Scalars ==
  /\ man \in 0..(Range2 - 1) /\ carry \in {0, 1} /\ digit \in BOOLEAN
  /\ left \in Int /\ exp \in Int /\ -cfg.maxexp <= exp
  /\ fs \in Formats /\ real.exp <= 2 * cfg.maxexp - 1

Locals == dec \in Int /\ end \in Int /\ dec_f \in Int /\ nsig \in Int /\ tail \in BOOLEAN

\* 1052-1147: every cell is stored to from the point up while the integer is made, and
\* down to buf[0] as the decimals are.
FusedInv ==
  /\ pc \in FusedBusy \cup {"FusedStart", "FusedDone"} =>
       buf \in Buffers(cfg.cbuf, (0..9) \cup {Dot})
  /\ pc \in FusedBusy => fs.prec <= cfg.cbuf - 2
  /\ pc \in {"FusedInteger", "FusedScaleInt"} =>
       dec \in fs.prec..cfg.cbuf /\ fs.prec..(dec - 1) \subseteq DOMAIN buf
  /\ pc \in {"FusedScaleFrac", "FusedEmit", "FusedTie", "FusedRound"} =>
       end \in 1..cfg.cbuf /\ dec <= end
  /\ pc \in {"FusedEmit", "FusedTie", "FusedRound"} => 0 <= dec
  /\ pc \in {"FusedScaleFrac", "FusedEmit"} =>
       dec_f \in 0..fs.prec /\ dec_f..(end - 1) \subseteq DOMAIN buf
  /\ pc \in {"FusedTie", "FusedRound"} => 0..(end - 1) \subseteq DOMAIN buf

ModeOk ==
  /\ mode.prec \in Nat /\ mode.nsig_max \in 1..(cfg.cbuf - 1) /\ mode.dstop \in Int
  /\ mode.fmode \in BOOLEAN /\ mode.g \in BOOLEAN
  /\ mode.fmode => mode.nsig_max = cfg.cbuf - 1 /\ ~mode.g
  /\ ~mode.fmode => /\ mode.nsig_max <= cfg.cbuf - 7
                    /\ mode.g => mode.nsig_max = mode.prec
                    /\ ~mode.g => mode.nsig_max = mode.prec + 1

\* One more than the exponent of the first digit, which the generation of a digit keeps.
Magnitude == dec + (cfg.cbuf - end)

\* 1288-1460: the run of digits is right-aligned at the top of the array; a fixed layout
\* has one for the units, and the other no more than it asked for.
SciInv ==
  /\ pc \in SciBusy \cup {"Hex", "Start"} => buf \in Buffers(cfg.cbuf, 0..9)
  /\ pc \in SciBusy => ModeOk
  /\ pc = "Integer" => dec = 0 /\ exp <= cfg.maxexp
  /\ pc = "ScaleInt" => 0 <= dec /\ dec + left <= cfg.maxexp
  /\ pc \in Generated =>
       /\ end \in 0..cfg.cbuf /\ end..(cfg.cbuf - 1) \subseteq DOMAIN buf
       /\ mode.fmode => 1 <= Magnitude /\ end < cfg.cbuf
       /\ -(cfg.maxexp + 4) <= Magnitude /\ Magnitude <= cfg.maxexp + Widest + 1
  /\ pc \in {"ScaleFrac", "Emit", "Tail", "Significant", "Round"} =>
       Magnitude <= cfg.maxexp + Widest
  /\ pc = "ScaleFrac" => FirstLeft - left <= Magnitude
  /\ pc = "Emit" => Lowest < end
  /\ pc \in {"Round", "Shortest", "Layout"} =>
       /\ nsig = cfg.cbuf - end /\ 1 <= nsig
       /\ mode.fmode => -mode.prec <= dec
       /\ ~mode.fmode => nsig <= mode.nsig_max

Outcome(r) ==
  /\ r.kind \in {"none", "number", "ERR", "NAN", "INF"}
  /\ r.kind = "number" => /\ Len(r.text) \in 1..cfg.cbuf
                          /\ \A k \in DOMAIN r.text : r.text[k] # Unset

PlaceInv ==
  /\ pc \in Places /\ Locals /\ FusedInv /\ SciInv
  /\ pc = "Done" => buf \in Buffers(cfg.cbuf, 0..Minus)
  /\ Outcome(res) /\ Outcome(fused)
  /\ fs.conv = "a" => cfg.man % 4 = 0
  /\ pc = "Hex" => fs.conv = "a"

-----------------------------------------------------------------------------
(* The parameters.                                                           *)

LEMMA BuildFacts ==
  ASSUME Inputs
  PROVE  /\ cfg.cbuf \in Nat /\ cfg.cbuf >= 3 /\ cfg.man \in Nat /\ cfg.maxexp \in Nat \ {0}
         /\ cfg.reserve \in Nat /\ cfg.reserve <= cfg.cbuf /\ cfg.ftoa \in Nat
         /\ Range2 \in Nat /\ Range2 >= 256
         /\ Widest \in Nat \ {0} /\ (cfg.reserve > 0 => Widest <= cfg.reserve)
         /\ cfg.maxexp + Widest <= 9990
         /\ cfg.man % 4 = 0 => cfg.man \div 4 + 8 <= cfg.cbuf
<1>1. cfg \in Builds
  BY DEF Inputs
<1>2. /\ cfg.cbuf \in Nat /\ cfg.cbuf >= 3 /\ cfg.man \in Nat /\ cfg.maxexp \in Nat \ {0}
      /\ cfg.reserve \in Nat /\ cfg.ftoa \in Nat
  BY <1>1, BuildsAssumption
<1>3. Range2 \in Nat /\ Range2 >= 256
  BY <1>1, Widths
<1>4. /\ cfg.reserve <= cfg.cbuf /\ (cfg.reserve > 0 => Widest <= cfg.reserve)
      /\ cfg.maxexp + Widest <= 9990
      /\ cfg.man % 4 = 0 => cfg.man \div 4 + 8 <= cfg.cbuf
  BY <1>1, RoomAssumption DEF Widest, Range2
<1>5. Widest \in Nat \ {0}
  <2>1. Range2 - 1 \in Nat
    BY <1>3
  <2> QED BY <2>1, NumeralLen DEF Widest
<1> QED BY <1>2, <1>3, <1>4, <1>5

LEMMA FormatFacts ==
  ASSUME Scalars
  PROVE  fs.conv \in {"f", "e", "g", "a"} /\ fs.prec \in Nat /\ fs.alt \in BOOLEAN
  BY FormatsAssumption DEF Scalars

\* The numeral of an intermediate integer is no longer than that of the largest.
LEMMA WidestNumeral ==
  ASSUME Inputs, man \in 0..(Range2 - 1)
  PROVE  /\ man \in Nat /\ Numeral[man] \in Seq(0..9) /\ Len(Numeral[man]) \in Nat \ {0}
         /\ Len(Numeral[man]) <= Widest
<1>1. Range2 \in Nat /\ Range2 >= 256
  BY BuildFacts
<1>2. man \in Nat /\ Range2 - 1 \in Nat
  BY <1>1
<1>3. Len(Numeral[man]) <= Widest
  BY <1>2, NumeralGrows DEF Widest
<1> QED BY <1>2, <1>3, NumeralLen

\* What the places read of the parameters does not change.
LEMMA SameParameters ==
  ASSUME cfg' = cfg
  PROVE  Range2' = Range2 /\ Widest' = Widest
  BY DEF Range2, Widest

-----------------------------------------------------------------------------
(* The scaling.                                                              *)

LEMMA ExponentRange ==
  ASSUME Inputs, Scalars
  PROVE  Exponent \in Int /\ -cfg.maxexp <= Exponent /\ Exponent <= cfg.maxexp
<1>1. cfg.maxexp \in Nat \ {0} /\ real.exp \in Nat /\ real.exp <= 2 * cfg.maxexp - 1
  BY BuildFacts DEF Inputs, Scalars
<1> QED BY <1>1 DEF Exponent, Greater, ExpBias

LEMMA ModTyped ==
  ASSUME Inputs, NEW x \in Nat
  PROVE  x % Range2 \in 0..(Range2 - 1)
<1>1. Range2 \in Nat \ {0}
  BY BuildFacts
<1>2. x % Range2 \in Nat /\ x % Range2 < Range2
  BY <1>1, DivisionNat
<1> QED BY <1>1, <1>2

\* 1005-1012, 1258-1266: the integer's top bits and the exponent that is left.
LEMMA StartTyped ==
  ASSUME Inputs, Scalars, StartInteger, cfg' = cfg
  PROVE  /\ man' \in 0..(Range2 - 1) /\ carry' \in {0, 1}
         /\ exp' \in Int /\ -cfg.maxexp <= exp'
         /\ left' \in Nat /\ (exp <= cfg.maxexp => left' <= cfg.maxexp)
<1>1. /\ Bin \in Nat /\ cfg.man \in Nat /\ cfg.bin \in Nat /\ cfg.bin > cfg.man
      /\ cfg.ftoa \in Nat /\ cfg.ftoa >= 8 /\ cfg.maxexp \in Nat \ {0}
      /\ Range2 \in Nat /\ Range2 >= 256
  BY RealApart, BuildFacts, BuildsAssumption DEF Inputs
<1>2. exp \in Int /\ -cfg.maxexp <= exp /\ carry \in {0, 1}
  BY DEF Scalars
<1>3. CASE exp < 0
  <2>1. man' = 0 /\ left' = 0 /\ UNCHANGED <<exp, carry>>
    BY <1>2, <1>3 DEF StartInteger
  <2> QED BY <1>1, <1>2, <2>1
<1>4. CASE exp >= 0
  <2> DEFINE kept == Lesser(exp, ShiftBits)
             drop == cfg.man - kept
  <2>1. kept \in Nat /\ kept <= exp /\ drop \in Nat /\ drop <= cfg.bin
    BY <1>1, <1>2, <1>4 DEF Lesser, ShiftBits
  <2>2. /\ left' = exp - kept
        /\ exp' = (IF exp > kept THEN cfg.man ELSE exp)
        /\ \/ drop = 0 /\ man' = Bin % Range2 /\ UNCHANGED carry
           \/ /\ drop > 0
              /\ man' = (Bin \div Pow[drop]) % Range2
              /\ carry' = (Bin \div Pow[drop - 1]) % 2
    BY <1>2, <1>4 DEF StartInteger
  <2> HIDE DEF kept, drop
  <2>3. left' \in Nat /\ exp' \in Int /\ -cfg.maxexp <= exp' /\ (exp <= cfg.maxexp => left' <= cfg.maxexp)
    BY <1>1, <1>2, <1>4, <2>1, <2>2
  <2>4. CASE drop = 0 /\ man' = Bin % Range2 /\ UNCHANGED carry
    BY <1>1, <1>2, <2>3, <2>4, ModTyped
  <2>5. CASE /\ drop > 0
             /\ man' = (Bin \div Pow[drop]) % Range2
             /\ carry' = (Bin \div Pow[drop - 1]) % 2
    <3>1. drop \in Nat /\ drop - 1 \in Nat /\ drop - 1 <= cfg.bin
      BY <1>1, <2>1, <2>5
    <3>2. cfg \in Builds
      BY DEF Inputs
    <3>3. Pow[drop] \in Nat \ {0}
      BY <2>1, <3>1, <3>2, PowerReached
    <3>4. Pow[drop - 1] \in Nat \ {0}
      BY <3>1, <3>2, PowerReached
    <3>5. Bin \div Pow[drop] \in Nat /\ Bin \div Pow[drop - 1] \in Nat
      BY <1>1, <3>3, <3>4, DivisionNat
    <3>6. man' \in 0..(Range2 - 1)
      BY <2>5, <3>5, ModTyped
    <3>7. carry' \in {0, 1}
      BY <2>5, <3>5, HalfOf
    <3> QED BY <2>3, <3>6, <3>7
  <2> QED BY <2>2, <2>4, <2>5
<1> QED BY <1>2, <1>3, <1>4

\* 1013-1030, 1267-1281: a doubling, or a fifth.
LEMMA IntegerStepTyped ==
  ASSUME Inputs, Scalars, DoubleIt \/ TakeFifth
  PROVE  man' \in 0..(Range2 - 1) /\ carry' \in {0, 1}
<1>1. man \in Nat /\ man < Range2 /\ carry \in {0, 1} /\ Range2 \in Nat
  BY BuildFacts DEF Scalars
<1>2. CASE DoubleIt
  <2>1. man * 2 + carry \in Nat
    BY <1>1
  <2> QED BY <1>2, <2>1, ModTyped DEF DoubleIt
<1>3. CASE TakeFifth
  <2>1. Fifth(man) \in Nat /\ Fifth(man) <= man /\ Rest5(man) \in 0..4
    <3>1. man \div 5 \in Nat /\ man \div 5 <= man /\ man % 5 \in 0..4
      BY <1>1
    <3>2. man \div 10 \in Nat /\ man % 10 \in 0..9 /\ (man % 10) % 5 \in 0..4
      BY <1>1
    <3>3. /\ 2 * (man \div 10) + (IF man % 10 >= 5 THEN 1 ELSE 0) \in Nat
          /\ 2 * (man \div 10) + (IF man % 10 >= 5 THEN 1 ELSE 0) <= man
      <4> DEFINE q == man \div 10
                 r == man % 10
      <4>1. q \in Nat /\ r \in 0..9 /\ man = 10 * q + r
        BY <1>1, <3>2, DivisionNat
      <4> HIDE DEF q, r
      <4>2. 2 * q + (IF r >= 5 THEN 1 ELSE 0) \in Nat /\ 2 * q + (IF r >= 5 THEN 1 ELSE 0) <= man
        BY <4>1
      <4> QED BY <4>2 DEF q, r
    <3>4. CASE cfg.tenths
      BY <3>2, <3>3, <3>4, Zenon DEF Fifth, Rest5
    <3>5. CASE ~cfg.tenths
      BY <3>1, <3>5, Zenon DEF Fifth, Rest5
    <3> QED BY <3>4, <3>5
  <2>2. man' = Fifth(man) /\ carry' = (Rest5(man) + carry + 1) \div 4
    BY <1>3 DEF TakeFifth
  <2> DEFINE r == Rest5(man)
             f == Fifth(man)
  <2>3. r \in 0..4 /\ carry' = (r + carry + 1) \div 4 /\ f \in Nat /\ f <= man /\ man' = f
    BY <2>1, <2>2
  <2> HIDE DEF r, f
  <2>4. carry' \in {0, 1} /\ man' \in 0..(Range2 - 1)
    BY <1>1, <2>3
  <2> QED BY <2>4
<1> QED BY <1>2, <1>3

\* What Bounded says of the turns of the fraction.
LEMMA BoundedTyped ==
  ASSUME Inputs, Bounded
  PROVE  /\ man \in 0..(Range2 - 1) /\ carry \in {0, 1} /\ digit \in BOOLEAN /\ left \in Int
         /\ FirstLeft <= left /\ left <= 4
<1>1. TopNibble \in Nat /\ Range2 = 16 * TopNibble
  BY Widths DEF Inputs
<1>2. man \in Nat /\ man < 16 * TopNibble
  BY DEF Bounded
<1>3. man \in 0..(Range2 - 1)
  BY <1>1, <1>2
<1> QED BY <1>3 DEF Bounded

LEMMA NudgeTyped ==
  ASSUME Inputs, Scalars, GuardedNudge \/ man' = (man + carry) % Range2
  PROVE  man' \in 0..(Range2 - 1)
<1>1. man \in Nat /\ man < Range2 /\ carry \in {0, 1} /\ Range2 \in Nat
  BY BuildFacts DEF Scalars
<1>2. CASE GuardedNudge
  <2>1. man' = (IF man = Range2 - 1 THEN man ELSE man + carry)
    BY <1>2 DEF GuardedNudge
  <2> QED BY <1>1, <2>1
<1>3. CASE man' = (man + carry) % Range2
  <2>1. man + carry \in Nat
    BY <1>1
  <2> QED BY <1>3, <2>1, ModTyped
<1> QED BY <1>2, <1>3

LEMMA RestTyped ==
  ASSUME Inputs, Scalars, NEW k \in Nat, man' = (RestOf * k) % Range2
  PROVE  man' \in 0..(Range2 - 1)
<1>1. man \in Nat /\ TopNibble \in Nat \ {0}
  BY BuildFacts, Widths DEF Scalars, Inputs
<1>2. RestOf \in Nat
  BY <1>1, DivisionNat DEF RestOf
<1>3. RestOf * k \in Nat
  BY <1>2
<1> QED BY <1>3, ModTyped

-----------------------------------------------------------------------------
(* The locals of the scaling keep their types.                               *)

LEMMA ScalarsTo ==
  ASSUME Scalars, UNCHANGED <<cfg, real, fs>>,
         man' \in 0..(Range2 - 1), carry' \in {0, 1}, digit' \in BOOLEAN,
         left' \in Int, exp' \in Int, -cfg.maxexp <= exp'
  PROVE  Scalars'
<1>1. Range2' = Range2 /\ cfg' = cfg /\ fs' = fs /\ real' = real
  BY SameParameters
<1>2. man' \in 0..(Range2' - 1)
  BY <1>1
<1>3. fs' \in Formats /\ real'.exp <= 2 * cfg'.maxexp - 1 /\ -cfg'.maxexp <= exp'
  BY <1>1 DEF Scalars
<1> QED BY <1>2, <1>3, Zenon DEF Scalars

LEMMA ScalarsKept ==
  ASSUME Scalars, UNCHANGED <<cfg, real, fs, man, carry, left, digit, exp>>
  PROVE  Scalars'
<1>1. /\ man' \in 0..(Range2 - 1) /\ carry' \in {0, 1} /\ digit' \in BOOLEAN
      /\ left' \in Int /\ exp' \in Int /\ -cfg.maxexp <= exp'
  BY DEF Scalars
<1> QED BY <1>1, ScalarsTo

\* A fraction, started or a turn further.
LEMMA ScalarsFraction ==
  ASSUME Inputs, Scalars, UNCHANGED <<cfg, real, fs, exp>>,
         (HasFraction /\ StartFraction) \/ (Bounded /\ left < 4 /\ ScaleFraction)
  PROVE  Scalars'
<1>1. Bounded'
  BY StartBounded, StepBounded
<1>2. TopNibble' = TopNibble /\ TopNibble \in Nat /\ Range2 = 16 * TopNibble
  BY Widths DEF Inputs, TopNibble
<1>3. /\ man' \in Nat /\ man' < 16 * TopNibble' /\ carry' \in {0, 1} /\ digit' \in BOOLEAN
      /\ left' \in Int
  BY <1>1, Zenon DEF Bounded
<1>4. man' \in 0..(Range2 - 1)
  BY <1>2, <1>3
<1>5. exp' \in Int /\ -cfg.maxexp <= exp'
  BY DEF Scalars
<1> QED BY <1>3, <1>4, <1>5, ScalarsTo

LEMMA ScalarsFused ==
  ASSUME ScaleInv, Scalars, FusedNext
  PROVE  Scalars'
<1> USE DEF inputs, scale, place
<1>0. /\ Inputs /\ carry \in {0, 1} /\ digit \in BOOLEAN /\ left \in Int
      /\ exp \in Int /\ -cfg.maxexp <= exp /\ man \in 0..(Range2 - 1)
  BY DEF ScaleInv, Scalars
<1>1. ASSUME NEW kind, FusedLeave(kind) PROVE Scalars'
  BY <1>1, ScalarsKept DEF FusedLeave
<1>2. CASE FusedStart
  <2>1. \/ \E kind : FusedLeave(kind)
        \/ exp' = Exponent /\ carry' = 0 /\ UNCHANGED <<cfg, real, fs, man, left, digit>>
    BY <1>2, Zenon DEF FusedStart
  <2>2. CASE exp' = Exponent /\ carry' = 0 /\ UNCHANGED <<cfg, real, fs, man, left, digit>>
    BY <1>0, <2>2, ExponentRange, ScalarsTo
  <2> QED BY <1>1, <2>1, <2>2
<1>3. CASE FusedInteger
  <2>1. StartInteger /\ UNCHANGED <<cfg, real, fs, digit>>
    BY <1>3 DEF FusedInteger
  <2>2. /\ man' \in 0..(Range2 - 1) /\ carry' \in {0, 1} /\ exp' \in Int
        /\ -cfg.maxexp <= exp' /\ left' \in Int
    BY <1>0, <2>1, StartTyped
  <2> QED BY <1>0, <2>1, <2>2, ScalarsTo
<1>4. CASE FusedScaleInt
  <2>1. CASE FusedLeave("ERR")
    BY <1>1, <2>1
  <2>2. CASE /\ DoubleIt \/ TakeFifth
             /\ left' = left - 1 /\ UNCHANGED <<cfg, real, fs, exp, digit>>
    <3>1. man' \in 0..(Range2 - 1) /\ carry' \in {0, 1} /\ left' \in Int
      BY <1>0, <2>2, IntegerStepTyped
    <3> QED BY <1>0, <2>2, <3>1, ScalarsTo
  <2> QED BY <1>4, <2>1, <2>2 DEF FusedScaleInt
<1>5. CASE FusedIntDigits
  <2>1. CASE FusedLeave("ERR")
    BY <1>1, <2>1
  <2>2. CASE HasFraction /\ StartFraction /\ UNCHANGED <<cfg, real, fs, exp>>
    BY <1>0, <2>2, ScalarsFraction
  <2>3. CASE man' = 0 /\ UNCHANGED <<cfg, real, fs, exp, carry, left, digit>>
    <3>1. man' \in 0..(Range2 - 1)
      BY <1>0, <2>3, BuildFacts
    <3> QED BY <1>0, <2>3, <3>1, ScalarsTo
  <2> QED BY <1>5, <2>1, <2>2, <2>3 DEF FusedIntDigits
<1>6. CASE FusedScaleFrac
  <2>1. /\ left < 4 /\ ScaleFraction /\ UNCHANGED <<cfg, real, fs, exp>>
        /\ pc = "FusedScaleFrac"
    BY <1>6, Zenon DEF FusedScaleFrac, ScaleFraction
  <2>2. Bounded
    BY <2>1 DEF ScaleInv, Scaling
  <2> QED BY <1>0, <2>1, <2>2, ScalarsFraction
<1>7. CASE FusedNudge
  <2>1. /\ GuardedNudge /\ carry' = (IF left >= 0 THEN 1 ELSE 0)
        /\ UNCHANGED <<cfg, real, fs, exp, left, digit>>
    BY <1>7 DEF FusedNudge
  <2>2. man' \in 0..(Range2 - 1) /\ carry' \in {0, 1}
    BY <1>0, <2>1, NudgeTyped
  <2> QED BY <1>0, <2>1, <2>2, ScalarsTo
<1>8. CASE FusedEmit
  <2>1. /\ UNCHANGED <<cfg, real, fs, exp, carry, left, digit>>
        /\ man' = man \/ man' = (RestOf * 16) % Range2 \/ man' = (RestOf * 10) % Range2
    BY <1>8 DEF FusedEmit
  <2>2. man' \in 0..(Range2 - 1)
    <3>1. CASE man' = man
      BY <1>0, <3>1
    <3>2. CASE man' = (RestOf * 16) % Range2
      BY <1>0, <3>2, RestTyped
    <3>3. CASE man' = (RestOf * 10) % Range2
      BY <1>0, <3>3, RestTyped
    <3> QED BY <2>1, <3>1, <3>2, <3>3
  <2> QED BY <1>0, <2>1, <2>2, ScalarsTo
<1>9. CASE FusedTie
  <2>1. /\ UNCHANGED <<cfg, real, fs, exp, man, left, digit>>
        /\ carry' = carry \/ carry' = 0
    BY <1>9 DEF FusedTie
  <2> QED BY <1>0, <2>1, ScalarsTo
<1>10. CASE FusedRound
  <2>1. CASE FusedLeave("ERR")
    BY <1>1, <2>1
  <2>2. CASE /\ UNCHANGED <<cfg, real, fs, exp, man, left, digit>>
             /\ carry' = carry \/ carry' = 0
    BY <1>0, <2>2, ScalarsTo
  <2> QED BY <1>10, <2>1, <2>2 DEF FusedRound
<1>11. CASE FusedReturn
  BY <1>11, ScalarsKept DEF FusedReturn
<1> QED BY <1>2, <1>3, <1>4, <1>5, <1>6, <1>7, <1>8, <1>9, <1>10, <1>11 DEF FusedNext

LEMMA ScalarsSci ==
  ASSUME ScaleInv, Scalars, PlaceInv, SciNext
  PROVE  Scalars'
<1> USE DEF inputs, scale, place
<1>0. /\ Inputs /\ carry \in {0, 1} /\ digit \in BOOLEAN /\ left \in Int
      /\ exp \in Int /\ -cfg.maxexp <= exp /\ man \in 0..(Range2 - 1)
  BY DEF ScaleInv, Scalars
<1>1. ASSUME NEW kind, Leave(kind) PROVE Scalars'
  BY <1>1, ScalarsKept DEF Leave
<1>2. CASE Start
  <2>1. CASE UNCHANGED scale /\ UNCHANGED <<cfg, real, fs>>
    BY <2>1, ScalarsKept
  <2> QED BY <1>1, <1>2, <2>1 DEF Start
<1>3. CASE Generate
  <2>1. exp' = Exponent /\ carry' = 0 /\ UNCHANGED <<cfg, real, fs, man, left, digit>>
    BY <1>3 DEF Generate
  <2> QED BY <1>0, <2>1, ExponentRange, ScalarsTo
<1>4. CASE Integer
  <2>1. StartInteger /\ UNCHANGED <<cfg, real, fs, digit>>
    BY <1>4 DEF Integer
  <2>2. /\ man' \in 0..(Range2 - 1) /\ carry' \in {0, 1} /\ exp' \in Int
        /\ -cfg.maxexp <= exp' /\ left' \in Int
    BY <1>0, <2>1, StartTyped
  <2> QED BY <1>0, <2>1, <2>2, ScalarsTo
<1>5. CASE ScaleInt
  <2>1. /\ DoubleIt \/ TakeFifth
        /\ left' = left - 1 /\ UNCHANGED <<cfg, real, fs, exp, digit>>
    BY <1>5 DEF ScaleInt
  <2>2. man' \in 0..(Range2 - 1) /\ carry' \in {0, 1} /\ left' \in Int
    BY <1>0, <2>1, IntegerStepTyped
  <2> QED BY <1>0, <2>1, <2>2, ScalarsTo
<1>6. CASE IntDigits
  <2>1. CASE Leave("ERR")
    BY <1>1, <2>1
  <2>2. CASE HasFraction /\ StartFraction /\ UNCHANGED <<cfg, real, fs, exp>>
    BY <1>0, <2>2, ScalarsFraction
  <2>3. CASE UNCHANGED <<cfg, real, fs, exp, man, carry, left, digit>>
    BY <2>3, ScalarsKept
  <2>4. IntDigits => \/ Leave("ERR")
                     \/ HasFraction /\ StartFraction /\ UNCHANGED <<cfg, real, fs, exp>>
                     \/ UNCHANGED <<cfg, real, fs, exp, man, carry, left, digit>>
    BY DEF IntDigits
  <2> QED BY <1>6, <2>1, <2>2, <2>3, <2>4
<1>7. CASE ScaleFrac
  <2>1. /\ left < 4 /\ ScaleFraction /\ UNCHANGED <<cfg, real, fs, exp>>
        /\ pc = "ScaleFrac"
    BY <1>7, Zenon DEF ScaleFrac, ScaleFraction
  <2>2. Bounded
    BY <2>1 DEF ScaleInv, Scaling
  <2> QED BY <1>0, <2>1, <2>2, ScalarsFraction
<1>8. CASE Nudge
  <2>1. /\ man' = (man + carry) % Range2 /\ carry' = (IF left >= 0 THEN 1 ELSE 0)
        /\ UNCHANGED <<cfg, real, fs, exp, left, digit>>
    BY <1>8 DEF Nudge
  <2>2. man' \in 0..(Range2 - 1) /\ carry' \in {0, 1}
    BY <1>0, <2>1, NudgeTyped
  <2> QED BY <1>0, <2>1, <2>2, ScalarsTo
<1>9. CASE Emit
  <2>1. /\ UNCHANGED <<cfg, real, fs, exp, carry, left, digit>>
        /\ man' = (RestOf * 16) % Range2 \/ man' = (RestOf * 10) % Range2
    BY <1>9 DEF Emit
  <2>2. man' \in 0..(Range2 - 1)
    <3>2. CASE man' = (RestOf * 16) % Range2
      BY <1>0, <3>2, RestTyped
    <3>3. CASE man' = (RestOf * 10) % Range2
      BY <1>0, <3>3, RestTyped
    <3> QED BY <2>1, <3>2, <3>3
  <2> QED BY <1>0, <2>1, <2>2, ScalarsTo
<1>10. CASE Leftover
  <2>1. /\ UNCHANGED <<cfg, real, fs, exp, man, left, digit>>
        /\ carry' = carry \/ carry' = 0
    BY <1>10, Zenon DEF Leftover
  <2> QED BY <1>0, <2>1, ScalarsTo
<1>11. CASE Significant
  <2>1. UNCHANGED <<cfg, real, fs, exp, man, left, digit>>
    BY <1>11 DEF Significant
  <2>2. \/ carry' = 0 \/ carry' = carry \/ carry' = 1
        \/ \E k : carry' = Cell(buf, k) % 2
    BY <1>11, Zenon DEF Significant
  <2>3. ASSUME NEW k PROVE Cell(buf, k) % 2 \in {0, 1}
    <3>1. pc = "Significant"
      BY <1>11 DEF Significant
    <3>2. buf \in Buffers(cfg.cbuf, 0..9)
      BY <3>1 DEF PlaceInv, SciInv, SciBusy, Generated
    <3>3. Cell(buf, k) \in (0..9) \cup {Unset}
      BY <3>2, CellAny
    <3>4. Cell(buf, k) \in Nat
      BY <3>3 DEF Unset
    <3> QED BY <3>4, HalfOf
  <2>4. carry' \in {0, 1}
    BY <1>0, <2>2, <2>3
  <2> QED BY <1>0, <2>1, <2>4, ScalarsTo
<1>12. CASE Round \/ Shortest
  BY <1>12, ScalarsKept DEF Round, Shortest
<1>13. ASSUME NEW stores, NEW n, LayOut(stores, n) PROVE Scalars'
  BY <1>13, ScalarsKept DEF LayOut
<1>14. CASE LayFixed
  <2>1. Leave("ERR") \/ \E stores, n : LayOut(stores, n)
    BY <1>14, Zenon DEF LayFixed
  <2> QED BY <1>1, <1>13, <2>1
<1>15. CASE LaySci
  <2>1. \E stores, n : LayOut(stores, n)
    BY <1>15, Zenon DEF LaySci
  <2> QED BY <1>13, <2>1
<1> QED
  BY <1>2, <1>3, <1>4, <1>5, <1>6, <1>7, <1>8, <1>9, <1>10, <1>11, <1>12, <1>14, <1>15 DEF SciNext

LEMMA ScalarsInit == ASSUME Init PROVE Scalars
<1>1. /\ cfg \in Builds /\ fs \in Formats /\ exp = 0 /\ man = 0 /\ carry = 0 /\ left = 0
      /\ digit = FALSE /\ real.exp \in 0..(2 * cfg.maxexp - 1)
  BY DEF Init
<1>2. Inputs
  BY ScaleInvInit DEF ScaleInv
<1>3. Range2 \in Nat /\ Range2 >= 256 /\ cfg.maxexp \in Nat
  BY <1>2, BuildFacts
<1>4. /\ man \in 0..(Range2 - 1) /\ carry \in {0, 1} /\ left \in Int /\ exp \in Int
      /\ -cfg.maxexp <= exp
  BY <1>1, <1>3
<1>5. real.exp <= 2 * cfg.maxexp - 1
  BY <1>1, <1>3
<1>6. digit \in BOOLEAN
  BY <1>1
<1> QED BY <1>1, <1>4, <1>5, <1>6, Zenon DEF Scalars

LEMMA ScalarsNext ==
  ASSUME ScaleInv, Scalars, PlaceInv, [Next]_vars
  PROVE  Scalars'
<1>1. CASE Unified \/ Hex \/ UNCHANGED vars
  <2>1. UNCHANGED <<cfg, real, fs, man, carry, left, digit, exp>>
    BY <1>1 DEF Unified, Hex, vars, fusedVars, inputs, scale
  <2> QED BY <2>1, ScalarsKept
<1> QED BY <1>1, ScalarsFused, ScalarsSci DEF Next, Done

-----------------------------------------------------------------------------
(* The fused converter.                                                      *)

FusedCells == (0..9) \cup {Dot}

LEMMA FusedTo ==
  ASSUME PlaceInv, UNCHANGED <<cfg, fs, nsig, tail, fused>>,
         pc' \in FusedBusy \cup {"FusedDone"},
         dec' \in Int, end' \in Int, dec_f' \in Int, FusedInv', Outcome(res)'
  PROVE  PlaceInv'
<1>1. SciInv'
  BY DEF SciInv, SciBusy, Generated, FusedBusy
<1>2. pc' \in Places /\ pc' # "Done" /\ pc' # "Hex"
  BY DEF Places, FusedBusy
<1>3. Locals'
  BY DEF Locals, PlaceInv
<1>4. Outcome(fused)'
  BY DEF Outcome, PlaceInv
<1>5. (fs.conv = "a" => cfg.man % 4 = 0)'
  BY DEF PlaceInv
<1> QED BY <1>1, <1>2, <1>3, <1>4, <1>5, Zenon DEF PlaceInv

\* What an action that emits finds (1112, 1371).
LEMMA DecimalEmitted ==
  ASSUME ScaleInv, Emitting
  PROVE  NextDecimal \in 0..9
<1>1. TopNibble \in Nat \ {0} /\ man \in Nat /\ man < 10 * TopNibble
  BY Widths DEF ScaleInv, Inputs, Printable
<1>2. NextDecimal \in Nat
  BY <1>1, DivisionNat DEF NextDecimal
<1>3. NextDecimal <= 9
  BY PrintsDecimals DEF DigitsDecimal, Emitting
<1> QED BY <1>2, <1>3

\* What every action of it finds.
LEMMA FusedFinds ==
  ASSUME Inputs, Scalars, PlaceInv, pc \in FusedBusy \cup {"FusedStart"}
  PROVE  /\ cfg.cbuf \in Nat /\ cfg.cbuf >= 3 /\ fs.prec \in Nat
         /\ dec \in Int /\ end \in Int /\ dec_f \in Int
         /\ buf \in Buffers(cfg.cbuf, FusedCells)
<1>1. cfg.cbuf \in Nat /\ cfg.cbuf >= 3 /\ fs.prec \in Nat
  BY BuildFacts, FormatFacts
<1>2. dec \in Int /\ end \in Int /\ dec_f \in Int
  BY DEF PlaceInv, Locals
<1>3. buf \in Buffers(cfg.cbuf, FusedCells)
  BY Zenon DEF PlaceInv, FusedInv, FusedCells
<1> QED BY <1>1, <1>2, <1>3

LEMMA FusedLeaves ==
  ASSUME Inputs, Scalars, PlaceInv, pc \in FusedBusy \cup {"FusedStart"},
         NEW kind \in {"ERR", "NAN", "INF"}, FusedLeave(kind),
         UNCHANGED <<nsig, tail, fused>>
  PROVE  PlaceInv'
<1>1. /\ res' = [kind |-> kind, text |-> <<>>] /\ pc' = "FusedDone"
      /\ UNCHANGED <<cfg, fs, dec, end, buf, dec_f>>
  BY DEF FusedLeave, Special, inputs, place
<1>2. Outcome(res)'
  BY <1>1 DEF Outcome
<1>3. FusedInv'
  <2>1. buf' \in Buffers(cfg'.cbuf, FusedCells)
    BY <1>1, FusedFinds
  <2> QED BY <1>1, <2>1 DEF FusedInv, FusedBusy, FusedCells
<1>4. dec' \in Int /\ end' \in Int /\ dec_f' \in Int
  BY <1>1, FusedFinds
<1> QED BY <1>1, <1>2, <1>3, <1>4, FusedTo

LEMMA ResultKept ==
  ASSUME PlaceInv, UNCHANGED <<cfg, res>>
  PROVE  Outcome(res)'
  BY DEF Outcome, PlaceInv

LEMMA FusedStartPlaces ==
  ASSUME Inputs, Scalars, PlaceInv, FusedStart, UNCHANGED <<nsig, tail, fused>>
  PROVE  PlaceInv'
<1>0. pc = "FusedStart"
  BY DEF FusedStart
<1>1. /\ cfg.cbuf \in Nat /\ cfg.cbuf >= 3 /\ fs.prec \in Nat
      /\ dec \in Int /\ end \in Int /\ dec_f \in Int
      /\ buf \in Buffers(cfg.cbuf, FusedCells)
  BY <1>0, FusedFinds
<1>2. CASE FusedLeave(SpecialKind)
  <2>1. SpecialKind \in {"ERR", "NAN", "INF"}
    BY DEF SpecialKind
  <2> QED BY <1>0, <1>2, <2>1, FusedLeaves
<1>3. CASE FusedLeave("ERR")
  BY <1>0, <1>3, FusedLeaves
<1>4. CASE /\ fs.prec <= cfg.cbuf - 2
           /\ \/ buf' = Put(buf, fs.prec, Dot) /\ dec' = fs.prec + 1
              \/ fs.prec = 0 /\ dec' = 0 /\ UNCHANGED buf
           /\ pc' = "FusedInteger"
           /\ UNCHANGED <<inputs, end, dec_f, res>>
  <2>1. UNCHANGED <<cfg, fs, end, dec_f, res>> /\ pc' = "FusedInteger"
    BY <1>4 DEF inputs
  <2>2. /\ buf' \in Buffers(cfg.cbuf, FusedCells)
        /\ dec' \in fs.prec..cfg.cbuf /\ fs.prec..(dec' - 1) \subseteq DOMAIN buf'
    <3>1. CASE buf' = Put(buf, fs.prec, Dot) /\ dec' = fs.prec + 1
      <4>1. fs.prec \in 0..(cfg.cbuf - 1) /\ Dot \in FusedCells
        BY <1>1, <1>4 DEF FusedCells
      <4>2. buf' \in Buffers(cfg.cbuf, FusedCells)
        BY <1>1, <3>1, <4>1, PutBuffer
      <4>3. DOMAIN buf' = DOMAIN buf \cup {fs.prec}
        BY <3>1, PutDomain
      <4>4. dec' \in fs.prec..cfg.cbuf /\ fs.prec..(dec' - 1) \subseteq {fs.prec}
        BY <1>1, <1>4, <3>1
      <4> QED BY <4>2, <4>3, <4>4
    <3>2. CASE fs.prec = 0 /\ dec' = 0 /\ UNCHANGED buf
      <4>1. dec' \in fs.prec..cfg.cbuf /\ fs.prec..(dec' - 1) = {}
        BY <1>1, <3>2
      <4> QED BY <1>1, <3>2, <4>1
    <3> QED BY <1>4, <3>1, <3>2
  <2>3. FusedInv'
    BY <1>1, <1>4, <2>1, <2>2 DEF FusedInv, FusedBusy, FusedCells
  <2>4. dec' \in Int /\ end' \in Int /\ dec_f' \in Int /\ pc' \in FusedBusy
    BY <1>1, <2>1, <2>2 DEF FusedBusy
  <2> QED BY <2>1, <2>3, <2>4, FusedTo, ResultKept
<1> QED BY <1>2, <1>3, <1>4 DEF FusedStart

LEMMA FusedIntegerPlaces ==
  ASSUME Inputs, Scalars, PlaceInv, FusedInteger, UNCHANGED <<nsig, tail, fused>>
  PROVE  PlaceInv'
<1>1. /\ pc = "FusedInteger" /\ pc' = "FusedScaleInt"
      /\ UNCHANGED <<cfg, fs, dec, end, buf, dec_f, res>>
  BY DEF FusedInteger, inputs, place
<1>2. FusedInv
  BY DEF PlaceInv
<1>3. FusedInv'
  BY <1>1, <1>2 DEF FusedInv, FusedBusy
<1>4. dec' \in Int /\ end' \in Int /\ dec_f' \in Int /\ pc' \in FusedBusy
  BY <1>1 DEF FusedBusy, PlaceInv, Locals
<1> QED BY <1>1, <1>3, <1>4, FusedTo, ResultKept

LEMMA FusedScaleIntPlaces ==
  ASSUME Inputs, Scalars, PlaceInv, FusedScaleInt, UNCHANGED <<nsig, tail, fused>>
  PROVE  PlaceInv'
<1>0. pc = "FusedScaleInt" /\ pc \in FusedBusy
  BY DEF FusedScaleInt, FusedBusy
<1>1. /\ cfg.cbuf \in Nat /\ cfg.cbuf >= 3 /\ fs.prec \in Nat
      /\ dec \in Int /\ end \in Int /\ dec_f \in Int
      /\ buf \in Buffers(cfg.cbuf, FusedCells)
  BY <1>0, FusedFinds
<1>2. dec \in fs.prec..cfg.cbuf /\ fs.prec..(dec - 1) \subseteq DOMAIN buf /\ fs.prec <= cfg.cbuf - 2
  BY <1>0 DEF PlaceInv, FusedInv
<1>3. CASE FusedLeave("ERR")
  BY <1>0, <1>3, FusedLeaves
<1>4. CASE /\ \/ UNCHANGED place
              \/ dec < cfg.cbuf /\ buf' = Put(buf, dec, 0) /\ dec' = dec + 1 /\ UNCHANGED end
           /\ UNCHANGED <<inputs, pc, dec_f, res>>
  <2>1. UNCHANGED <<cfg, fs, end, dec_f, res, pc>>
    BY <1>4 DEF inputs, place
  <2>2. /\ buf' \in Buffers(cfg.cbuf, FusedCells)
        /\ dec' \in fs.prec..cfg.cbuf /\ fs.prec..(dec' - 1) \subseteq DOMAIN buf'
    <3>1. CASE dec < cfg.cbuf /\ buf' = Put(buf, dec, 0) /\ dec' = dec + 1
      <4>1. dec \in 0..(cfg.cbuf - 1) /\ 0 \in FusedCells
        BY <1>1, <1>2, <3>1 DEF FusedCells
      <4>2. buf' \in Buffers(cfg.cbuf, FusedCells)
        BY <1>1, <3>1, <4>1, PutBuffer
      <4>3. DOMAIN buf' = DOMAIN buf \cup {dec}
        BY <3>1, PutDomain
      <4>4. dec' \in fs.prec..cfg.cbuf /\ fs.prec..(dec' - 1) \subseteq fs.prec..(dec - 1) \cup {dec}
        BY <1>1, <1>2, <3>1
      <4> QED BY <1>2, <4>2, <4>3, <4>4
    <3>2. CASE UNCHANGED place
      BY <1>1, <1>2, <3>2 DEF place
    <3> QED BY <1>4, <3>1, <3>2
  <2>3. FusedInv'
    BY <1>0, <1>1, <1>2, <2>1, <2>2 DEF FusedInv, FusedBusy, FusedCells
  <2>4. dec' \in Int /\ end' \in Int /\ dec_f' \in Int /\ pc' \in FusedBusy
    BY <1>0, <1>1, <2>1, <2>2
  <2> QED BY <2>1, <2>3, <2>4, FusedTo, ResultKept
<1> QED BY <1>3, <1>4 DEF FusedScaleInt, place

\* 1045-1058: the reserve takes any number of the intermediate, or this one fits.
LEMMA FusedIntDigitsPlaces ==
  ASSUME Inputs, Scalars, PlaceInv, FusedIntDigits, UNCHANGED <<nsig, tail, fused>>
  PROVE  PlaceInv'
<1> DEFINE n == Numeral[man]
           l == Len(n)
<1>0. pc = "FusedScaleInt" /\ pc \in FusedBusy
  BY DEF FusedIntDigits, FusedBusy
<1>1. /\ cfg.cbuf \in Nat /\ cfg.cbuf >= 3 /\ fs.prec \in Nat
      /\ dec \in Int /\ end \in Int /\ dec_f \in Int
      /\ buf \in Buffers(cfg.cbuf, FusedCells)
  BY <1>0, FusedFinds
<1>2. dec \in fs.prec..cfg.cbuf /\ fs.prec..(dec - 1) \subseteq DOMAIN buf /\ fs.prec <= cfg.cbuf - 2
  BY <1>0 DEF PlaceInv, FusedInv
<1>3. CASE FusedLeave("ERR")
  BY <1>0, <1>3, FusedLeaves
<1>4. CASE /\ IntegerFits(n)
           /\ buf' = PutRun(buf, dec, n)
           /\ end' = dec + l
           /\ dec_f' = fs.prec
           /\ pc' \in {"FusedScaleFrac", "FusedEmit"}
           /\ UNCHANGED <<inputs, dec, res>>
  <2>1. /\ UNCHANGED <<cfg, fs, dec, res>> /\ dec_f' = fs.prec /\ end' = dec + l
        /\ pc' \in {"FusedScaleFrac", "FusedEmit"}
    BY <1>4 DEF inputs
  <2>2. n \in Seq(0..9) /\ l \in Nat \ {0} /\ l <= Widest
    BY WidestNumeral DEF Scalars
  <2>3. dec + l <= cfg.cbuf
    <3>1. Widest \in Nat /\ cfg.reserve \in Nat /\ (cfg.reserve > 0 => Widest <= cfg.reserve)
      BY BuildFacts
    <3>2. IF cfg.reserve > 0 THEN dec <= cfg.cbuf - cfg.reserve ELSE dec + l <= cfg.cbuf
      BY <1>4 DEF IntegerFits
    <3> HIDE DEF n, l
    <3> QED BY <1>1, <2>2, <3>1, <3>2
  <2> HIDE DEF n
  <2>4. n \in Seq(FusedCells)
    <3>1. 0..9 \subseteq FusedCells
      BY DEF FusedCells
    <3> QED BY <2>2, <3>1
  <2>5. dec \in Nat
    BY <1>1, <1>2
  <2>6. buf' \in Buffers(cfg.cbuf, FusedCells)
    <3>1. PutRun(buf, dec, n) \in Buffers(cfg.cbuf, FusedCells)
      BY <1>1, <2>3, <2>4, <2>5, PutRunBuffer
    <3> QED BY <1>4, <3>1
  <2>7. DOMAIN buf' = DOMAIN buf \cup dec..(dec + l - 1)
    BY <1>4, PutRunDomain
  <2> HIDE DEF l
  <2>8. /\ end' \in 1..cfg.cbuf /\ dec <= end'
        /\ fs.prec..(end' - 1) \subseteq fs.prec..(dec - 1) \cup dec..(dec + l - 1)
    BY <1>1, <1>2, <2>1, <2>2, <2>3, <2>5
  <2>9. dec_f' \in 0..fs.prec /\ dec_f'..(end' - 1) \subseteq DOMAIN buf'
    BY <1>1, <1>2, <2>1, <2>7, <2>8
  <2>10. FusedInv'
    <3>1. /\ cfg' = cfg /\ fs' = fs /\ dec' <= end' /\ 0 <= dec'
          /\ end' \in 1..cfg'.cbuf /\ dec_f' \in 0..fs'.prec /\ fs'.prec <= cfg'.cbuf - 2
          /\ dec_f'..(end' - 1) \subseteq DOMAIN buf' /\ buf' \in Buffers(cfg'.cbuf, FusedCells)
      BY <1>2, <2>1, <2>5, <2>6, <2>8, <2>9
    <3>2. pc' \notin {"FusedInteger", "FusedScaleInt", "FusedTie", "FusedRound"}
      BY <2>1
    <3> QED BY <3>1, <3>2, Zenon DEF FusedInv, FusedBusy, FusedCells
  <2>11. dec' \in Int /\ end' \in Int /\ dec_f' \in Int /\ pc' \in FusedBusy
    BY <1>1, <2>1, <2>8 DEF FusedBusy
  <2> QED BY <2>1, <2>10, <2>11, FusedTo, ResultKept
<1> QED BY <1>3, <1>4 DEF FusedIntDigits

LEMMA FusedScaleFracPlaces ==
  ASSUME Inputs, Scalars, PlaceInv, FusedScaleFrac, UNCHANGED <<nsig, tail, fused>>
  PROVE  PlaceInv'
<1>0. pc = "FusedScaleFrac" /\ pc \in FusedBusy
  BY DEF FusedScaleFrac, FusedBusy
<1>1. /\ cfg.cbuf \in Nat /\ cfg.cbuf >= 3 /\ fs.prec \in Nat
      /\ dec \in Int /\ end \in Int /\ dec_f \in Int
      /\ buf \in Buffers(cfg.cbuf, FusedCells)
  BY <1>0, FusedFinds
<1>2. /\ end \in 1..cfg.cbuf /\ dec <= end /\ dec_f \in 0..fs.prec
      /\ dec_f..(end - 1) \subseteq DOMAIN buf /\ fs.prec <= cfg.cbuf - 2
  BY <1>0 DEF PlaceInv, FusedInv
<1>3. /\ UNCHANGED <<cfg, fs, pc, dec, end, res>> /\ dec_f > 0
      /\ \/ buf' = Put(buf, dec_f - 1, 0) /\ dec_f' = dec_f - 1
         \/ UNCHANGED <<buf, dec_f>>
  BY DEF FusedScaleFrac, inputs
<1>4. /\ buf' \in Buffers(cfg.cbuf, FusedCells) /\ dec_f' \in 0..fs.prec
      /\ dec_f'..(end - 1) \subseteq DOMAIN buf'
  <2>1. CASE buf' = Put(buf, dec_f - 1, 0) /\ dec_f' = dec_f - 1
    <3>1. dec_f - 1 \in 0..(cfg.cbuf - 1) /\ 0 \in FusedCells
      BY <1>1, <1>2, <1>3 DEF FusedCells
    <3>2. buf' \in Buffers(cfg.cbuf, FusedCells)
      BY <1>1, <2>1, <3>1, PutBuffer
    <3>3. DOMAIN buf' = DOMAIN buf \cup {dec_f - 1}
      BY <2>1, PutDomain
    <3>4. /\ dec_f' \in 0..fs.prec
          /\ dec_f'..(end - 1) \subseteq dec_f..(end - 1) \cup {dec_f - 1}
      BY <1>1, <1>2, <1>3, <2>1
    <3> QED BY <1>2, <3>2, <3>3, <3>4
  <2> QED BY <1>1, <1>2, <1>3, <2>1
<1>5. FusedInv'
  BY <1>0, <1>2, <1>3, <1>4 DEF FusedInv, FusedBusy, FusedCells
<1>6. dec' \in Int /\ end' \in Int /\ dec_f' \in Int /\ pc' \in FusedBusy
  BY <1>0, <1>1, <1>3, <1>4
<1> QED BY <1>3, <1>5, <1>6, FusedTo, ResultKept

LEMMA FusedNudgePlaces ==
  ASSUME Inputs, Scalars, PlaceInv, FusedNudge, UNCHANGED <<nsig, tail, fused>>
  PROVE  PlaceInv'
<1>0. pc = "FusedScaleFrac" /\ pc \in FusedBusy
  BY DEF FusedNudge, FusedBusy
<1>1. /\ cfg.cbuf \in Nat /\ cfg.cbuf >= 3 /\ fs.prec \in Nat
      /\ dec \in Int /\ end \in Int /\ dec_f \in Int
      /\ buf \in Buffers(cfg.cbuf, FusedCells)
  BY <1>0, FusedFinds
<1>2. /\ end \in 1..cfg.cbuf /\ dec <= end /\ dec_f \in 0..fs.prec
      /\ dec_f..(end - 1) \subseteq DOMAIN buf /\ fs.prec <= cfg.cbuf - 2
  BY <1>0 DEF PlaceInv, FusedInv
<1>3. /\ UNCHANGED <<cfg, fs, end, buf, dec_f, res>> /\ dec' = 0
      /\ pc' = (IF dec_f > 0 THEN "FusedEmit" ELSE "FusedTie")
  BY DEF FusedNudge, inputs
<1>4. dec' <= end' /\ 0 <= dec' /\ dec' \in Int
  BY <1>1, <1>2, <1>3
<1>5. FusedInv'
  <2>1. CASE pc' = "FusedEmit"
    BY <1>1, <1>2, <1>3, <1>4, <2>1 DEF FusedInv, FusedBusy, FusedCells
  <2>2. CASE dec_f = 0 /\ pc' = "FusedTie"
    BY <1>1, <1>2, <1>3, <1>4, <2>2 DEF FusedInv, FusedBusy, FusedCells
  <2>3. dec_f = 0 \/ dec_f > 0
    BY <1>2
  <2> QED BY <1>3, <2>1, <2>2, <2>3
<1>6. dec' \in Int /\ end' \in Int /\ dec_f' \in Int /\ pc' \in FusedBusy
  BY <1>1, <1>3, <1>4 DEF FusedBusy
<1> QED BY <1>3, <1>5, <1>6, FusedTo, ResultKept

\* 1107-1118: what the top nibble yields is a digit.
LEMMA FusedEmitPlaces ==
  ASSUME ScaleInv, Scalars, PlaceInv, FusedEmit, UNCHANGED <<nsig, tail, fused>>
  PROVE  PlaceInv'
<1>0. pc = "FusedEmit" /\ pc \in FusedBusy
  BY DEF FusedEmit, FusedBusy
<1>1. /\ cfg.cbuf \in Nat /\ cfg.cbuf >= 3 /\ fs.prec \in Nat
      /\ dec \in Int /\ end \in Int /\ dec_f \in Int
      /\ buf \in Buffers(cfg.cbuf, FusedCells)
  BY <1>0, FusedFinds DEF ScaleInv
<1>2. /\ end \in 1..cfg.cbuf /\ dec <= end /\ 0 <= dec /\ dec_f \in 0..fs.prec
      /\ dec_f..(end - 1) \subseteq DOMAIN buf /\ fs.prec <= cfg.cbuf - 2
  BY <1>0 DEF PlaceInv, FusedInv
<1>3. /\ UNCHANGED <<cfg, fs, dec, end, res>>
      /\ \/ dec_f = 0 /\ pc' = "FusedTie" /\ UNCHANGED <<buf, dec_f>>
         \/ /\ dec_f > 0 /\ buf' = Put(buf, dec_f - 1, NextDecimal) /\ dec_f' = dec_f - 1
            /\ (dec_f = 1 /\ pc' = "FusedTie") \/ UNCHANGED pc
  BY DEF FusedEmit, inputs
<1>4. /\ buf' \in Buffers(cfg.cbuf, FusedCells) /\ dec_f' \in 0..fs.prec
      /\ dec_f'..(end - 1) \subseteq DOMAIN buf'
      /\ pc' = "FusedEmit" \/ (pc' = "FusedTie" /\ dec_f' = 0)
  <2>1. CASE /\ dec_f > 0 /\ buf' = Put(buf, dec_f - 1, NextDecimal) /\ dec_f' = dec_f - 1
             /\ (dec_f = 1 /\ pc' = "FusedTie") \/ UNCHANGED pc
    <3>1. dec_f - 1 \in 0..(cfg.cbuf - 1)
      BY <1>1, <1>2, <2>1
    <3>2. NextDecimal \in FusedCells
      BY <1>0, DecimalEmitted DEF FusedCells, Emitting
    <3>3. buf' \in Buffers(cfg.cbuf, FusedCells)
      BY <1>1, <2>1, <3>1, <3>2, PutBuffer
    <3>4. DOMAIN buf' = DOMAIN buf \cup {dec_f - 1}
      BY <2>1, PutDomain
    <3>5. /\ dec_f' \in 0..fs.prec
          /\ dec_f'..(end - 1) \subseteq dec_f..(end - 1) \cup {dec_f - 1}
      BY <1>1, <1>2, <2>1
    <3>6. pc' = "FusedEmit" \/ (pc' = "FusedTie" /\ dec_f' = 0)
      <4>1. dec_f' = dec_f - 1 /\ ((dec_f = 1 /\ pc' = "FusedTie") \/ pc' = pc)
        BY <2>1, Zenon
      <4>2. dec_f = 1 => dec_f' = 0
        BY <1>1, <4>1
      <4> QED BY <1>0, <4>1, <4>2, Zenon
    <3> QED BY <1>2, <3>3, <3>4, <3>5, <3>6
  <2> QED BY <1>1, <1>2, <1>3, <2>1
<1>5. FusedInv'
  <2>1. CASE pc' = "FusedEmit"
    BY <1>1, <1>2, <1>3, <1>4, <2>1 DEF FusedInv, FusedBusy, FusedCells
  <2>2. CASE pc' = "FusedTie" /\ dec_f' = 0
    BY <1>1, <1>2, <1>3, <1>4, <2>2 DEF FusedInv, FusedBusy, FusedCells
  <2> QED BY <1>4, <2>1, <2>2
<1>6. dec' \in Int /\ end' \in Int /\ dec_f' \in Int /\ pc' \in FusedBusy
  BY <1>1, <1>3, <1>4 DEF FusedBusy
<1> QED BY <1>3, <1>5, <1>6, FusedTo, ResultKept

LEMMA FusedTiePlaces ==
  ASSUME Inputs, Scalars, PlaceInv, FusedTie, UNCHANGED <<nsig, tail, fused>>
  PROVE  PlaceInv'
<1>1. /\ pc = "FusedTie" /\ pc' = "FusedRound"
      /\ UNCHANGED <<cfg, fs, dec, end, buf, dec_f, res>>
  BY DEF FusedTie, inputs, place
<1>2. FusedInv
  BY DEF PlaceInv
<1>3. FusedInv'
  BY <1>1, <1>2 DEF FusedInv, FusedBusy
<1>4. dec' \in Int /\ end' \in Int /\ dec_f' \in Int /\ pc' \in FusedBusy
  BY <1>1 DEF FusedBusy, PlaceInv, Locals
<1> QED BY <1>1, <1>3, <1>4, FusedTo, ResultKept

\* 1131-1145: the carry moves up the digits, and to a cell past them where there is one.
LEMMA FusedRoundPlaces ==
  ASSUME Inputs, Scalars, PlaceInv, FusedRound, UNCHANGED <<nsig, tail, fused>>
  PROVE  PlaceInv'
<1> DEFINE b == IF dec >= end THEN Put(buf, dec, 0) ELSE buf
           c == Cell(b, dec)
<1>0. pc = "FusedRound" /\ pc \in FusedBusy
  BY DEF FusedRound, FusedBusy
<1>1. /\ cfg.cbuf \in Nat /\ cfg.cbuf >= 3 /\ fs.prec \in Nat
      /\ dec \in Int /\ end \in Int /\ dec_f \in Int
      /\ buf \in Buffers(cfg.cbuf, FusedCells)
  BY <1>0, FusedFinds
<1>2. /\ end \in 1..cfg.cbuf /\ dec <= end /\ 0 <= dec
      /\ 0..(end - 1) \subseteq DOMAIN buf /\ fs.prec <= cfg.cbuf - 2
  BY <1>0 DEF PlaceInv, FusedInv
<1>3. CASE FusedLeave("ERR")
  BY <1>0, <1>3, FusedLeaves
<1>4. CASE /\ ~NoRoomToRound
           /\ end' = Greater(end, dec + 1)
           /\ \/ c = Dot /\ buf' = b
              \/ c = 9 /\ buf' = Put(b, dec, 0)
              \/ c \notin {Dot, 9} /\ buf' = Put(b, dec, c + 1)
           /\ dec' = dec + 1
           /\ UNCHANGED <<inputs, pc, dec_f, res>>
  <2>1. UNCHANGED <<cfg, fs, pc, dec_f, res>> /\ dec' = dec + 1 /\ end' = Greater(end, dec + 1)
    BY <1>4 DEF inputs
  <2>2. dec \in 0..(cfg.cbuf - 1)
    BY <1>1, <1>2, <1>4 DEF NoRoomToRound
  <2>3. /\ b \in Buffers(cfg.cbuf, FusedCells)
        /\ DOMAIN b = DOMAIN buf \cup {dec}
    <3>1. CASE dec >= end
      <4>1. b = Put(buf, dec, 0) /\ 0 \in FusedCells
        BY <3>1 DEF FusedCells
      <4> QED BY <1>1, <2>2, <4>1, PutBuffer, PutDomain
    <3>2. CASE ~(dec >= end)
      <4>1. b = buf
        BY <3>2
      <4>2. dec \in 0..(end - 1)
        BY <1>1, <1>2, <3>2
      <4> QED BY <1>1, <1>2, <4>1, <4>2
    <3> QED BY <3>1, <3>2
  <2> HIDE DEF b
  <2>4. c \in FusedCells
    BY <2>3, CellStored
  <2> HIDE DEF c
  <2>5. buf' \in Buffers(cfg.cbuf, FusedCells) /\ DOMAIN buf' = DOMAIN buf \cup {dec}
    <3>1. CASE buf' = b
      BY <2>3, <3>1
    <3>2. ASSUME NEW x \in FusedCells, buf' = Put(b, dec, x)
          PROVE  buf' \in Buffers(cfg.cbuf, FusedCells) /\ DOMAIN buf' = DOMAIN buf \cup {dec}
      <4>1. buf' \in Buffers(cfg.cbuf, FusedCells)
        BY <1>1, <2>2, <2>3, <3>2, PutBuffer
      <4>2. DOMAIN buf' = DOMAIN b \cup {dec}
        BY <3>2, PutDomain
      <4> QED BY <2>3, <4>1, <4>2
    <3>3. 0 \in FusedCells /\ (c \notin {Dot, 9} => c + 1 \in FusedCells)
      BY <2>4 DEF FusedCells, Dot
    <3>4. \/ buf' = b \/ buf' = Put(b, dec, 0)
          \/ c \notin {Dot, 9} /\ buf' = Put(b, dec, c + 1)
      BY <1>4, Zenon DEF c
    <3>5. buf' = b \/ \E x \in FusedCells : buf' = Put(b, dec, x)
      BY <3>3, <3>4, Zenon
    <3> QED BY <3>1, <3>2, <3>5, Zenon
  <2>6. /\ end' \in 1..cfg.cbuf /\ dec' <= end' /\ 0 <= dec'
        /\ 0..(end' - 1) \subseteq 0..(end - 1) \cup {dec}
    BY <1>1, <1>2, <2>1, <2>2 DEF Greater
  <2>7. 0..(end' - 1) \subseteq DOMAIN buf'
    BY <1>2, <2>5, <2>6, Zenon
  <2>8. FusedInv'
    <3>1. /\ cfg' = cfg /\ fs' = fs /\ fs'.prec <= cfg'.cbuf - 2
          /\ end' \in 1..cfg'.cbuf /\ buf' \in Buffers(cfg'.cbuf, FusedCells)
          /\ pc' = "FusedRound"
      BY <1>0, <1>2, <2>1, <2>5, <2>6
    <3>2. pc' \notin {"FusedInteger", "FusedScaleInt", "FusedScaleFrac", "FusedEmit"}
      BY <3>1
    <3> QED BY <2>6, <2>7, <3>1, <3>2, Zenon DEF FusedInv, FusedBusy, FusedCells
  <2>9. dec' \in Int /\ end' \in Int /\ dec_f' \in Int /\ pc' \in FusedBusy
    <3>1. end' \in Int
      <4> DEFINE e == end'
      <4>1. e \in 1..cfg.cbuf
        BY <2>6, Zenon
      <4> HIDE DEF e
      <4>2. e \in Int
        BY <1>1, <4>1
      <4> QED BY <4>2 DEF e
    <3> QED BY <1>0, <1>1, <2>1, <3>1
  <2> QED BY <2>1, <2>8, <2>9, FusedTo, ResultKept
<1> QED BY <1>3, <1>4 DEF FusedRound

LEMMA FusedReturnPlaces ==
  ASSUME Inputs, Scalars, PlaceInv, FusedReturn, UNCHANGED <<nsig, tail, fused>>
  PROVE  PlaceInv'
<1>0. pc = "FusedRound" /\ pc \in FusedBusy
  BY DEF FusedReturn, FusedBusy
<1>1. /\ cfg.cbuf \in Nat /\ dec \in Int /\ end \in Int /\ dec_f \in Int
      /\ buf \in Buffers(cfg.cbuf, FusedCells)
  BY <1>0, FusedFinds
<1>2. end \in 1..cfg.cbuf /\ 0..(end - 1) \subseteq DOMAIN buf
  BY <1>0 DEF PlaceInv, FusedInv
<1>3. /\ res' = [kind |-> "number", text |-> Text(buf, end)] /\ pc' = "FusedDone"
      /\ UNCHANGED <<cfg, fs, dec, end, buf, dec_f>>
  BY DEF FusedReturn, inputs, place
<1>4. Unset \notin FusedCells
  BY DEF FusedCells, Unset, Dot
<1>5. /\ Len(Text(buf, end)) \in 1..cfg.cbuf
      /\ \A k \in DOMAIN Text(buf, end) : Text(buf, end)[k] # Unset
  BY <1>1, <1>2, <1>4, TextStored
<1> DEFINE t == Text(buf, end)
<1>6. Outcome(res)'
  <2>1. res' = [kind |-> "number", text |-> t] /\ cfg' = cfg
    BY <1>3
  <2>2. Len(t) \in 1..cfg.cbuf /\ \A k \in DOMAIN t : t[k] # Unset
    BY <1>5
  <2> HIDE DEF t
  <2> QED BY <2>1, <2>2 DEF Outcome
<1>7. FusedInv'
  <2>1. buf' \in Buffers(cfg'.cbuf, FusedCells)
    BY <1>1, <1>3
  <2> QED BY <1>3, <2>1 DEF FusedInv, FusedBusy, FusedCells
<1>8. dec' \in Int /\ end' \in Int /\ dec_f' \in Int
  BY <1>1, <1>3
<1> QED BY <1>3, <1>6, <1>7, <1>8, FusedTo

LEMMA FusedPlaces ==
  ASSUME ScaleInv, Scalars, PlaceInv, FusedNext, UNCHANGED <<mode, nsig, tail, run, fused>>
  PROVE  PlaceInv'
<1>1. Inputs /\ UNCHANGED <<nsig, tail, fused>>
  BY DEF ScaleInv
<1> QED
  BY <1>1, FusedStartPlaces, FusedIntegerPlaces, FusedScaleIntPlaces, FusedIntDigitsPlaces,
     FusedScaleFracPlaces, FusedNudgePlaces, FusedEmitPlaces, FusedTiePlaces,
     FusedRoundPlaces, FusedReturnPlaces, Zenon
  DEF FusedNext

-----------------------------------------------------------------------------
(* The shared converter.                                                     *)

SciCells == 0..9

LEMMA SciTo ==
  ASSUME PlaceInv, UNCHANGED <<cfg, fs, dec_f, fused>>,
         pc' \in SciBusy \cup {"Done"},
         dec' \in Int, end' \in Int, nsig' \in Int, tail' \in BOOLEAN,
         SciInv', Outcome(res)', pc' = "Done" => buf' \in Buffers(cfg.cbuf, 0..Minus)
  PROVE  PlaceInv'
<1>1. FusedInv'
  <2>1. /\ pc' \notin FusedBusy \cup {"FusedStart", "FusedDone"}
        /\ pc' \notin {"FusedInteger", "FusedScaleInt"}
        /\ pc' \notin {"FusedScaleFrac", "FusedEmit", "FusedTie", "FusedRound"}
        /\ pc' \notin {"FusedEmit", "FusedTie", "FusedRound"}
        /\ pc' \notin {"FusedScaleFrac", "FusedEmit"} /\ pc' \notin {"FusedTie", "FusedRound"}
    BY DEF SciBusy, Generated, FusedBusy
  <2>2. pc' \notin FusedBusy
    BY <2>1
  <2> QED BY <2>1, <2>2, Zenon DEF FusedInv
<1>2. pc' \in Places /\ pc' # "Hex"
  BY DEF Places, SciBusy, Generated
<1>3. Locals'
  BY DEF Locals, PlaceInv
<1>4. Outcome(fused)'
  BY DEF Outcome, PlaceInv
<1>5. (fs.conv = "a" => cfg.man % 4 = 0)'
  BY DEF PlaceInv
<1>6. (pc = "Done" => buf \in Buffers(cfg.cbuf, 0..Minus))'
  OBVIOUS
<1> QED BY <1>1, <1>2, <1>3, <1>4, <1>5, <1>6, Zenon DEF PlaceInv

\* What every action of it finds.
LEMMA SciFinds ==
  ASSUME Inputs, Scalars, PlaceInv, pc \in SciBusy \cup {"Start"}
  PROVE  /\ cfg.cbuf \in Nat /\ cfg.cbuf >= 3 /\ cfg.maxexp \in Nat \ {0} /\ Widest \in Nat \ {0}
         /\ fs.prec \in Nat /\ dec \in Int /\ end \in Int /\ nsig \in Int /\ tail \in BOOLEAN
         /\ buf \in Buffers(cfg.cbuf, SciCells)
<1>1. /\ cfg.cbuf \in Nat /\ cfg.cbuf >= 3 /\ cfg.maxexp \in Nat \ {0} /\ Widest \in Nat \ {0}
      /\ fs.prec \in Nat
  BY BuildFacts, FormatFacts
<1>2. dec \in Int /\ end \in Int /\ nsig \in Int /\ tail \in BOOLEAN
  BY DEF PlaceInv, Locals
<1>3. buf \in Buffers(cfg.cbuf, SciCells)
  BY Zenon DEF PlaceInv, SciInv, SciCells
<1> QED BY <1>1, <1>2, <1>3

LEMMA ModeFinds ==
  ASSUME Inputs, ModeOk
  PROVE  /\ mode.prec \in Nat /\ mode.nsig_max \in 1..(cfg.cbuf - 1) /\ mode.dstop \in Int
         /\ mode.fmode \in BOOLEAN /\ mode.g \in BOOLEAN
         /\ Lowest \in Nat /\ Lowest < cfg.cbuf - 1
<1>1. cfg.cbuf \in Nat
  BY BuildFacts
<1>2. mode.nsig_max \in 1..(cfg.cbuf - 1)
  BY DEF ModeOk
<1>3. Lowest \in Nat /\ Lowest < cfg.cbuf - 1
  BY <1>1, <1>2 DEF Lowest
<1> QED BY <1>3 DEF ModeOk

LEMMA ModeKept ==
  ASSUME ModeOk, UNCHANGED <<cfg, mode>>
  PROVE  ModeOk'
  BY Zenon DEF ModeOk

LEMMA SciLeaves ==
  ASSUME Inputs, Scalars, PlaceInv, pc \in SciBusy \cup {"Start"},
         NEW kind \in {"ERR", "NAN", "INF"}, Leave(kind), UNCHANGED <<dec_f, fused>>
  PROVE  PlaceInv'
<1>1. /\ res' = [kind |-> kind, text |-> <<>>] /\ pc' = "Done"
      /\ UNCHANGED <<cfg, fs, dec, end, buf, nsig, tail>>
  BY DEF Leave, Special, inputs, place
<1>2. Outcome(res)'
  BY <1>1 DEF Outcome
<1>3. SciInv'
  BY <1>1 DEF SciInv, SciBusy, Generated
<1>4. buf' \in Buffers(cfg.cbuf, 0..Minus)
  <2>1. SciCells \subseteq 0..Minus
    BY DEF SciCells, Minus
  <2>2. buf \in Buffers(cfg.cbuf, 0..Minus)
    BY <2>1, SciFinds, BufferWider
  <2> QED BY <1>1, <2>2
<1>5. dec' \in Int /\ end' \in Int /\ nsig' \in Int /\ tail' \in BOOLEAN
  BY <1>1, SciFinds
<1> QED BY <1>1, <1>2, <1>3, <1>4, <1>5, SciTo

\* 1227-1245: the modes.
LEMMA ModeSet ==
  ASSUME Inputs, Scalars, NEW p \in Nat, mode' = FixedMode(p), cfg' = cfg
  PROVE  ModeOk'
<1>1. cfg.cbuf \in Nat /\ cfg.cbuf >= 3
  BY BuildFacts
<1> DEFINE d == -p - 1
           n == cfg.cbuf - 1
<1>2. d \in Int /\ n \in 1..(cfg.cbuf - 1)
  BY <1>1
<1>3. mode' = [prec |-> p, nsig_max |-> n, dstop |-> d, fmode |-> TRUE, g |-> FALSE]
  BY DEF FixedMode
<1> HIDE DEF d
<1>4. /\ mode'.prec \in Nat /\ mode'.dstop \in Int /\ mode'.nsig_max = cfg'.cbuf - 1
      /\ mode'.fmode = TRUE /\ mode'.g = FALSE /\ mode'.nsig_max \in 1..(cfg'.cbuf - 1)
  BY <1>2, <1>3
<1> QED BY <1>4, Zenon DEF ModeOk

LEMMA StartPlaces ==
  ASSUME Inputs, Scalars, PlaceInv, Start, UNCHANGED <<dec_f, fused>>
  PROVE  PlaceInv'
<1>0. pc = "Start"
  BY DEF Start
<1>1. /\ cfg.cbuf \in Nat /\ cfg.cbuf >= 3 /\ fs.prec \in Nat
      /\ dec \in Int /\ end \in Int /\ nsig \in Int /\ tail \in BOOLEAN
      /\ buf \in Buffers(cfg.cbuf, SciCells)
  BY <1>0, SciFinds
<1>2. CASE Leave(SpecialKind)
  <2>1. SpecialKind \in {"ERR", "NAN", "INF"}
    BY DEF SpecialKind
  <2> QED BY <1>0, <1>2, <2>1, SciLeaves
<1>3. CASE Leave("ERR")
  BY <1>0, <1>3, SciLeaves
<1>4. CASE /\ PrecisionFits /\ mode' = ModeOf /\ pc' = "Generate"
           /\ UNCHANGED <<inputs, place, nsig, tail, res>>
  <2>1. UNCHANGED <<cfg, fs, dec, end, buf, nsig, tail, res>> /\ pc' = "Generate"
    BY <1>4 DEF inputs, place
  <2>2. ModeOk'
    <3> DEFINE p == IF fs.conv = "g" /\ fs.prec = 0 THEN 1 ELSE fs.prec
    <3>1. p \in Nat /\ (fs.conv = "g" => p >= 1)
      BY <1>1
    <3>2. CASE fs.conv \notin {"e", "g"}
      <4>1. mode' = FixedMode(p)
        BY <1>4, <3>2 DEF ModeOf
      <4> HIDE DEF p
      <4> QED BY <2>1, <3>1, <4>1, ModeSet
    <3>3. CASE fs.conv \in {"e", "g"}
      <4> DEFINE n == IF fs.conv = "g" THEN p ELSE p + 1
                 g == fs.conv = "g"
      <4>1. mode' = [prec |-> p, nsig_max |-> n, dstop |-> Never, fmode |-> FALSE, g |-> g]
        BY <1>4, <3>3, Zenon DEF ModeOf
      <4>2. n \in Nat \ {0} /\ (g => n = p) /\ (~g => n = p + 1) /\ g \in BOOLEAN
        BY <3>1
      <4> HIDE DEF p, n, g
      <4>3. n <= cfg.cbuf - 7
        <5>1. mode'.fmode = FALSE /\ mode'.nsig_max = n
          BY <4>1
        <5> QED BY <1>4, <5>1, Zenon DEF PrecisionFits
      <4>4. n \in 1..(cfg.cbuf - 1) /\ Never \in Int
        BY <1>1, <4>2, <4>3 DEF Never
      <4>5. /\ mode'.prec = p /\ mode'.nsig_max = n /\ mode'.dstop = Never
            /\ mode'.fmode = FALSE /\ mode'.g = g
        BY <4>1
      <4> QED BY <2>1, <3>1, <4>2, <4>3, <4>4, <4>5, Zenon DEF ModeOk
    <3> QED BY <3>2, <3>3
  <2>3. SciInv'
    <3>1. buf' \in Buffers(cfg'.cbuf, SciCells)
      BY <1>1, <2>1
    <3> QED BY <2>1, <2>2, <3>1 DEF SciInv, SciBusy, Generated, SciCells
  <2>4. dec' \in Int /\ end' \in Int /\ nsig' \in Int /\ tail' \in BOOLEAN /\ pc' \in SciBusy
    BY <1>1, <2>1 DEF SciBusy
  <2>5. pc' # "Done"
    BY <2>1
  <2> QED BY <1>1, <2>1, <2>3, <2>4, <2>5, SciTo, ResultKept
<1> QED BY <1>2, <1>3, <1>4 DEF Start

\* 1246-1281: the exponent that is left and the zeros that stand for it add up to no more.
LEMMA GeneratePlaces ==
  ASSUME Inputs, Scalars, PlaceInv, Generate, UNCHANGED <<dec_f, fused>>
  PROVE  PlaceInv'
<1>0. pc = "Generate" /\ pc \in SciBusy
  BY DEF Generate, SciBusy
<1>1. /\ cfg.cbuf \in Nat /\ dec \in Int /\ end \in Int /\ nsig \in Int
      /\ buf \in Buffers(cfg.cbuf, SciCells)
  BY <1>0, SciFinds
<1>2. /\ pc' = "Integer" /\ exp' = Exponent /\ dec' = 0
      /\ UNCHANGED <<cfg, fs, end, buf, mode, nsig, res>>
  BY DEF Generate, inputs
<1>3. tail' \in BOOLEAN
  BY DEF Generate
<1>4. exp' <= cfg'.maxexp /\ ModeOk'
  BY <1>0, <1>2, ExponentRange, ModeKept DEF PlaceInv, SciInv
<1>5. SciInv'
  <2>1. buf' \in Buffers(cfg'.cbuf, SciCells)
    BY <1>1, <1>2
  <2> QED BY <1>2, <1>4, <2>1 DEF SciInv, SciBusy, Generated, SciCells
<1>6. dec' \in Int /\ end' \in Int /\ nsig' \in Int /\ pc' \in SciBusy /\ pc' # "Done"
  BY <1>1, <1>2 DEF SciBusy
<1> QED BY <1>2, <1>3, <1>5, <1>6, SciTo, ResultKept

LEMMA IntegerPlaces ==
  ASSUME Inputs, Scalars, PlaceInv, Integer, UNCHANGED <<dec_f, fused>>
  PROVE  PlaceInv'
<1>0. pc = "Integer" /\ pc \in SciBusy
  BY DEF Integer, SciBusy
<1>1. /\ cfg.cbuf \in Nat /\ cfg.maxexp \in Nat /\ dec \in Int /\ end \in Int /\ nsig \in Int
      /\ tail \in BOOLEAN /\ buf \in Buffers(cfg.cbuf, SciCells)
  BY <1>0, SciFinds
<1>2. /\ pc' = "ScaleInt" /\ StartInteger
      /\ UNCHANGED <<cfg, fs, dec, end, buf, mode, nsig, tail, res>>
  BY DEF Integer, inputs, place
<1>3. dec = 0 /\ exp <= cfg.maxexp /\ ModeOk
  BY <1>0 DEF PlaceInv, SciInv
<1>4. left' \in Nat /\ left' <= cfg.maxexp
  BY <1>2, <1>3, StartTyped
<1>5. ModeOk' /\ 0 <= dec' /\ dec' + left' <= cfg'.maxexp
  <2>1. ModeOk'
    BY <1>2, <1>3, ModeKept
  <2>2. 0 <= dec' /\ dec' + left' <= cfg'.maxexp
    BY <1>1, <1>2, <1>3, <1>4
  <2> QED BY <2>1, <2>2
<1>6. SciInv'
  <2>1. buf' \in Buffers(cfg'.cbuf, SciCells)
    BY <1>1, <1>2
  <2> QED BY <1>2, <1>5, <2>1 DEF SciInv, SciBusy, Generated, SciCells
<1>7. /\ dec' \in Int /\ end' \in Int /\ nsig' \in Int /\ tail' \in BOOLEAN
      /\ pc' \in SciBusy /\ pc' # "Done"
  BY <1>1, <1>2 DEF SciBusy
<1> QED BY <1>2, <1>6, <1>7, SciTo, ResultKept

LEMMA ScaleIntPlaces ==
  ASSUME Inputs, Scalars, PlaceInv, ScaleInt, UNCHANGED <<dec_f, fused>>
  PROVE  PlaceInv'
<1>0. pc = "ScaleInt" /\ pc \in SciBusy
  BY DEF ScaleInt, SciBusy
<1>1. /\ cfg.cbuf \in Nat /\ cfg.maxexp \in Nat /\ dec \in Int /\ end \in Int /\ nsig \in Int
      /\ tail \in BOOLEAN /\ buf \in Buffers(cfg.cbuf, SciCells)
  BY <1>0, SciFinds
<1>2. /\ left > 0 /\ left' = left - 1 /\ dec' \in {dec, dec + 1}
      /\ UNCHANGED <<cfg, fs, pc, end, buf, mode, nsig, tail, res>>
  BY DEF ScaleInt, inputs
<1>3. 0 <= dec /\ dec + left <= cfg.maxexp /\ ModeOk /\ left \in Int
  BY <1>0 DEF PlaceInv, SciInv, Scalars
<1>4. ModeOk'
  BY <1>2, <1>3, ModeKept
<1>5. dec' \in Int /\ 0 <= dec' /\ dec' + left' <= cfg.maxexp
  BY <1>1, <1>2, <1>3
<1>6. SciInv'
  <2>1. buf' \in Buffers(cfg'.cbuf, SciCells)
    BY <1>1, <1>2
  <2>2. dec' + left' <= cfg'.maxexp /\ pc' = "ScaleInt"
    BY <1>0, <1>2, <1>5
  <2> QED BY <1>4, <1>5, <2>1, <2>2 DEF SciInv, SciBusy, Generated, SciCells
<1>7. /\ dec' \in Int /\ end' \in Int /\ nsig' \in Int /\ tail' \in BOOLEAN
      /\ pc' \in SciBusy /\ pc' # "Done"
  BY <1>0, <1>1, <1>2, <1>5
<1> QED BY <1>2, <1>6, <1>7, SciTo, ResultKept

\* Where digits are generated.
Generating == {"ScaleFrac", "Emit", "Tail", "Significant"}

LEMMA GeneratingFinds ==
  ASSUME Inputs, Scalars, PlaceInv, pc \in Generated
  PROVE  /\ pc \in SciBusy /\ ModeOk
         /\ end \in 0..cfg.cbuf /\ end..(cfg.cbuf - 1) \subseteq DOMAIN buf
         /\ Magnitude \in Int /\ Magnitude = dec + (cfg.cbuf - end)
         /\ mode.fmode => 1 <= Magnitude /\ end < cfg.cbuf
         /\ -(cfg.maxexp + 4) <= Magnitude /\ Magnitude <= cfg.maxexp + Widest + 1
<1>1. pc \in SciBusy
  BY DEF SciBusy
<1>2. cfg.cbuf \in Nat /\ dec \in Int
  BY <1>1, SciFinds
<1>3. /\ ModeOk /\ end \in 0..cfg.cbuf /\ end..(cfg.cbuf - 1) \subseteq DOMAIN buf
      /\ mode.fmode => 1 <= Magnitude /\ end < cfg.cbuf
      /\ -(cfg.maxexp + 4) <= Magnitude /\ Magnitude <= cfg.maxexp + Widest + 1
  BY <1>1, Zenon DEF PlaceInv, SciInv
<1>4. Magnitude \in Int
  BY <1>2, <1>3 DEF Magnitude
<1> QED BY <1>1, <1>3, <1>4 DEF Magnitude

LEMMA GeneratedTo ==
  ASSUME Inputs, Scalars, PlaceInv, ModeOk, UNCHANGED <<cfg, fs, mode, nsig, dec_f, fused, res>>,
         pc' \in Generating, dec' \in Int, tail' \in BOOLEAN, buf' \in Buffers(cfg.cbuf, SciCells),
         end' \in 0..cfg.cbuf, end'..(cfg.cbuf - 1) \subseteq DOMAIN buf',
         NEW m, m = dec' + (cfg.cbuf - end'),
         mode.fmode => 1 <= m /\ end' < cfg.cbuf,
         -(cfg.maxexp + 4) <= m, m <= cfg.maxexp + Widest,
         pc' = "Emit" => Lowest < end', pc' = "ScaleFrac" => (FirstLeft - left)' <= m
  PROVE  PlaceInv'
<1>1. /\ cfg.cbuf \in Nat /\ cfg.maxexp \in Nat /\ Widest \in Nat
  BY BuildFacts
<1>2. m \in Int /\ end' \in Int /\ m <= cfg.maxexp + Widest + 1
  BY <1>1
<1>3. cfg' = cfg /\ mode' = mode /\ Widest' = Widest /\ Magnitude' = m /\ Lowest' = Lowest
  BY SameParameters DEF Magnitude, Lowest
<1>4. ModeOk'
  BY ModeKept
<1>5. SciInv'
  <2>1. /\ pc' \notin {"Round", "Shortest", "Layout"}
        /\ pc' # "Integer" /\ pc' # "ScaleInt"
        /\ pc' = "Emit" \/ pc' = "ScaleFrac" \/ (pc' # "Emit" /\ pc' # "ScaleFrac")
    BY DEF Generating
  <2>2. buf' \in Buffers(cfg'.cbuf, 0..9)
    BY <1>3 DEF SciCells
  <2>3. /\ end' \in 0..cfg'.cbuf /\ end'..(cfg'.cbuf - 1) \subseteq DOMAIN buf'
        /\ mode'.fmode => 1 <= Magnitude' /\ end' < cfg'.cbuf
        /\ -(cfg'.maxexp + 4) <= Magnitude' /\ Magnitude' <= cfg'.maxexp + Widest' + 1
        /\ Magnitude' <= cfg'.maxexp + Widest'
        /\ pc' = "ScaleFrac" => (FirstLeft - left)' <= Magnitude'
        /\ pc' = "Emit" => Lowest' < end'
    BY <1>2, <1>3, Zenon
  <2> QED BY <1>4, <2>1, <2>2, <2>3, Zenon DEF SciInv
<1>6. nsig' \in Int
  BY DEF PlaceInv, Locals
<1>7. pc' \in SciBusy /\ pc' # "Done"
  BY DEF SciBusy, Generated, Generating
<1>8. Outcome(res)'
  BY ResultKept
<1> QED BY <1>2, <1>5, <1>6, <1>7, <1>8, SciTo

\* 1288-1316: the numeral moves to the top of the array.
LEMMA IntDigitsPlaces ==
  ASSUME Inputs, Scalars, PlaceInv, IntDigits, UNCHANGED <<dec_f, fused>>
  PROVE  PlaceInv'
<1> DEFINE n == Numeral[man]
           l == Len(n)
           some == man > 0 \/ mode.fmode
           b == PutRun(buf, 0, n)
<1>0. pc = "ScaleInt" /\ pc \in SciBusy
  BY DEF IntDigits, SciBusy
<1>1. /\ cfg.cbuf \in Nat /\ cfg.cbuf >= 3 /\ cfg.maxexp \in Nat \ {0} /\ Widest \in Nat \ {0}
      /\ dec \in Int /\ end \in Int /\ nsig \in Int /\ tail \in BOOLEAN
      /\ buf \in Buffers(cfg.cbuf, SciCells)
  BY <1>0, SciFinds
<1>2. 0 <= dec /\ dec <= cfg.maxexp /\ ModeOk
  <2>1. 0 <= dec /\ dec + left <= cfg.maxexp /\ ModeOk
    BY <1>0 DEF PlaceInv, SciInv
  <2>2. left = 0
    BY DEF IntDigits
  <2> QED BY <1>1, <2>1, <2>2
<1>3. CASE Leave("ERR")
  BY <1>0, <1>3, SciLeaves
<1>4. CASE /\ some => cfg.reserve > 0 \/ l <= cfg.cbuf
           /\ buf' = IF some THEN Raised(b, l) ELSE buf
           /\ end' = IF some THEN cfg.cbuf - l ELSE cfg.cbuf
           /\ \/ HasFraction /\ StartFraction /\ pc' \in {"ScaleFrac", "Tail"}
              \/ pc' = "Significant"
           /\ UNCHANGED <<inputs, exp, dec, mode, nsig, tail, res>>
  <2>1. UNCHANGED <<cfg, fs, exp, dec, mode, nsig, tail, res>>
    BY <1>4 DEF inputs
  <2>2. n \in Seq(0..9) /\ l \in Nat \ {0} /\ l <= Widest
    BY WidestNumeral DEF Scalars
  <2>3. some => l <= cfg.cbuf
    <3>1. cfg.reserve \in Nat /\ cfg.reserve <= cfg.cbuf /\ (cfg.reserve > 0 => Widest <= cfg.reserve)
      BY BuildFacts
    <3>2. some => cfg.reserve > 0 \/ l <= cfg.cbuf
      BY <1>4
    <3> HIDE DEF n, l, some
    <3> QED BY <1>1, <2>2, <3>1, <3>2
  <2> HIDE DEF n
  <2>4. some => /\ Raised(b, l) \in Buffers(cfg.cbuf, SciCells)
                /\ (cfg.cbuf - l)..(cfg.cbuf - 1) \subseteq DOMAIN Raised(b, l)
    <3> SUFFICES ASSUME some
                 PROVE  /\ Raised(b, l) \in Buffers(cfg.cbuf, SciCells)
                        /\ (cfg.cbuf - l)..(cfg.cbuf - 1) \subseteq DOMAIN Raised(b, l)
      OBVIOUS
    <3>1. 0 \in Nat /\ 0 + l <= cfg.cbuf /\ n \in Seq(SciCells)
      BY <2>2, <2>3 DEF SciCells
    <3>2. b \in Buffers(cfg.cbuf, SciCells)
      BY <1>1, <3>1, PutRunBuffer
    <3>3. DOMAIN b = DOMAIN buf \cup 0..(0 + l - 1)
      BY PutRunDomain
    <3> HIDE DEF b, l
    <3>4. l \in 0..cfg.cbuf /\ 0..(l - 1) \subseteq DOMAIN b /\ SciCells \subseteq 0..Unset
      BY <1>1, <2>2, <2>3, <3>3 DEF SciCells, Unset
    <3> QED BY <1>1, <3>2, <3>4, RaisedBuffer
  <2> HIDE DEF b, l, some
  <2>5. /\ buf' \in Buffers(cfg.cbuf, SciCells)
        /\ end' \in 0..cfg.cbuf /\ end'..(cfg.cbuf - 1) \subseteq DOMAIN buf'
        /\ (some /\ end' = cfg.cbuf - l) \/ (~some /\ end' = cfg.cbuf)
    <3>1. CASE some
      <4>1. buf' = Raised(b, l) /\ end' = cfg.cbuf - l
        BY <1>4, <3>1
      <4>2. cfg.cbuf - l \in 0..cfg.cbuf
        BY <1>1, <2>2, <2>3, <3>1
      <4> QED BY <2>4, <3>1, <4>1, <4>2
    <3>2. CASE ~some
      <4>1. buf' = buf /\ end' = cfg.cbuf
        BY <1>4, <3>2
      <4>2. cfg.cbuf \in 0..cfg.cbuf /\ cfg.cbuf..(cfg.cbuf - 1) = {}
        BY <1>1
      <4> QED BY <1>1, <3>2, <4>1, <4>2
    <3> QED BY <3>1, <3>2
  <2> DEFINE m == dec' + (cfg.cbuf - end')
  <2>6. m = dec' + (cfg.cbuf - end')
    OBVIOUS
  <2>7. mode.fmode => some
    BY DEF some
  <2> HIDE DEF m
  <2>8. /\ mode.fmode => 1 <= m /\ end' < cfg.cbuf
        /\ -(cfg.maxexp + 4) <= m /\ m <= cfg.maxexp + Widest /\ 0 <= m /\ dec' \in Int
    <3>1. CASE some /\ end' = cfg.cbuf - l
      <4>1. m = dec + l
        BY <1>1, <2>1, <2>2, <2>6, <3>1
      <4> QED BY <1>1, <1>2, <2>1, <2>2, <3>1, <4>1
    <3>2. CASE ~some /\ end' = cfg.cbuf
      <4>1. m = dec
        BY <1>1, <2>1, <2>6, <3>2
      <4> QED BY <1>1, <1>2, <2>1, <2>7, <3>2, <4>1
    <3> QED BY <2>5, <3>1, <3>2
  <2>9. pc' \in Generating /\ pc' # "Emit"
    BY <1>4 DEF Generating
  <2>10. pc' = "ScaleFrac" => (FirstLeft - left)' <= m
    <3> SUFFICES ASSUME pc' = "ScaleFrac" PROVE (FirstLeft - left)' <= m
      OBVIOUS
    <3>1. StartFraction
      BY <1>4
    <3>2. left' = FirstLeft /\ FirstLeft' = FirstLeft
      BY <2>1, <3>1 DEF StartFraction, FirstLeft, ShiftF
    <3>3. FirstLeft \in Int
      BY DEF FirstLeft, ShiftF, Scalars
    <3>4. FirstLeft' - left' = 0
      BY <3>2, <3>3
    <3> QED BY <2>8, <3>4
  <2>11. tail' \in BOOLEAN
    BY <1>1, <2>1
  <2> QED BY <1>2, <2>1, <2>5, <2>6, <2>8, <2>9, <2>10, <2>11, GeneratedTo
<1>5. IntDigits => \/ Leave("ERR")
                   \/ /\ some => cfg.reserve > 0 \/ l <= cfg.cbuf
                      /\ buf' = IF some THEN Raised(b, l) ELSE buf
                      /\ end' = IF some THEN cfg.cbuf - l ELSE cfg.cbuf
                      /\ \/ HasFraction /\ StartFraction /\ pc' \in {"ScaleFrac", "Tail"}
                         \/ pc' = "Significant"
                      /\ UNCHANGED <<inputs, exp, dec, mode, nsig, tail, res>>
  BY DEF IntDigits
<1> QED BY <1>3, <1>4, <1>5

\* 1339-1363: until a digit is there a zero is a smaller exponent, by no more than the
\* steps that were left.
LEMMA ScaleFracPlaces ==
  ASSUME ScaleInv, Scalars, PlaceInv, ScaleFrac, UNCHANGED <<dec_f, fused>>
  PROVE  PlaceInv'
<1>0. pc = "ScaleFrac" /\ pc \in Generated /\ Inputs
  BY DEF ScaleFrac, Generated, ScaleInv
<1>1. /\ cfg.cbuf \in Nat /\ cfg.maxexp \in Nat \ {0} /\ Widest \in Nat \ {0}
      /\ dec \in Int /\ end \in Int /\ nsig \in Int /\ tail \in BOOLEAN
      /\ buf \in Buffers(cfg.cbuf, SciCells)
  BY <1>0, GeneratingFinds, SciFinds
<1>2. /\ ModeOk /\ end \in 0..cfg.cbuf /\ end..(cfg.cbuf - 1) \subseteq DOMAIN buf
      /\ Magnitude \in Int /\ Magnitude = dec + (cfg.cbuf - end)
      /\ mode.fmode => 1 <= Magnitude /\ end < cfg.cbuf
  BY <1>0, GeneratingFinds
<1>3. Magnitude <= cfg.maxexp + Widest /\ FirstLeft - left <= Magnitude
  BY <1>0 DEF PlaceInv, SciInv
<1>4. Bounded
  BY <1>0 DEF ScaleInv, Scaling
<1>5. left \in Int /\ FirstLeft <= left /\ exp \in Int /\ -cfg.maxexp <= exp
  BY <1>4 DEF Bounded, Scalars
<1>6. FirstLeft \in Int /\ -cfg.maxexp <= FirstLeft
  BY <1>1, <1>5 DEF FirstLeft, ShiftF
<1>7. /\ end > Lowest /\ left < 4 /\ left' = left + 1 /\ exp' = exp
      /\ UNCHANGED <<cfg, fs, pc, mode, nsig, tail, res>>
  BY DEF ScaleFrac, Wanted, ScaleFraction, inputs
<1>8. FirstLeft' = FirstLeft
  BY <1>7 DEF FirstLeft, ShiftF
<1>9. \/ dec' = dec - 1 /\ end < cfg.cbuf /\ buf' = Put(buf, end - 1, 0) /\ end' = end - 1
      \/ dec' = dec - 1 /\ end = cfg.cbuf /\ UNCHANGED <<buf, end>>
      \/ dec' = dec /\ UNCHANGED <<buf, end>>
  <2>1. /\ dec' = (IF LeadingZero THEN dec - 1 ELSE dec)
        /\ \/ LeadingZero /\ end # cfg.cbuf /\ buf' = Put(buf, end - 1, 0) /\ end' = end - 1
           \/ ~(LeadingZero /\ end # cfg.cbuf) /\ UNCHANGED <<buf, end>>
    BY DEF ScaleFrac, Leading
  <2>2. end # cfg.cbuf => end < cfg.cbuf
    BY <1>1, <1>2
  <2> QED BY <2>1, <2>2, Zenon
<1>10. Lowest \in Nat
  BY <1>0, <1>2, ModeFinds
<1> DEFINE m == dec' + (cfg.cbuf - end')
<1>11. m = dec' + (cfg.cbuf - end')
  OBVIOUS
<1> HIDE DEF m
<1>12. /\ buf' \in Buffers(cfg.cbuf, SciCells) /\ dec' \in Int
       /\ end' \in 0..cfg.cbuf /\ end'..(cfg.cbuf - 1) \subseteq DOMAIN buf'
       /\ m = Magnitude \/ (m = Magnitude - 1 /\ end = cfg.cbuf)
       /\ m \in Int /\ end' <= end
  <2>1. CASE dec' = dec - 1 /\ end < cfg.cbuf /\ buf' = Put(buf, end - 1, 0) /\ end' = end - 1
    <3>1. end - 1 \in 0..(cfg.cbuf - 1) /\ 0 \in SciCells
      BY <1>1, <1>2, <1>7, <1>10, <2>1 DEF SciCells
    <3>2. buf' \in Buffers(cfg.cbuf, SciCells)
      BY <1>1, <2>1, <3>1, PutBuffer
    <3>3. DOMAIN buf' = DOMAIN buf \cup {end - 1}
      BY <2>1, PutDomain
    <3>4. /\ end' \in 0..cfg.cbuf /\ end'..(cfg.cbuf - 1) \subseteq end..(cfg.cbuf - 1) \cup {end - 1}
          /\ m = Magnitude /\ dec' \in Int /\ m \in Int /\ end' <= end
      BY <1>1, <1>2, <1>11, <2>1, <3>1
    <3> QED BY <1>2, <3>2, <3>3, <3>4
  <2>2. CASE dec' = dec - 1 /\ end = cfg.cbuf /\ UNCHANGED <<buf, end>>
    <3>1. m = Magnitude - 1 /\ dec' \in Int /\ m \in Int /\ end' <= end
      BY <1>1, <1>2, <1>11, <2>2
    <3> QED BY <1>1, <1>2, <2>2, <3>1
  <2>3. CASE dec' = dec /\ UNCHANGED <<buf, end>>
    <3>1. m = Magnitude /\ end' <= end
      BY <1>1, <1>2, <1>11, <2>3
    <3> QED BY <1>1, <1>2, <2>3, <3>1
  <2> QED BY <1>9, <2>1, <2>2, <2>3
<1>13. mode.fmode => 1 <= m /\ end' < cfg.cbuf
  BY <1>1, <1>2, <1>12
<1>14. FirstLeft - left' <= m /\ m <= cfg.maxexp + Widest /\ -(cfg.maxexp + 4) <= m
  BY <1>1, <1>2, <1>3, <1>5, <1>6, <1>7, <1>12
<1>15. (FirstLeft - left)' <= m
  BY <1>8, <1>14
<1>16. pc' \in Generating /\ pc' # "Emit" /\ tail' \in BOOLEAN
  BY <1>0, <1>1, <1>7 DEF Generating
<1> QED BY <1>0, <1>2, <1>7, <1>11, <1>12, <1>13, <1>14, <1>15, <1>16, GeneratedTo

\* What leaves the digits as they are.
LEMMA DigitsKept ==
  ASSUME Inputs, Scalars, PlaceInv, pc \in Generating, pc' \in Generating, pc' # "ScaleFrac",
         UNCHANGED <<cfg, fs, dec, end, buf, mode, nsig, dec_f, fused, res>>,
         tail' \in BOOLEAN, pc' = "Emit" => Lowest < end
  PROVE  PlaceInv'
<1>1. pc \in Generated
  BY DEF Generated, Generating
<1>2. /\ ModeOk /\ end \in 0..cfg.cbuf /\ end..(cfg.cbuf - 1) \subseteq DOMAIN buf
      /\ Magnitude \in Int /\ Magnitude = dec + (cfg.cbuf - end)
      /\ mode.fmode => 1 <= Magnitude /\ end < cfg.cbuf
      /\ -(cfg.maxexp + 4) <= Magnitude
  BY <1>1, GeneratingFinds
<1>3. Magnitude <= cfg.maxexp + Widest
  BY DEF Generating, PlaceInv, SciInv
<1>4. dec \in Int /\ buf \in Buffers(cfg.cbuf, SciCells)
  BY <1>1, GeneratingFinds, SciFinds
<1>5. Magnitude = dec' + (cfg.cbuf - end')
  BY <1>2
<1>6. /\ buf' \in Buffers(cfg.cbuf, SciCells) /\ end' \in 0..cfg.cbuf
      /\ end'..(cfg.cbuf - 1) \subseteq DOMAIN buf' /\ dec' \in Int
      /\ mode.fmode => 1 <= Magnitude /\ end' < cfg.cbuf
      /\ pc' = "Emit" => Lowest < end'
  BY <1>2, <1>4, Zenon
<1> QED BY <1>2, <1>3, <1>5, <1>6, GeneratedTo

LEMMA NudgePlaces ==
  ASSUME Inputs, Scalars, PlaceInv, Nudge, UNCHANGED <<dec_f, fused>>
  PROVE  PlaceInv'
<1>1. /\ pc = "ScaleFrac" /\ pc' = (IF Wanted THEN "Emit" ELSE "Tail")
      /\ UNCHANGED <<cfg, fs, dec, end, buf, mode, nsig, tail, res>>
  BY DEF Nudge, inputs, place
<1>2. pc \in Generating /\ pc' \in Generating /\ pc' # "ScaleFrac"
  BY <1>1 DEF Generating
<1>3. tail \in BOOLEAN
  BY DEF PlaceInv, Locals
<1>4. Wanted => Lowest < end
  <2>1. cfg.cbuf \in Nat /\ end \in Int /\ Lowest \in Nat
    BY <1>1, GeneratingFinds, SciFinds, ModeFinds DEF Generated
  <2> QED BY <2>1 DEF Wanted
<1>5. pc' = "Emit" => Lowest < end
  BY <1>1, <1>4
<1> QED BY <1>1, <1>2, <1>3, <1>5, DigitsKept

LEMMA LeftoverPlaces ==
  ASSUME Inputs, Scalars, PlaceInv, Leftover, UNCHANGED <<dec_f, fused>>
  PROVE  PlaceInv'
<1>1. /\ pc = "Tail" /\ pc' = "Significant"
      /\ UNCHANGED <<cfg, fs, dec, end, buf, mode, nsig, res>>
  BY DEF Leftover, inputs, place
<1>2. pc \in Generating /\ pc' \in Generating /\ pc' # "ScaleFrac" /\ pc' # "Emit"
  BY <1>1 DEF Generating
<1>3. tail' \in BOOLEAN
  BY Zenon DEF Leftover
<1> QED BY <1>1, <1>2, <1>3, DigitsKept

\* 1365-1380: down to one digit past those that are wanted.
LEMMA EmitPlaces ==
  ASSUME ScaleInv, Scalars, PlaceInv, Emit, UNCHANGED <<dec_f, fused>>
  PROVE  PlaceInv'
<1>0. pc = "Emit" /\ pc \in Generated /\ Inputs
  BY DEF Emit, Generated, ScaleInv
<1>1. /\ cfg.cbuf \in Nat /\ cfg.maxexp \in Nat \ {0} /\ Widest \in Nat \ {0}
      /\ dec \in Int /\ tail \in BOOLEAN /\ buf \in Buffers(cfg.cbuf, SciCells)
  BY <1>0, GeneratingFinds, SciFinds
<1>2. /\ ModeOk /\ end \in 0..cfg.cbuf /\ end..(cfg.cbuf - 1) \subseteq DOMAIN buf
      /\ Magnitude \in Int /\ Magnitude = dec + (cfg.cbuf - end)
      /\ mode.fmode => 1 <= Magnitude /\ end < cfg.cbuf
      /\ -(cfg.maxexp + 4) <= Magnitude
  BY <1>0, GeneratingFinds
<1>3. Magnitude <= cfg.maxexp + Widest /\ Lowest < end
  BY <1>0 DEF PlaceInv, SciInv
<1>4. Lowest \in Nat
  BY <1>0, <1>2, ModeFinds
<1>5. /\ buf' = Put(buf, end - 1, NextDecimal) /\ end' = end - 1 /\ dec' = dec - 1
      /\ pc' = "Tail" \/ (~Enough(end', dec') /\ pc' = pc)
      /\ UNCHANGED <<cfg, fs, mode, nsig, tail, res>>
  BY DEF Emit, inputs
<1>6. end - 1 \in 0..(cfg.cbuf - 1) /\ NextDecimal \in SciCells
  <2>1. NextDecimal \in 0..9
    BY <1>0, DecimalEmitted DEF Emitting
  <2>2. end - 1 \in 0..(cfg.cbuf - 1)
    BY <1>1, <1>2, <1>3, <1>4
  <2> QED BY <2>1, <2>2 DEF SciCells
<1>7. buf' \in Buffers(cfg.cbuf, SciCells)
  BY <1>1, <1>5, <1>6, PutBuffer
<1>8. DOMAIN buf' = DOMAIN buf \cup {end - 1}
  BY <1>5, PutDomain
<1>9. /\ end' \in 0..cfg.cbuf /\ dec' \in Int /\ Magnitude = dec' + (cfg.cbuf - end')
      /\ end'..(cfg.cbuf - 1) \subseteq end..(cfg.cbuf - 1) \cup {end - 1} /\ end' < cfg.cbuf
  BY <1>1, <1>2, <1>5, <1>6
<1>10. end'..(cfg.cbuf - 1) \subseteq DOMAIN buf'
  BY <1>2, <1>8, <1>9
<1>11. pc' = "Emit" => Lowest < end'
  <2>1. SUFFICES ASSUME pc' = "Emit" PROVE Lowest < end'
    OBVIOUS
  <2>2. ~(end' <= Lowest)
    BY <1>5, <2>1 DEF Enough
  <2>3. end' \in Int
    BY <1>2, <1>5
  <2> QED BY <1>4, <2>2, <2>3
<1>12. pc' \in Generating /\ pc' # "ScaleFrac" /\ tail' \in BOOLEAN
  BY <1>0, <1>1, <1>5 DEF Generating
<1> QED
  BY <1>0, <1>2, <1>3, <1>5, <1>7, <1>9, <1>10, <1>11, <1>12, GeneratedTo

\* Where the significant digits are counted.
Counted == {"Round", "Shortest", "Layout"}

LEMMA CountedFinds ==
  ASSUME Inputs, Scalars, PlaceInv, pc \in Counted
  PROVE  /\ pc \in Generated /\ nsig \in Int /\ nsig = cfg.cbuf - end /\ 1 <= nsig
         /\ mode.fmode => -mode.prec <= dec
         /\ ~mode.fmode => nsig <= mode.nsig_max
<1>1. pc \in Generated
  BY DEF Counted, Generated
<1>2. nsig \in Int
  BY DEF PlaceInv, Locals
<1>3. /\ nsig = cfg.cbuf - end /\ 1 <= nsig
      /\ mode.fmode => -mode.prec <= dec
      /\ ~mode.fmode => nsig <= mode.nsig_max
  BY Zenon DEF PlaceInv, SciInv, Counted
<1> QED BY <1>1, <1>2, <1>3

LEMMA CountedTo ==
  ASSUME Inputs, Scalars, PlaceInv, ModeOk, UNCHANGED <<cfg, fs, mode, tail, dec_f, fused, res>>,
         pc' \in Counted, dec' \in Int, nsig' \in Int, buf' \in Buffers(cfg.cbuf, SciCells),
         end' \in 0..cfg.cbuf, end'..(cfg.cbuf - 1) \subseteq DOMAIN buf',
         nsig' = cfg.cbuf - end', 1 <= nsig',
         NEW m, m = dec' + (cfg.cbuf - end'), mode.fmode => 1 <= m,
         -(cfg.maxexp + 4) <= m, m <= cfg.maxexp + Widest + 1,
         pc' = "Round" => m <= cfg.maxexp + Widest,
         mode.fmode => -mode.prec <= dec', ~mode.fmode => nsig' <= mode.nsig_max
  PROVE  PlaceInv'
<1>1. /\ cfg.cbuf \in Nat /\ cfg.maxexp \in Nat /\ Widest \in Nat
  BY BuildFacts
<1>2. m \in Int /\ end' \in Int /\ end' < cfg.cbuf
  BY <1>1
<1>3. cfg' = cfg /\ mode' = mode /\ Widest' = Widest /\ Magnitude' = m
  BY SameParameters DEF Magnitude
<1>4. ModeOk'
  BY ModeKept
<1>5. SciInv'
  <2>1. /\ pc' \notin {"ScaleFrac", "Emit", "Tail", "Significant"}
        /\ pc' # "Integer" /\ pc' # "ScaleInt" /\ pc' # "Emit" /\ pc' # "ScaleFrac"
        /\ pc' \in {"ScaleFrac", "Emit", "Tail", "Significant", "Round"} => pc' = "Round"
    BY DEF Counted
  <2>2. buf' \in Buffers(cfg'.cbuf, 0..9)
    BY <1>3 DEF SciCells
  <2>3. /\ end' \in 0..cfg'.cbuf /\ end'..(cfg'.cbuf - 1) \subseteq DOMAIN buf'
        /\ mode'.fmode => 1 <= Magnitude' /\ end' < cfg'.cbuf
        /\ -(cfg'.maxexp + 4) <= Magnitude' /\ Magnitude' <= cfg'.maxexp + Widest' + 1
        /\ pc' = "Round" => Magnitude' <= cfg'.maxexp + Widest'
        /\ nsig' = cfg'.cbuf - end'
        /\ mode'.fmode => -mode'.prec <= dec'
        /\ ~mode'.fmode => nsig' <= mode'.nsig_max
    BY <1>2, <1>3, Zenon
  <2> QED BY <1>4, <2>1, <2>2, <2>3, Zenon DEF SciInv
<1>6. tail' \in BOOLEAN
  BY DEF PlaceInv, Locals
<1>7. pc' \in SciBusy /\ pc' # "Done"
  BY DEF SciBusy, Generated, Counted
<1>8. Outcome(res)'
  BY ResultKept
<1> QED BY <1>2, <1>5, <1>6, <1>7, <1>8, SciTo

\* 1391-1414: what is dropped leaves a digit at least, since a fixed layout keeps those
\* down to its last decimal and the first of them is no lower.
LEMMA SignificantPlaces ==
  ASSUME Inputs, Scalars, PlaceInv, Significant, UNCHANGED <<dec_f, fused>>
  PROVE  PlaceInv'
<1> DEFINE drop == IF mode.fmode THEN -mode.prec - dec ELSE (cfg.cbuf - end) - mode.nsig_max
<1>0. pc = "Significant" /\ pc \in Generated /\ pc' = "Round" /\ pc' \in Counted
  BY DEF Significant, Generated, Counted
<1>1. /\ cfg.cbuf \in Nat /\ cfg.cbuf >= 3 /\ cfg.maxexp \in Nat \ {0} /\ Widest \in Nat \ {0}
      /\ dec \in Int /\ nsig \in Int /\ tail \in BOOLEAN /\ buf \in Buffers(cfg.cbuf, SciCells)
  BY <1>0, GeneratingFinds, SciFinds
<1>2. /\ ModeOk /\ end \in 0..cfg.cbuf /\ end..(cfg.cbuf - 1) \subseteq DOMAIN buf
      /\ Magnitude \in Int /\ Magnitude = dec + (cfg.cbuf - end)
      /\ mode.fmode => 1 <= Magnitude /\ end < cfg.cbuf
      /\ -(cfg.maxexp + 4) <= Magnitude
  BY <1>0, GeneratingFinds
<1>3. Magnitude <= cfg.maxexp + Widest
  BY <1>0 DEF PlaceInv, SciInv
<1>4. mode.prec \in Nat /\ mode.nsig_max \in 1..(cfg.cbuf - 1) /\ mode.fmode \in BOOLEAN
  BY <1>2, ModeFinds
<1>5. UNCHANGED <<cfg, fs, mode, tail, res>>
  BY DEF Significant, inputs
<1>6. drop \in Int /\ (mode.fmode => drop = -mode.prec - dec)
      /\ (~mode.fmode => drop = (cfg.cbuf - end) - mode.nsig_max)
  BY <1>1, <1>2, <1>4
<1>7. \/ /\ end = cfg.cbuf /\ buf' = Put(buf, end - 1, 0) /\ end' = end - 1 /\ nsig' = 1
         /\ dec' = 0
      \/ /\ end # cfg.cbuf /\ drop <= 0
         /\ nsig' = cfg.cbuf - end /\ UNCHANGED <<buf, end, dec>>
      \/ /\ end # cfg.cbuf /\ drop > 0
         /\ end' = end + drop /\ nsig' = cfg.cbuf - (end + drop) /\ dec' = dec + drop
         /\ UNCHANGED buf
  BY Zenon DEF Significant
<1> HIDE DEF drop
<1> DEFINE m == dec' + (cfg.cbuf - end')
<1>8. m = dec' + (cfg.cbuf - end')
  OBVIOUS
<1> HIDE DEF m
<1>9. CASE /\ end = cfg.cbuf /\ buf' = Put(buf, end - 1, 0) /\ end' = end - 1 /\ nsig' = 1
           /\ dec' = 0
  <2>1. end - 1 \in 0..(cfg.cbuf - 1) /\ 0 \in SciCells
    BY <1>1, <1>9 DEF SciCells
  <2>2. buf' \in Buffers(cfg.cbuf, SciCells)
    BY <1>1, <1>9, <2>1, PutBuffer
  <2>3. DOMAIN buf' = DOMAIN buf \cup {end - 1}
    BY <1>9, PutDomain
  <2>4. /\ end' \in 0..cfg.cbuf /\ end'..(cfg.cbuf - 1) \subseteq {end - 1}
        /\ m = 1 /\ nsig' = cfg.cbuf - end' /\ dec' \in Int /\ nsig' \in Int /\ 1 <= nsig'
    BY <1>1, <1>8, <1>9
  <2>5. end'..(cfg.cbuf - 1) \subseteq DOMAIN buf'
    BY <2>3, <2>4
  <2>6. /\ mode.fmode => 1 <= m /\ -mode.prec <= dec'
        /\ ~mode.fmode => nsig' <= mode.nsig_max
        /\ -(cfg.maxexp + 4) <= m /\ m <= cfg.maxexp + Widest
        /\ m <= cfg.maxexp + Widest + 1
    BY <1>1, <1>4, <1>9, <2>4
  <2> QED BY <1>0, <1>2, <1>5, <1>8, <2>2, <2>4, <2>5, <2>6, CountedTo
<1>10. CASE /\ end # cfg.cbuf /\ drop <= 0
            /\ nsig' = cfg.cbuf - end /\ UNCHANGED <<buf, end, dec>>
  <2>1. /\ m = Magnitude /\ nsig' = cfg.cbuf - end' /\ dec' \in Int /\ nsig' \in Int /\ 1 <= nsig'
    BY <1>1, <1>2, <1>8, <1>10
  <2>2. /\ mode.fmode => 1 <= m /\ -mode.prec <= dec'
        /\ ~mode.fmode => nsig' <= mode.nsig_max
        /\ -(cfg.maxexp + 4) <= m /\ m <= cfg.maxexp + Widest
        /\ m <= cfg.maxexp + Widest + 1
    BY <1>1, <1>2, <1>3, <1>4, <1>6, <1>10, <2>1
  <2>3. /\ buf' \in Buffers(cfg.cbuf, SciCells) /\ end' \in 0..cfg.cbuf
        /\ end'..(cfg.cbuf - 1) \subseteq DOMAIN buf'
    BY <1>1, <1>2, <1>10
  <2> QED BY <1>0, <1>2, <1>5, <1>8, <2>1, <2>2, <2>3, CountedTo
<1>11. CASE /\ end # cfg.cbuf /\ drop > 0
            /\ end' = end + drop /\ nsig' = cfg.cbuf - (end + drop) /\ dec' = dec + drop
            /\ UNCHANGED buf
  <2>1. m = Magnitude /\ nsig' = cfg.cbuf - end' /\ dec' \in Int /\ nsig' \in Int /\ end' \in Int
    BY <1>1, <1>2, <1>6, <1>8, <1>11
  <2>2. mode.fmode => /\ 1 <= m /\ dec' = -mode.prec /\ nsig' = m + mode.prec
    BY <1>1, <1>2, <1>4, <1>6, <1>8, <1>11, <2>1
  <2>3. ~mode.fmode => nsig' = mode.nsig_max
    BY <1>1, <1>2, <1>4, <1>6, <1>11
  <2>4. 1 <= nsig'
    <3>1. CASE mode.fmode
      BY <1>2, <1>4, <2>1, <2>2, <3>1
    <3>2. CASE ~mode.fmode
      BY <1>1, <1>4, <2>3, <3>2
    <3> QED BY <3>1, <3>2
  <2>5. end' \in 0..cfg.cbuf /\ end'..(cfg.cbuf - 1) \subseteq end..(cfg.cbuf - 1)
    BY <1>1, <1>2, <1>6, <1>11, <2>1, <2>4
  <2>6. end'..(cfg.cbuf - 1) \subseteq DOMAIN buf' /\ buf' \in Buffers(cfg.cbuf, SciCells)
    BY <1>1, <1>2, <1>11, <2>5
  <2>7. /\ mode.fmode => -mode.prec <= dec'
        /\ ~mode.fmode => nsig' <= mode.nsig_max
    BY <1>1, <1>4, <2>1, <2>2, <2>3
  <2>8. -(cfg.maxexp + 4) <= m /\ m <= cfg.maxexp + Widest /\ m <= cfg.maxexp + Widest + 1
    BY <1>1, <1>2, <1>3, <2>1
  <2>9. mode.fmode => 1 <= m
    BY <2>2
  <2> QED BY <1>0, <1>2, <1>5, <1>8, <2>1, <2>4, <2>5, <2>6, <2>7, <2>8, <2>9, CountedTo
<1> QED BY <1>7, <1>9, <1>10, <1>11

\* 1417-1428: the carry stops at a digit that is no nine, or goes past the first.
LEMMA RoundPlaces ==
  ASSUME Inputs, Scalars, PlaceInv, Round, UNCHANGED <<dec_f, fused>>
  PROVE  PlaceInv'
<1> DEFINE P(i) == /\ i = cfg.cbuf \/ Cell(buf, i) # 9
                   /\ \A k \in end..(i - 1) : Cell(buf, k) = 9
           stop == CHOOSE i \in end..cfg.cbuf : P(i)
<1>0. /\ pc = "Round" /\ pc \in Counted /\ pc \in Generated
      /\ pc' = "Shortest" /\ pc' \in Counted /\ pc' # "Round"
  BY DEF Round, Generated, Counted
<1>1. /\ cfg.cbuf \in Nat /\ cfg.cbuf >= 3 /\ cfg.maxexp \in Nat \ {0} /\ Widest \in Nat \ {0}
      /\ dec \in Int /\ nsig \in Int /\ tail \in BOOLEAN /\ buf \in Buffers(cfg.cbuf, SciCells)
  BY <1>0, GeneratingFinds, SciFinds
<1>2. /\ ModeOk /\ end \in 0..cfg.cbuf /\ end..(cfg.cbuf - 1) \subseteq DOMAIN buf
      /\ Magnitude \in Int /\ Magnitude = dec + (cfg.cbuf - end)
      /\ mode.fmode => 1 <= Magnitude
      /\ -(cfg.maxexp + 4) <= Magnitude
  BY <1>0, GeneratingFinds
<1>3. Magnitude <= cfg.maxexp + Widest
  BY <1>0 DEF PlaceInv, SciInv
<1>4. /\ nsig = cfg.cbuf - end /\ 1 <= nsig
      /\ mode.fmode => -mode.prec <= dec
      /\ ~mode.fmode => nsig <= mode.nsig_max
  BY <1>0, CountedFinds
<1>5. UNCHANGED <<cfg, fs, mode, tail, res, end, nsig>>
  BY DEF Round, inputs
<1>6. stop \in end..cfg.cbuf /\ P(stop)
  <2> DEFINE A == {i \in end..cfg.cbuf : i = cfg.cbuf \/ Cell(buf, i) # 9}
  <2>1. A \in SUBSET Nat /\ cfg.cbuf \in A
    BY <1>1, <1>2
  <2>2. PICK i \in A : \A k \in A : i <= k
    <3> HIDE DEF A
    <3>1. A # {}
      BY <2>1
    <3> QED BY <2>1, <3>1, LeastNumber
  <2>3. i \in end..cfg.cbuf /\ (i = cfg.cbuf \/ Cell(buf, i) # 9)
    OBVIOUS
  <2>4. ASSUME NEW k \in end..(i - 1) PROVE Cell(buf, k) = 9
    <3>1. k \in end..cfg.cbuf /\ ~(i <= k)
      BY <1>1, <1>2, <2>3
    <3> QED BY <2>2, <3>1
  <2>5. P(i)
    BY <2>3, <2>4
  <2> HIDE DEF P, A
  <2> QED BY <2>3, <2>5
<1>7. \/ UNCHANGED <<buf, dec>>
      \/ /\ buf' = [k \in DOMAIN buf |-> IF k \in end..stop THEN Carried(stop, k) ELSE buf[k]]
         /\ dec' = (IF stop = cfg.cbuf THEN dec + 1 ELSE dec)
  BY DEF Round
<1>8. stop \in end..cfg.cbuf /\ (stop = cfg.cbuf \/ Cell(buf, stop) # 9)
  BY <1>6
<1> HIDE DEF stop
<1>9. buf' \in Buffers(cfg.cbuf, SciCells) /\ DOMAIN buf' = DOMAIN buf
  <2>1. CASE UNCHANGED buf
    BY <1>1, <2>1
  <2>2. CASE buf' = [k \in DOMAIN buf |-> IF k \in end..stop THEN Carried(stop, k) ELSE buf[k]]
    <3> DEFINE D == DOMAIN buf
               V(k) == IF k \in end..stop THEN Carried(stop, k) ELSE buf[k]
    <3>1. D \subseteq 0..(cfg.cbuf - 1) /\ \A k \in D : buf[k] \in 0..9
      BY <1>1, BufferFacts DEF SciCells
    <3>2. ASSUME NEW k \in D PROVE V(k) \in 0..9
      <4>1. CASE k \notin end..stop
        BY <3>1, <4>1
      <4>2. CASE k \in end..(stop - 1)
        <5>1. k \in end..stop
          BY <1>1, <1>2, <1>8, <4>2
        <5>2. Carried(stop, k) \in {0, 1}
          BY <4>2 DEF Carried
        <5> QED BY <5>1, <5>2
      <4>3. CASE k \in end..stop /\ k \notin end..(stop - 1)
        <5>1. k = stop /\ k \in 0..(cfg.cbuf - 1)
          BY <1>1, <1>2, <1>8, <3>1, <4>3
        <5>2. buf[k] # 9
          <6>1. k # cfg.cbuf
            BY <1>1, <5>1
          <6> QED BY <1>8, <5>1, <6>1 DEF Cell
        <5>3. V(k) = buf[k] + 1
          BY <4>3 DEF Carried
        <5>4. buf[k] \in 0..9
          BY <3>1
        <5> HIDE DEF V
        <5> QED BY <5>2, <5>3, <5>4
      <4> QED BY <4>1, <4>2, <4>3
    <3>3. buf' = [k \in D |-> V(k)]
      BY <2>2
    <3> HIDE DEF V, D
    <3>4. buf' \in [D -> SciCells] /\ DOMAIN buf' = D
      BY <3>2, <3>3 DEF SciCells
    <3>5. D \in SUBSET (0..(cfg.cbuf - 1))
      BY <3>1
    <3> QED BY <3>4, <3>5, BufferIntro DEF D
  <2> QED BY <1>7, <2>1, <2>2
<1> DEFINE m == dec' + (cfg.cbuf - end')
<1>10. m = dec' + (cfg.cbuf - end')
  OBVIOUS
<1> HIDE DEF m
<1>11. dec' = dec \/ dec' = dec + 1
  BY <1>7, Zenon
<1>12. /\ dec' \in Int
       /\ mode.fmode => 1 <= m
       /\ -(cfg.maxexp + 4) <= m /\ m <= cfg.maxexp + Widest + 1
  BY <1>1, <1>2, <1>3, <1>5, <1>10, <1>11
<1>13. mode.prec \in Nat
  BY <1>2, ModeFinds
<1>14. mode.fmode => -mode.prec <= dec'
  BY <1>1, <1>4, <1>11, <1>13
<1>15. /\ end' \in 0..cfg.cbuf /\ end'..(cfg.cbuf - 1) \subseteq DOMAIN buf'
       /\ nsig' = cfg.cbuf - end' /\ 1 <= nsig' /\ nsig' \in Int
       /\ ~mode.fmode => nsig' <= mode.nsig_max
  BY <1>1, <1>2, <1>4, <1>5, <1>9
<1> QED BY <1>0, <1>2, <1>5, <1>9, <1>10, <1>12, <1>14, <1>15, CountedTo

\* 1431-1438: the zeros that are stripped are all below the first digit.
LEMMA StrippedRange ==
  ASSUME nsig \in Nat \ {0}
  PROVE  Stripped \in 0..(nsig - 1)
<1>1. CASE Strip /\ Zeros # {}
  <2> DEFINE A == {i \in Nat : \E k \in Zeros : i = nsig - 2 - k}
             k1 == CHOOSE k \in Zeros : k + 1 \notin Zeros
  <2>1. Zeros \subseteq 0..(nsig - 2)
    BY DEF Zeros
  <2>2. \E k \in Zeros : k + 1 \notin Zeros
    <3>1. PICK k0 \in Zeros : TRUE
      BY <1>1
    <3>2. k0 \in 0..(nsig - 2)
      BY <2>1
    <3> DEFINE i0 == nsig - 2 - k0
    <3>3. i0 \in Nat
      BY <3>2
    <3>4. i0 \in A
      BY <3>1, <3>3
    <3>5. A \in SUBSET Nat
      OBVIOUS
    <3>6. PICK m \in A : \A i \in A : m <= i
      <4> HIDE DEF A, i0
      <4> QED BY <3>4, <3>5, LeastNumber
    <3>7. PICK k \in Zeros : m = nsig - 2 - k
      BY <3>6
    <3>8. k + 1 \notin Zeros
      <4> SUFFICES ASSUME k + 1 \in Zeros PROVE FALSE
        OBVIOUS
      <4>1. k + 1 \in 0..(nsig - 2) /\ k \in 0..(nsig - 2)
        BY <2>1, <3>7
      <4> DEFINE j == nsig - 2 - (k + 1)
      <4>2. j \in Nat /\ j = nsig - 2 - (k + 1)
        BY <4>1
      <4>3. j \in A
        BY <4>2
      <4> HIDE DEF j, A
      <4>4. m <= j
        BY <3>6, <4>3
      <4> QED BY <3>7, <4>1, <4>2, <4>4
    <3> QED BY <3>7, <3>8
  <2>3. k1 \in Zeros
    BY <2>2
  <2>4. Stripped = 1 + k1
    BY <1>1 DEF Stripped
  <2> HIDE DEF k1
  <2>5. k1 \in 0..(nsig - 2)
    BY <2>1, <2>3
  <2> QED BY <2>4, <2>5
<1>2. CASE ~(Strip /\ Zeros # {})
  <2>1. Stripped = 0
    BY <1>2, Zenon DEF Stripped
  <2> QED BY <2>1
<1> QED BY <1>1, <1>2

LEMMA ShortestPlaces ==
  ASSUME Inputs, Scalars, PlaceInv, Shortest, UNCHANGED <<dec_f, fused>>
  PROVE  PlaceInv'
<1>0. /\ pc = "Shortest" /\ pc \in Counted /\ pc \in Generated
  BY DEF Shortest, Generated, Counted
<1>1. /\ cfg.cbuf \in Nat /\ cfg.cbuf >= 3 /\ cfg.maxexp \in Nat \ {0} /\ Widest \in Nat \ {0}
      /\ dec \in Int /\ tail \in BOOLEAN /\ buf \in Buffers(cfg.cbuf, SciCells)
  BY <1>0, GeneratingFinds, SciFinds
<1>2. /\ ModeOk /\ end \in 0..cfg.cbuf /\ end..(cfg.cbuf - 1) \subseteq DOMAIN buf
      /\ Magnitude \in Int /\ Magnitude = dec + (cfg.cbuf - end)
      /\ mode.fmode => 1 <= Magnitude
      /\ -(cfg.maxexp + 4) <= Magnitude /\ Magnitude <= cfg.maxexp + Widest + 1
  BY <1>0, GeneratingFinds
<1>4. /\ nsig \in Int /\ nsig = cfg.cbuf - end /\ 1 <= nsig
      /\ mode.fmode => -mode.prec <= dec
      /\ ~mode.fmode => nsig <= mode.nsig_max
  BY <1>0, CountedFinds
<1>5. /\ mode.prec \in Nat /\ mode.nsig_max \in 1..(cfg.cbuf - 1) /\ mode.fmode \in BOOLEAN
      /\ mode.fmode => ~mode.g
  BY <1>2, ModeFinds DEF ModeOk
<1>6. UNCHANGED <<cfg, fs, tail, res, buf>>
  BY DEF Shortest, inputs
<1>7. CASE ~mode.g /\ pc' = "Layout" /\ UNCHANGED <<end, nsig, dec, mode>>
  <2>1. pc' \in Counted /\ pc' # "Round"
    BY <1>7 DEF Counted
  <2>2. /\ dec' \in Int /\ nsig' \in Int /\ buf' \in Buffers(cfg.cbuf, SciCells)
        /\ end' \in 0..cfg.cbuf /\ end'..(cfg.cbuf - 1) \subseteq DOMAIN buf'
        /\ nsig' = cfg.cbuf - end' /\ 1 <= nsig'
        /\ Magnitude = dec' + (cfg.cbuf - end')
        /\ mode.fmode => -mode.prec <= dec'
        /\ ~mode.fmode => nsig' <= mode.nsig_max
    BY <1>1, <1>2, <1>4, <1>6, <1>7, Zenon
  <2> QED BY <1>2, <1>6, <1>7, <2>1, <2>2, CountedTo
<1>8. CASE /\ mode.g
           /\ end' = end + Stripped /\ nsig' = nsig - Stripped /\ dec' = dec + Stripped
           /\ \/ pc' = "Layout" /\ UNCHANGED mode
              \/ pc' = "Generate" /\ \E x \in Int : mode' = FixedMode(Greater(0, x))
  <2>1. Stripped \in 0..(nsig - 1)
    BY <1>4, StrippedRange
  <2> DEFINE z == Stripped
  <2>2. z \in 0..(nsig - 1) /\ end' = end + z /\ nsig' = nsig - z /\ dec' = dec + z
    BY <1>8, <2>1
  <2> HIDE DEF z
  <2>3. /\ dec' \in Int /\ nsig' \in Int /\ end' \in 0..cfg.cbuf
        /\ nsig' = cfg.cbuf - end' /\ 1 <= nsig' /\ nsig' <= nsig
        /\ Magnitude = dec' + (cfg.cbuf - end')
        /\ end'..(cfg.cbuf - 1) \subseteq end..(cfg.cbuf - 1)
    BY <1>1, <1>2, <1>4, <2>2
  <2>4. buf' \in Buffers(cfg.cbuf, SciCells) /\ end'..(cfg.cbuf - 1) \subseteq DOMAIN buf'
    BY <1>1, <1>2, <1>6, <2>3
  <2>5. ~mode.fmode /\ nsig' <= mode.nsig_max
    BY <1>4, <1>5, <1>8, <2>3
  <2>6. CASE pc' = "Layout" /\ UNCHANGED mode
    <3>1. pc' \in Counted /\ pc' # "Round"
      BY <2>6 DEF Counted
    <3> QED BY <1>2, <1>6, <2>3, <2>4, <2>5, <2>6, <3>1, CountedTo
  <2>7. CASE pc' = "Generate" /\ \E x \in Int : mode' = FixedMode(Greater(0, x))
    <3>1. PICK x \in Int : mode' = FixedMode(Greater(0, x))
      BY <2>7
    <3>2. Greater(0, x) \in Nat
      BY DEF Greater
    <3>3. ModeOk'
      BY <1>6, <3>1, <3>2, ModeSet
    <3>4. SciInv'
      <4>1. buf' \in Buffers(cfg'.cbuf, SciCells)
        BY <1>6, <2>4
      <4> QED BY <2>7, <3>3, <4>1 DEF SciInv, SciBusy, Generated, SciCells
    <3>5. tail' \in BOOLEAN /\ end' \in Int /\ pc' \in SciBusy /\ pc' # "Done"
      BY <1>1, <1>6, <2>3, <2>7 DEF SciBusy
    <3> QED BY <1>6, <2>3, <3>4, <3>5, SciTo, ResultKept
  <2> QED BY <1>8, <2>6, <2>7
<1>9. Shortest =>
        \/ ~mode.g /\ pc' = "Layout" /\ UNCHANGED <<end, nsig, dec, mode>>
        \/ /\ mode.g
           /\ end' = end + Stripped /\ nsig' = nsig - Stripped /\ dec' = dec + Stripped
           /\ \/ pc' = "Layout" /\ UNCHANGED mode
              \/ /\ pc' = "Generate"
                 /\ mode' = FixedMode(Greater(0, (IF Strip THEN nsig' ELSE mode.prec) - 1 - TopExponent))
  BY DEF Shortest
<1>10. ASSUME mode.g, nsig' = nsig - Stripped
       PROVE  (IF Strip THEN nsig' ELSE mode.prec) - 1 - TopExponent \in Int
  <2>1. Stripped \in 0..(nsig - 1) /\ TopExponent \in Int
    BY <1>1, <1>4, StrippedRange DEF TopExponent
  <2> DEFINE z == Stripped
  <2>2. z \in Int /\ nsig' = nsig - z
    BY <1>4, <1>10, <2>1
  <2> HIDE DEF z
  <2>3. nsig' \in Int
    BY <1>4, <2>2
  <2> QED BY <1>5, <2>1, <2>3
<1> QED BY <1>7, <1>8, <1>9, <1>10

-----------------------------------------------------------------------------
(* The layouts.                                                              *)

\* Every cell of R is stored to.
Covers(s, R) == \A i \in R : \E j \in 1..Len(s) : s[j].at = i

Stores == [at: Int, from: Int, char: 0..Unset]

LEMMA StoresJoined ==
  ASSUME NEW b, NEW S, NEW s, NEW t, NEW Q, NEW R, StoresInside(s, b, S), StoresInside(t, b, S),
         Covers(s, Q), Covers(t, R)
  PROVE  StoresInside(s \o t, b, S) /\ Covers(s \o t, Q \cup R)
<1> DEFINE u == s \o t
           Ok(r) == /\ r.at \in 0..(cfg.cbuf - 1)
                    /\ r.from < 0 => r.char \in S
                    /\ r.from >= 0 => r.from \in DOMAIN b
<1>1. s \in Seq(Stores) /\ t \in Seq(Stores)
  BY DEF StoresInside, Stores
<1>2. (\A j \in 1..Len(s) : Ok(s[j])) /\ (\A j \in 1..Len(t) : Ok(t[j]))
  BY DEF StoresInside
<1> HIDE DEF Ok
<1>3. /\ u \in Seq(Stores) /\ Len(u) = Len(s) + Len(t)
      /\ \A j \in 1..(Len(s) + Len(t)) : u[j] = IF j <= Len(s) THEN s[j] ELSE t[j - Len(s)]
  BY <1>1, ConcatProperties
<1>4. Len(s) \in Nat /\ Len(t) \in Nat
  BY <1>1
<1> HIDE DEF u
<1>5. \A j \in 1..Len(u) : Ok(u[j])
  <2> SUFFICES ASSUME NEW j \in 1..Len(u) PROVE Ok(u[j])
    OBVIOUS
  <2>1. CASE j <= Len(s)
    <3>1. j \in 1..Len(s) /\ u[j] = s[j]
      BY <1>3, <1>4, <2>1
    <3> QED BY <1>2, <3>1
  <2>2. CASE ~(j <= Len(s))
    <3>1. j - Len(s) \in 1..Len(t) /\ u[j] = t[j - Len(s)]
      BY <1>3, <1>4, <2>2
    <3> QED BY <1>2, <3>1
  <2> QED BY <2>1, <2>2
<1>6. StoresInside(u, b, S)
  <2>1. u \in Seq([at: Int, from: Int, char: 0..Unset])
    BY <1>3 DEF Stores
  <2>2. \A j \in 1..Len(u) : /\ u[j].at \in 0..(cfg.cbuf - 1)
                             /\ u[j].from < 0 => u[j].char \in S
                             /\ u[j].from >= 0 => u[j].from \in DOMAIN b
    BY <1>5, Zenon DEF Ok
  <2> QED BY <2>1, <2>2, Zenon DEF StoresInside
<1>7. Covers(u, Q \cup R)
  <2> SUFFICES ASSUME NEW i \in Q \cup R PROVE \E j \in 1..Len(u) : u[j].at = i
    BY DEF Covers
  <2>1. CASE i \in Q
    <3>1. PICK j \in 1..Len(s) : s[j].at = i
      BY <2>1 DEF Covers
    <3>2. j \in 1..Len(u) /\ u[j] = s[j]
      BY <1>3, <1>4
    <3> QED BY <3>1, <3>2
  <2>2. CASE i \in R
    <3>1. PICK j \in 1..Len(t) : t[j].at = i
      BY <2>2 DEF Covers
    <3>2. Len(s) + j \in 1..Len(u) /\ u[Len(s) + j] = t[j]
      <4>1. /\ Len(s) + j \in 1..(Len(s) + Len(t)) /\ ~(Len(s) + j <= Len(s))
            /\ (Len(s) + j) - Len(s) = j
        BY <1>4
      <4> QED BY <1>3, <4>1
    <3> QED BY <3>1, <3>2
  <2> QED BY <2>1, <2>2
<1> QED BY <1>6, <1>7 DEF u

\* A sequence of stores, one after the other from a cell up.
LEMMA StoresRun ==
  ASSUME NEW b, NEW S, NEW o \in Nat, NEW n \in Nat, o + n <= cfg.cbuf, cfg.cbuf \in Nat,
         NEW s \in [1..n -> Stores],
         \A k \in 1..n : /\ s[k].at = o + k - 1
                         /\ s[k].from < 0 => s[k].char \in S
                         /\ s[k].from >= 0 => s[k].from \in DOMAIN b
  PROVE  StoresInside(s, b, S) /\ Covers(s, o..(o + n - 1))
<1>1. s \in Seq(Stores) /\ Len(s) = n
  OBVIOUS
<1>2. \A k \in 1..n : o + k - 1 \in 0..(cfg.cbuf - 1)
  OBVIOUS
<1>3. StoresInside(s, b, S)
  <2>1. s \in Seq([at: Int, from: Int, char: 0..Unset])
    BY <1>1 DEF Stores
  <2>2. \A k \in 1..Len(s) : /\ s[k].at \in 0..(cfg.cbuf - 1)
                             /\ s[k].from < 0 => s[k].char \in S
                             /\ s[k].from >= 0 => s[k].from \in DOMAIN b
    BY <1>1, <1>2
  <2> QED BY <2>1, <2>2, Zenon DEF StoresInside
<1>4. ASSUME NEW i \in o..(o + n - 1) PROVE \E j \in 1..Len(s) : s[j].at = i
  <2>1. i - o + 1 \in 1..n /\ o + (i - o + 1) - 1 = i
    OBVIOUS
  <2>2. s[i - o + 1].at = i
    BY <2>1
  <2> QED BY <1>1, <2>1, <2>2
<1> QED BY <1>3, <1>4 DEF Covers

LEMMA StoreTyped ==
  ASSUME NEW o \in Int
  PROVE  /\ \A c \in 0..Unset : /\ Char(o, c) \in Stores /\ Char(o, c).at = o
                                /\ Char(o, c).from < 0 /\ Char(o, c).char = c
         /\ \A i \in Nat : /\ Copy(o, i) \in Stores /\ Copy(o, i).at = o
                           /\ Copy(o, i).from = i /\ ~(Copy(o, i).from < 0)
<1>1. ASSUME NEW c \in 0..Unset
      PROVE  /\ Char(o, c) \in Stores /\ Char(o, c).at = o
             /\ Char(o, c).from < 0 /\ Char(o, c).char = c
  <2>1. -1 \in Int /\ -1 < 0
    OBVIOUS
  <2> QED BY <2>1 DEF Char, Stores
<1>2. ASSUME NEW i \in Nat
      PROVE  /\ Copy(o, i) \in Stores /\ Copy(o, i).at = o
             /\ Copy(o, i).from = i /\ ~(Copy(o, i).from < 0)
  <2>1. Unset \in 0..Unset /\ ~(i < 0) /\ i \in Int
    BY DEF Unset
  <2> QED BY <2>1 DEF Copy, Stores
<1> QED BY <1>1, <1>2

LEMMA CharsStores ==
  ASSUME NEW b, NEW S, S \subseteq 0..Unset, NEW o \in Nat, NEW s \in Seq(S),
         o + Len(s) <= cfg.cbuf, cfg.cbuf \in Nat
  PROVE  StoresInside(Chars(o, s), b, S) /\ Covers(Chars(o, s), o..(o + Len(s) - 1))
<1> DEFINE n == Len(s)
           t == Chars(o, s)
           V(k) == Char(o + k - 1, s[k])
<1>1. n \in Nat /\ \A k \in 1..n : s[k] \in S
  OBVIOUS
<1>2. t = [k \in 1..n |-> V(k)]
  BY DEF Chars
<1>3. ASSUME NEW k \in 1..n
      PROVE  V(k) \in Stores /\ V(k).at = o + k - 1 /\ V(k).from < 0 /\ V(k).char \in S
  <2>1. s[k] \in S
    BY <1>1
  <2>2. s[k] \in 0..Unset
    BY <2>1
  <2>3. o + k - 1 \in Int
    BY <1>1
  <2> QED BY <2>1, <2>2, <2>3, StoreTyped
<1> HIDE DEF V, t
<1>4. /\ t \in [1..n -> Stores]
      /\ \A k \in 1..n : /\ t[k].at = o + k - 1
                         /\ t[k].from < 0 => t[k].char \in S
                         /\ t[k].from >= 0 => t[k].from \in DOMAIN b
  <2>1. \A k \in 1..n : t[k] = V(k)
    BY <1>2
  <2>2. t \in [1..n -> Stores]
    BY <1>2, <1>3
  <2>3. ASSUME NEW k \in 1..n
        PROVE  /\ t[k].at = o + k - 1
               /\ t[k].from < 0 => t[k].char \in S
               /\ t[k].from >= 0 => t[k].from \in DOMAIN b
    <3>1. t[k].from < 0 /\ t[k].at = o + k - 1 /\ t[k].char \in S
      BY <1>3, <2>1
    <3>2. t[k].from \in Int
      BY <2>2 DEF Stores
    <3>3. ~(t[k].from >= 0)
      BY <3>1, <3>2
    <3> QED BY <3>1, <3>3
  <2> QED BY <2>2, <2>3
<1> HIDE DEF n
<1>5. StoresInside(t, b, S) /\ Covers(t, o..(o + n - 1))
  <2>1. o + n <= cfg.cbuf
    BY DEF n
  <2> QED BY <1>1, <1>4, <2>1, StoresRun
<1> QED BY <1>5 DEF t, n

LEMMA ZeroesStores ==
  ASSUME NEW b, NEW S, 0 \in S, NEW o \in Nat, NEW n \in Nat,
         o + n <= cfg.cbuf, cfg.cbuf \in Nat
  PROVE  StoresInside(Zeroes(o, n), b, S) /\ Covers(Zeroes(o, n), o..(o + n - 1))
<1> DEFINE t == Zeroes(o, n)
           V(k) == Char(o + k - 1, 0)
<1>1. t = [k \in 1..n |-> V(k)]
  BY DEF Zeroes
<1>2. ASSUME NEW k \in 1..n
      PROVE  V(k) \in Stores /\ V(k).at = o + k - 1 /\ V(k).from < 0 /\ V(k).char = 0
  <2>1. o + k - 1 \in Int /\ 0 \in 0..Unset
    BY DEF Unset
  <2> QED BY <2>1, StoreTyped
<1> HIDE DEF V, t
<1>3. t \in [1..n -> Stores] /\ \A k \in 1..n : t[k] = V(k)
  BY <1>1, <1>2
<1>4. ASSUME NEW k \in 1..n
      PROVE  /\ t[k].at = o + k - 1
             /\ t[k].from < 0 => t[k].char \in S
             /\ t[k].from >= 0 => t[k].from \in DOMAIN b
  <2>1. t[k].from < 0 /\ t[k].at = o + k - 1 /\ t[k].char \in S
    BY <1>2, <1>3
  <2>2. t[k].from \in Int
    BY <1>3 DEF Stores
  <2>3. ~(t[k].from >= 0)
    BY <2>1, <2>2
  <2> QED BY <2>1, <2>3
<1>5. StoresInside(t, b, S) /\ Covers(t, o..(o + n - 1))
  BY <1>3, <1>4, StoresRun
<1> QED BY <1>5 DEF t

LEMMA CopiesStores ==
  ASSUME NEW b, NEW S, NEW o \in Nat, NEW i \in Nat, NEW n \in Nat,
         o + n <= cfg.cbuf, cfg.cbuf \in Nat, i..(i + n - 1) \subseteq DOMAIN b
  PROVE  StoresInside(Copies(o, i, n), b, S) /\ Covers(Copies(o, i, n), o..(o + n - 1))
<1> DEFINE t == Copies(o, i, n)
           V(k) == Copy(o + k - 1, i + k - 1)
<1>1. t = [k \in 1..n |-> V(k)]
  BY DEF Copies
<1>2. ASSUME NEW k \in 1..n
      PROVE  V(k) \in Stores /\ V(k).at = o + k - 1 /\ V(k).from = i + k - 1 /\ ~(V(k).from < 0)
  <2>1. o + k - 1 \in Int /\ i + k - 1 \in Nat
    OBVIOUS
  <2> QED BY <2>1, StoreTyped
<1> HIDE DEF V, t
<1>3. t \in [1..n -> Stores] /\ \A k \in 1..n : t[k] = V(k)
  BY <1>1, <1>2
<1>4. ASSUME NEW k \in 1..n
      PROVE  /\ t[k].at = o + k - 1
             /\ t[k].from < 0 => t[k].char \in S
             /\ t[k].from >= 0 => t[k].from \in DOMAIN b
  <2>1. ~(t[k].from < 0) /\ t[k].at = o + k - 1 /\ t[k].from = i + k - 1
    BY <1>2, <1>3
  <2>2. i + k - 1 \in i..(i + n - 1)
    OBVIOUS
  <2>3. t[k].from \in DOMAIN b
    BY <2>1, <2>2
  <2> QED BY <2>1, <2>3
<1>5. StoresInside(t, b, S) /\ Covers(t, o..(o + n - 1))
  BY <1>3, <1>4, StoresRun
<1> QED BY <1>5 DEF t

\* One store, of a character or of a cell.
LEMMA CharStores ==
  ASSUME NEW b, NEW S, S \subseteq 0..Unset, NEW o \in Nat, o < cfg.cbuf, cfg.cbuf \in Nat, NEW c \in S
  PROVE  StoresInside(<<Char(o, c)>>, b, S) /\ Covers(<<Char(o, c)>>, {o})
<1> DEFINE s == <<c>>
           t == <<Char(o, c)>>
<1>1. s \in Seq(S) /\ Len(s) = 1
  OBVIOUS
<1>2. Chars(o, s) = t
  <2>1. Chars(o, s) = [k \in 1..1 |-> Char(o + k - 1, s[k])]
    BY <1>1 DEF Chars
  <2>2. \A k \in 1..1 : k = 1 /\ o + k - 1 = o /\ s[k] = c
    OBVIOUS
  <2> DEFINE x == Char(o, c)
  <2>3. [k \in 1..1 |-> Char(o + k - 1, s[k])] = [k \in 1..1 |-> x]
    BY <2>2
  <2> HIDE DEF x
  <2>4. [k \in 1..1 |-> x] = <<x>>
    OBVIOUS
  <2> QED BY <2>1, <2>3, <2>4 DEF x
<1> HIDE DEF s
<1>3. StoresInside(Chars(o, s), b, S) /\ Covers(Chars(o, s), o..(o + Len(s) - 1))
  <2>1. o + Len(s) <= cfg.cbuf
    BY <1>1
  <2> QED BY <1>1, <2>1, CharsStores
<1>4. o..(o + Len(s) - 1) = {o}
  BY <1>1
<1> QED BY <1>2, <1>3, <1>4

LEMMA CopyStores ==
  ASSUME NEW b, NEW S, NEW o \in Nat, o < cfg.cbuf, cfg.cbuf \in Nat, NEW i \in Nat, i \in DOMAIN b
  PROVE  StoresInside(<<Copy(o, i)>>, b, S) /\ Covers(<<Copy(o, i)>>, {o})
<1>1. Copies(o, i, 1) = <<Copy(o, i)>>
  <2>1. Copies(o, i, 1) = [k \in 1..1 |-> Copy(o + k - 1, i + k - 1)]
    BY DEF Copies
  <2>2. \A k \in 1..1 : k = 1 /\ o + k - 1 = o /\ i + k - 1 = i
    OBVIOUS
  <2> DEFINE x == Copy(o, i)
  <2>3. [k \in 1..1 |-> Copy(o + k - 1, i + k - 1)] = [k \in 1..1 |-> x]
    BY <2>2
  <2> HIDE DEF x
  <2>4. [k \in 1..1 |-> x] = <<x>>
    OBVIOUS
  <2> QED BY <2>1, <2>3, <2>4 DEF x
<1>2. o + 1 <= cfg.cbuf /\ i..(i + 1 - 1) \subseteq DOMAIN b /\ 1 \in Nat
  OBVIOUS
<1>3. StoresInside(Copies(o, i, 1), b, S) /\ Covers(Copies(o, i, 1), o..(o + 1 - 1))
  BY <1>2, CopiesStores
<1>4. o..(o + 1 - 1) = {o}
  OBVIOUS
<1> QED BY <1>1, <1>3, <1>4

\* What is laid out and printed.
LEMMA LaidOut ==
  ASSUME Inputs, Scalars, PlaceInv, pc = "Layout", NEW stores, NEW n \in 1..cfg.cbuf,
         StoresInside(stores, buf, 0..Minus), Covers(stores, 0..(n - 1)), LayOut(stores, n),
         UNCHANGED <<dec_f, fused>>
  PROVE  PlaceInv'
<1> DEFINE S == 0..Minus
<1>0. pc \in Generated
  BY DEF Generated
<1>1. /\ cfg.cbuf \in Nat /\ dec \in Int /\ end \in Int /\ nsig \in Int /\ tail \in BOOLEAN
      /\ buf \in Buffers(cfg.cbuf, SciCells)
  BY <1>0, GeneratingFinds, SciFinds
<1>2. SciCells \subseteq S /\ S \subseteq 0..Unset /\ Unset \notin S
  BY DEF SciCells, Minus, Unset
<1> HIDE DEF S
<1>3. buf \in Buffers(cfg.cbuf, S)
  BY <1>1, <1>2, BufferWider
<1>4. StoresInside(stores, buf, S)
  BY DEF S
<1>5. /\ Stored(buf, stores) \in Buffers(cfg.cbuf, S)
      /\ \A j \in 1..Len(stores) : stores[j].at \in DOMAIN Stored(buf, stores)
  BY <1>1, <1>2, <1>3, <1>4, StoredBuffer
<1>6. /\ buf' = Stored(buf, stores) /\ res' = [kind |-> "number", text |-> Text(buf', n)]
      /\ pc' = "Done" /\ UNCHANGED <<cfg, fs, dec, end, nsig, tail>>
  BY DEF LayOut, inputs
<1>7. 0..(n - 1) \subseteq DOMAIN buf'
  BY <1>5, <1>6 DEF Covers
<1> DEFINE t == Text(buf', n)
<1>8. Len(t) \in 1..cfg.cbuf /\ \A k \in DOMAIN t : t[k] # Unset
  <2> DEFINE b == buf'
  <2>1. b \in Buffers(cfg.cbuf, S) /\ 0..(n - 1) \subseteq DOMAIN b
    BY <1>5, <1>6, <1>7
  <2> HIDE DEF b
  <2>2. /\ Len(Text(b, n)) \in 1..cfg.cbuf
        /\ \A k \in DOMAIN Text(b, n) : Text(b, n)[k] # Unset
    BY <1>1, <1>2, <2>1, TextStored
  <2> QED BY <2>2 DEF b
<1>9. Outcome(res)'
  <2>1. res' = [kind |-> "number", text |-> t] /\ cfg' = cfg
    BY <1>6
  <2> HIDE DEF t
  <2> QED BY <1>8, <2>1 DEF Outcome
<1>10. SciInv'
  BY <1>6 DEF SciInv, SciBusy, Generated
<1>11. buf' \in Buffers(cfg.cbuf, 0..Minus)
  BY <1>5, <1>6 DEF S
<1> QED BY <1>1, <1>6, <1>9, <1>10, <1>11, SciTo

LEMMA LayoutFinds ==
  ASSUME Inputs, Scalars, PlaceInv, pc = "Layout"
  PROVE  /\ cfg.cbuf \in Nat /\ cfg.cbuf >= 3 /\ cfg.maxexp \in Nat \ {0} /\ Widest \in Nat \ {0}
         /\ dec \in Int /\ end \in Nat /\ nsig \in Nat \ {0} /\ end + nsig = cfg.cbuf
         /\ end..(cfg.cbuf - 1) \subseteq DOMAIN buf
         /\ mode.fmode => 1 <= dec + nsig /\ -mode.prec <= dec
         /\ ~mode.fmode => nsig <= mode.nsig_max
         /\ -(cfg.maxexp + 4) <= dec + nsig /\ dec + nsig <= cfg.maxexp + Widest + 1
         /\ mode.prec \in Nat /\ mode.nsig_max \in 1..(cfg.cbuf - 1) /\ ModeOk
<1>1. pc \in Generated /\ pc \in Counted
  BY DEF Generated, Counted
<1>2. /\ cfg.cbuf \in Nat /\ cfg.cbuf >= 3 /\ cfg.maxexp \in Nat \ {0} /\ Widest \in Nat \ {0}
      /\ dec \in Int
  BY <1>1, GeneratingFinds, SciFinds
<1>3. /\ ModeOk /\ end \in 0..cfg.cbuf /\ end..(cfg.cbuf - 1) \subseteq DOMAIN buf
      /\ Magnitude = dec + (cfg.cbuf - end)
      /\ mode.fmode => 1 <= Magnitude
      /\ -(cfg.maxexp + 4) <= Magnitude /\ Magnitude <= cfg.maxexp + Widest + 1
  BY <1>1, GeneratingFinds
<1>4. /\ nsig \in Int /\ nsig = cfg.cbuf - end /\ 1 <= nsig
      /\ mode.fmode => -mode.prec <= dec
      /\ ~mode.fmode => nsig <= mode.nsig_max
  BY <1>1, CountedFinds
<1>5. mode.prec \in Nat /\ mode.nsig_max \in 1..(cfg.cbuf - 1)
  BY <1>3, ModeFinds
<1>6. /\ end \in Nat /\ nsig \in Nat \ {0} /\ end + nsig = cfg.cbuf
      /\ Magnitude = dec + nsig
  BY <1>2, <1>3, <1>4
<1> QED BY <1>2, <1>3, <1>4, <1>5, <1>6

\* 1462-1486: <int>.<frac>, from the last decimal up.
LEMMA LayFixedPlaces ==
  ASSUME Inputs, Scalars, PlaceInv, LayFixed, UNCHANGED <<dec_f, fused>>
  PROVE  PlaceInv'
<1> DEFINE S == 0..Minus
           fz == FracZeros
           fg == FracGen
           iz == IntZeros
           ig == IntGen
           c == PointCells(mode.prec)
           point == fz + fg
           units == point + c
           n == units + iz + ig
           s == Zeroes(0, fz) \o Copies(fz, end, fg) \o <<Char(point, Dot)>>
                  \o Zeroes(units, iz) \o Copies(units + iz, end + fg, ig)
<1>0. pc = "Layout" /\ mode.fmode /\ pc \in SciBusy
  BY DEF LayFixed, SciBusy, Generated
<1>1. /\ cfg.cbuf \in Nat /\ dec \in Int /\ end \in Nat /\ nsig \in Nat \ {0}
      /\ end + nsig = cfg.cbuf /\ end..(cfg.cbuf - 1) \subseteq DOMAIN buf
      /\ 1 <= dec + nsig /\ -mode.prec <= dec /\ mode.prec \in Nat
  BY <1>0, LayoutFinds
<1>2. CASE Leave("ERR")
  BY <1>0, <1>2, SciLeaves
<1>3. CASE FixedFits /\ LayOut(s, n)
  <2>1. /\ ig \in Nat \ {0} /\ fg \in Nat /\ ig + fg = nsig /\ fg <= mode.prec
        /\ iz \in Nat
    <3>1. CASE dec >= 0
      <4>1. IntGen = nsig /\ IntZeros \in Nat
        BY <1>1, <3>1 DEF IntGen, IntZeros, Greater, Lesser
      <4>2. FracGen = 0
        BY <1>1, <4>1 DEF FracGen
      <4> QED BY <1>1, <4>1, <4>2
    <3>2. CASE dec < 0
      <4>1. IntGen = nsig + dec /\ IntZeros = 0
        BY <1>1, <3>2 DEF IntGen, IntZeros, Greater, Lesser
      <4>2. FracGen = -dec
        BY <1>1, <4>1 DEF FracGen
      <4> QED BY <1>1, <3>2, <4>1, <4>2
    <3> QED BY <1>1, <3>1, <3>2
  <2> HIDE DEF fg, ig, iz
  <2>2. fz \in Nat /\ fz + fg = mode.prec
    <3>1. FracZeros = Greater(0, mode.prec - fg)
      BY DEF FracZeros, fg
    <3> QED BY <1>1, <2>1, <3>1 DEF Greater
  <2> HIDE DEF fz
  <2>3. c \in {0, 1}
    BY DEF PointCells
  <2>4. ig + iz + c + mode.prec <= cfg.cbuf
    BY <1>3 DEF FixedFits, ig, iz
  <2> HIDE DEF c
  <2>5. /\ point \in Nat /\ point = mode.prec /\ point < cfg.cbuf /\ units \in Nat
        /\ units \in {point, point + 1} /\ n \in 1..cfg.cbuf /\ n = units + iz + ig
        /\ fz + fg <= cfg.cbuf /\ 0 + fz <= cfg.cbuf /\ units + iz \in Nat
        /\ units + iz <= cfg.cbuf /\ (units + iz) + ig <= cfg.cbuf
    BY <1>1, <2>1, <2>2, <2>3, <2>4
  <2>6. /\ end..(end + fg - 1) \subseteq DOMAIN buf
        /\ (end + fg)..((end + fg) + ig - 1) \subseteq DOMAIN buf /\ end + fg \in Nat
    BY <1>1, <2>1
  <2>7. 0 \in S /\ S \subseteq 0..Unset /\ Dot \in S
    BY DEF Minus, Unset, Dot
  <2> HIDE DEF S, units, n, point
  <2> DEFINE s1 == Zeroes(0, fz)
             s2 == Copies(fz, end, fg)
             s3 == <<Char(point, Dot)>>
             s4 == Zeroes(units, iz)
             s5 == Copies(units + iz, end + fg, ig)
  <2>8. StoresInside(s1, buf, S) /\ Covers(s1, 0..(0 + fz - 1))
    BY <1>1, <2>2, <2>5, <2>7, ZeroesStores
  <2>9. StoresInside(s2, buf, S) /\ Covers(s2, fz..(fz + fg - 1))
    BY <1>1, <2>1, <2>2, <2>5, <2>6, CopiesStores
  <2>10. StoresInside(s3, buf, S) /\ Covers(s3, {point})
    BY <1>1, <2>5, <2>7, CharStores
  <2>11. StoresInside(s4, buf, S) /\ Covers(s4, units..(units + iz - 1))
    BY <1>1, <2>1, <2>5, <2>7, ZeroesStores
  <2>12. StoresInside(s5, buf, S) /\ Covers(s5, (units + iz)..((units + iz) + ig - 1))
    <3>1. ig \in Nat
      BY <2>1
    <3> QED BY <1>1, <2>5, <2>6, <3>1, CopiesStores
  <2>13. s = s1 \o s2 \o s3 \o s4 \o s5
    OBVIOUS
  <2> HIDE DEF s1, s2, s3, s4, s5, s
  <2> DEFINE r1 == 0..(0 + fz - 1)
             r2 == fz..(fz + fg - 1)
             r3 == {point}
             r4 == units..(units + iz - 1)
             r5 == (units + iz)..((units + iz) + ig - 1)
  <2> HIDE DEF r1, r2, r3, r4, r5
  <2>14. StoresInside(s1 \o s2, buf, S) /\ Covers(s1 \o s2, r1 \cup r2)
    BY <2>8, <2>9, StoresJoined DEF r1, r2
  <2>15. StoresInside(s1 \o s2 \o s3, buf, S) /\ Covers(s1 \o s2 \o s3, (r1 \cup r2) \cup r3)
    BY <2>10, <2>14, StoresJoined DEF r3
  <2>16. /\ StoresInside(s1 \o s2 \o s3 \o s4, buf, S)
         /\ Covers(s1 \o s2 \o s3 \o s4, ((r1 \cup r2) \cup r3) \cup r4)
    BY <2>11, <2>15, StoresJoined DEF r4
  <2>17. /\ StoresInside(s, buf, S)
         /\ Covers(s, (((r1 \cup r2) \cup r3) \cup r4) \cup r5)
    BY <2>12, <2>13, <2>16, StoresJoined DEF r5
  <2>18. 0..(n - 1) \subseteq (((r1 \cup r2) \cup r3) \cup r4) \cup r5
    BY <2>1, <2>2, <2>5 DEF r1, r2, r3, r4, r5
  <2>19. Covers(s, 0..(n - 1))
    BY <2>17, <2>18 DEF Covers
  <2>20. StoresInside(s, buf, 0..Minus)
    BY <2>17 DEF S
  <2> QED BY <1>0, <1>3, <2>5, <2>19, <2>20, LaidOut
<1> QED BY <1>2, <1>3 DEF LayFixed

\* 1488-1515: the digits of an exponent.
LEMMA ExponentDigitsTyped ==
  ASSUME NEW x \in Nat, x < 10000
  PROVE  ExponentDigits(x) \in Seq(0..9) /\ Len(ExponentDigits(x)) \in 1..4
<1> DEFINE e == ExponentDigits(x)
<1>1. CASE x < 10
  <2>1. e = <<x, 0>>
    BY <1>1 DEF ExponentDigits
  <2>2. x \in 0..9
    BY <1>1
  <2>3. <<x, 0>> \in Seq(0..9) /\ Len(<<x, 0>>) = 2
    BY <2>2
  <2> HIDE DEF e
  <2>4. e \in Seq(0..9) /\ Len(e) \in 1..4
    BY <2>1, <2>3
  <2> QED BY <2>4 DEF e
<1>2. CASE ~(x < 10)
  <2>1. e = Numeral[x]
    BY <1>2 DEF ExponentDigits
  <2>2. Numeral[x] \in Seq(0..9) /\ Len(Numeral[x]) \in Nat \ {0}
    BY NumeralLen
  <2>3. Len(Numeral[x]) <= 4
    BY FourDigits
  <2> DEFINE l == Len(Numeral[x])
  <2>a. l \in Nat \ {0} /\ l <= 4
    BY <2>2, <2>3
  <2> HIDE DEF l
  <2>b. l \in 1..4
    BY <2>a
  <2>4. Len(Numeral[x]) \in 1..4
    BY <2>b DEF l
  <2> HIDE DEF e
  <2>5. e \in Seq(0..9) /\ Len(e) \in 1..4
    BY <2>1, <2>2, <2>4
  <2> QED BY <2>5 DEF e
<1> QED BY <1>1, <1>2

LEMMA LaySciPlaces ==
  ASSUME Inputs, Scalars, PlaceInv, LaySci, UNCHANGED <<dec_f, fused>>
  PROVE  PlaceInv'
<1> DEFINE S == 0..Minus
           x == TopExponent
           a == IF x < 0 THEN -x ELSE x
           sg == IF x < 0 THEN Minus ELSE Plus
           tail2 == <<sg, ExpChar>>
           e == ExponentDigits(a) \o tail2
           pe == IF mode.g THEN (IF Strip THEN nsig ELSE mode.prec) - 1 ELSE mode.prec
           pad == Greater(0, pe - (nsig - 1))
           point == Len(e) + pe
           top == point + PointCells(pe)
           s == Chars(0, e) \o Zeroes(Len(e), pad)
                  \o Copies(Len(e) + pad, cfg.cbuf - nsig, pe - pad)
                  \o <<Char(point, Dot), Copy(top, cfg.cbuf - 1)>>
<1>0. pc = "Layout" /\ ~mode.fmode /\ LayOut(s, top + 1)
  BY DEF LaySci
<1>1. /\ cfg.cbuf \in Nat /\ cfg.maxexp \in Nat \ {0} /\ Widest \in Nat \ {0}
      /\ dec \in Int /\ end \in Nat /\ nsig \in Nat \ {0} /\ end + nsig = cfg.cbuf
      /\ end..(cfg.cbuf - 1) \subseteq DOMAIN buf
      /\ nsig <= mode.nsig_max /\ mode.prec \in Nat /\ mode.nsig_max \in 1..(cfg.cbuf - 1)
      /\ -(cfg.maxexp + 4) <= dec + nsig /\ dec + nsig <= cfg.maxexp + Widest + 1
  BY <1>0, LayoutFinds
<1>2. /\ mode.nsig_max <= cfg.cbuf - 7
      /\ mode.g => mode.nsig_max = mode.prec
      /\ ~mode.g => mode.nsig_max = mode.prec + 1
  BY <1>0, LayoutFinds DEF ModeOk
<1>3. a \in Nat /\ a < 10000
  <2>1. cfg.maxexp + Widest <= 9990
    BY BuildFacts
  <2>2. x = dec + nsig - 1
    BY DEF TopExponent
  <2> HIDE DEF x
  <2> QED BY <1>1, <2>1, <2>2
<1>4. sg \in S /\ ExpChar \in S /\ 0..9 \subseteq S /\ 0 \in S /\ Dot \in S /\ S \subseteq 0..Unset
  BY DEF Minus, Plus, ExpChar, Dot, Unset
<1> HIDE DEF x, a, sg, S
<1>5. e \in Seq(S) /\ Len(e) \in 3..6
  <2> DEFINE d == ExponentDigits(a)
  <2>1. d \in Seq(0..9) /\ Len(d) \in 1..4
    BY <1>3, ExponentDigitsTyped
  <2> HIDE DEF d
  <2>2. d \in Seq(S)
    BY <1>4, <2>1
  <2>3. tail2 \in Seq(S) /\ Len(tail2) = 2
    BY <1>4
  <2> HIDE DEF tail2
  <2>4. d \o tail2 \in Seq(S) /\ Len(d \o tail2) = Len(d) + Len(tail2)
    BY <2>2, <2>3, ConcatProperties
  <2> DEFINE f == d \o tail2
             ld == Len(d)
  <2>5. f \in Seq(S) /\ Len(f) = ld + 2 /\ ld \in 1..4
    BY <2>1, <2>3, <2>4
  <2> HIDE DEF ld, f
  <2>6. Len(f) \in 3..6
    BY <2>5
  <2> QED BY <2>5, <2>6 DEF f, d
<1> HIDE DEF e
<1> DEFINE le == Len(e)
<1>6. le \in 3..6
  BY <1>5
<1>7. pe \in Nat /\ nsig - 1 <= pe /\ pe <= mode.nsig_max - 1
  <2>1. CASE mode.g
    <3>1. CASE Strip
      <4>1. pe = nsig - 1
        BY <2>1, <3>1
      <4> HIDE DEF pe
      <4> QED BY <1>1, <4>1
    <3>2. CASE ~Strip
      <4>1. pe = mode.prec - 1
        BY <2>1, <3>2
      <4> HIDE DEF pe
      <4> QED BY <1>1, <1>2, <2>1, <4>1
    <3> QED BY <3>1, <3>2
  <2>2. CASE ~mode.g
    <3>1. pe = mode.prec
      BY <2>2
    <3> HIDE DEF pe
    <3> QED BY <1>1, <1>2, <2>2, <3>1
  <2> QED BY <2>1, <2>2
<1> HIDE DEF pe
<1>8. pad \in Nat /\ pad = pe - (nsig - 1) /\ pe - pad = nsig - 1
  BY <1>1, <1>7 DEF Greater
<1> HIDE DEF pad
<1>9. PointCells(pe) \in {0, 1}
  BY DEF PointCells
<1> DEFINE c == PointCells(pe)
<1>10. c \in {0, 1} /\ point = le + pe /\ top = point + c
  BY <1>9
<1> HIDE DEF le, c, point, top
<1>11. /\ point \in Nat /\ top \in Nat /\ point < cfg.cbuf /\ top < cfg.cbuf
       /\ top + 1 \in 1..cfg.cbuf /\ top \in {point, point + 1}
       /\ le \in Nat /\ 0 + le <= cfg.cbuf /\ le + pad <= cfg.cbuf /\ le + pad \in Nat
       /\ (le + pad) + (nsig - 1) <= cfg.cbuf /\ nsig - 1 \in Nat
       /\ (le + pad) + (nsig - 1) = point
  BY <1>1, <1>2, <1>6, <1>7, <1>8, <1>10
<1> DEFINE s1 == Chars(0, e)
           s2 == Zeroes(le, pad)
           s3 == Copies(le + pad, end, nsig - 1)
           s4 == <<Char(point, Dot)>>
           s5 == <<Copy(top, cfg.cbuf - 1)>>
<1>12. StoresInside(s1, buf, S) /\ Covers(s1, 0..(le - 1))
  <2>1. 0 \in Nat /\ 0 + Len(e) <= cfg.cbuf
    BY <1>11 DEF le
  <2>2. StoresInside(s1, buf, S) /\ Covers(s1, 0..(0 + Len(e) - 1))
    BY <1>1, <1>4, <1>5, <2>1, CharsStores
  <2>3. 0 + Len(e) - 1 = le - 1
    BY <1>11 DEF le
  <2> QED BY <2>2, <2>3
<1>13. StoresInside(s2, buf, S) /\ Covers(s2, le..(le + pad - 1))
  BY <1>1, <1>4, <1>8, <1>11, ZeroesStores
<1>14. StoresInside(s3, buf, S) /\ Covers(s3, (le + pad)..((le + pad) + (nsig - 1) - 1))
  <2>1. end..(end + (nsig - 1) - 1) \subseteq DOMAIN buf
    BY <1>1
  <2> QED BY <1>1, <1>11, <2>1, CopiesStores
<1>15. StoresInside(s4, buf, S) /\ Covers(s4, {point})
  BY <1>1, <1>4, <1>11, CharStores
<1>16. StoresInside(s5, buf, S) /\ Covers(s5, {top})
  <2>1. cfg.cbuf - 1 \in Nat /\ cfg.cbuf - 1 \in DOMAIN buf
    BY <1>1
  <2> QED BY <1>1, <1>11, <2>1, CopyStores
<1>17. s = s1 \o s2 \o s3 \o (s4 \o s5)
  <2>1. cfg.cbuf - nsig = end /\ pe - pad = nsig - 1
    BY <1>1, <1>8
  <2> DEFINE p == Char(point, Dot)
             q == Copy(top, cfg.cbuf - 1)
  <2>2. <<p, q>> = <<p>> \o <<q>>
    <3> HIDE DEF p, q
    <3>1. <<p>> \in Seq({p, q}) /\ q \in {p, q}
      OBVIOUS
    <3>2. Append(<<p>>, q) = <<p>> \o <<q>>
      BY <3>1, AppendIsConcat
    <3>3. Append(<<p>>, q) = <<p, q>>
      <4> DEFINE v == Append(<<p>>, q)
                 w == <<p, q>>
      <4>1. Len(<<p>>) = 1 /\ <<p>>[1] = p
        OBVIOUS
      <4>2. v \in Seq({p, q}) /\ Len(v) = 2 /\ v[1] = p /\ v[2] = q
        BY <3>1, <4>1, AppendProperties
      <4>3. w \in Seq({p, q}) /\ Len(w) = 2 /\ w[1] = p /\ w[2] = q
        OBVIOUS
      <4> HIDE DEF v, w
      <4>4. \A i \in 1..Len(v) : v[i] = w[i]
        <5>1. \A i \in 1..2 : i = 1 \/ i = 2
          OBVIOUS
        <5> QED BY <4>2, <4>3, <5>1
      <4>5. v = w
        BY <4>2, <4>3, <4>4, SeqEqual
      <4> QED BY <4>5 DEF v, w
    <3> QED BY <3>2, <3>3
  <2>3. s4 \o s5 = <<Char(point, Dot), Copy(top, cfg.cbuf - 1)>>
    BY <2>2
  <2> HIDE DEF s4, s5, p, q
  <2> QED BY <2>1, <2>3, Zenon DEF le
<1> HIDE DEF s1, s2, s3, s4, s5, s
<1> DEFINE r1 == 0..(le - 1)
           r2 == le..(le + pad - 1)
           r3 == (le + pad)..((le + pad) + (nsig - 1) - 1)
           r4 == {point}
           r5 == {top}
<1> HIDE DEF r1, r2, r3, r4, r5
<1>18. StoresInside(s1 \o s2, buf, S) /\ Covers(s1 \o s2, r1 \cup r2)
  BY <1>12, <1>13, StoresJoined DEF r1, r2
<1>19. StoresInside(s1 \o s2 \o s3, buf, S) /\ Covers(s1 \o s2 \o s3, (r1 \cup r2) \cup r3)
  BY <1>14, <1>18, StoresJoined DEF r3
<1>20. StoresInside(s4 \o s5, buf, S) /\ Covers(s4 \o s5, r4 \cup r5)
  BY <1>15, <1>16, StoresJoined DEF r4, r5
<1>21. StoresInside(s, buf, S) /\ Covers(s, ((r1 \cup r2) \cup r3) \cup (r4 \cup r5))
  BY <1>17, <1>19, <1>20, StoresJoined
<1>22. 0..((top + 1) - 1) \subseteq ((r1 \cup r2) \cup r3) \cup (r4 \cup r5)
  BY <1>1, <1>7, <1>8, <1>11 DEF r1, r2, r3, r4, r5
<1>23. Covers(s, 0..((top + 1) - 1))
  BY <1>21, <1>22 DEF Covers
<1>24. StoresInside(s, buf, 0..Minus)
  BY <1>21 DEF S
<1> QED BY <1>0, <1>11, <1>23, <1>24, LaidOut

LEMMA SciPlaces ==
  ASSUME ScaleInv, Scalars, PlaceInv, SciNext, UNCHANGED <<dec_f, fused>>
  PROVE  PlaceInv'
<1>1. Inputs
  BY DEF ScaleInv
<1> QED
  BY <1>1, StartPlaces, GeneratePlaces, IntegerPlaces, ScaleIntPlaces, IntDigitsPlaces,
     ScaleFracPlaces, NudgePlaces, EmitPlaces, LeftoverPlaces, SignificantPlaces, RoundPlaces,
     ShortestPlaces, LayFixedPlaces, LaySciPlaces, Zenon
  DEF SciNext

-----------------------------------------------------------------------------
(* %a.                                                                       *)

\* 1559-1569: the nibbles are shifted out one by one, of each of which the top bit is kept.
LEMMA RoundedTurns ==
  ASSUME Inputs, fs.prec \in Nat
  PROVE  /\ FracNibbles \in Nat /\ HexDigits \in Nat /\ HexDigits <= FracNibbles
         /\ \E f : /\ f[0].bin = Bin /\ f[0].carry = 0
                   /\ \A k \in 0..FracNibbles : f[k].bin \in Nat /\ f[k].carry \in {0, 1}
                   /\ \A k \in 1..FracNibbles : /\ f[k].bin = f[k - 1].bin \div 16
                                                /\ f[k].carry = RoundBit(f[k - 1].bin)
                   /\ Rounded = f[FracNibbles - HexDigits].bin + f[FracNibbles - HexDigits].carry
<1> DEFINE N == FracNibbles
           T == [bin: Nat, carry: {0, 1}]
           b == [bin |-> Bin, carry |-> 0]
           E(x) == [bin |-> x.bin \div 16, carry |-> RoundBit(x.bin)]
           Step == [k \in 1..N |-> [x \in T |-> E(x)]]
           F == CHOOSE f : f = [k \in 0..N |->
                  IF k = 0 THEN [bin |-> Bin, carry |-> 0]
                  ELSE [bin |-> f[k - 1].bin \div 16, carry |-> RoundBit(f[k - 1].bin)]]
<1>1. N \in Nat /\ HexDigits \in Nat /\ HexDigits <= N
  <2>1. cfg.man \in Nat
    BY BuildFacts
  <2>2. (cfg.man + 3) \div 4 \in Nat
    BY <2>1
  <2>3. N \in Nat
    BY <2>2 DEF FracNibbles
  <2> HIDE DEF N
  <2>4. Lesser(fs.prec, N) \in Nat /\ Lesser(fs.prec, N) <= N
    BY <2>3 DEF Lesser
  <2> QED BY <2>3, <2>4 DEF HexDigits, N
<1>2. b \in T
  BY RealApart
<1>3. ASSUME NEW x \in T PROVE E(x) \in T
  <2> DEFINE n == x.bin
  <2>1. n \in Nat
    OBVIOUS
  <2> HIDE DEF n
  <2>2. n \div 16 \in Nat /\ (n \div 8) % 2 \in {0, 1}
    BY <2>1
  <2> QED BY <2>2 DEF RoundBit, n
<1> HIDE DEF N
<1>4. Turns(Step, N, T)
  <2> HIDE DEF E, T
  <2> QED BY <1>3 DEF Turns
<1>5. PICK f \in [0..N -> T] : f = [k \in 0..N |-> IF k = 0 THEN b ELSE Step[k][f[k - 1]]]
  <2>1. N \in Nat /\ b \in T /\ Turns(Step, N, T)
    BY <1>1, <1>2, <1>4
  <2> HIDE DEF Step, T, b
  <2>2. \E f \in [0..N -> T] : f = [k \in 0..N |-> IF k = 0 THEN b ELSE Step[k][f[k - 1]]]
    BY ONLY <2>1, Iteration
  <2> QED BY <2>2, Zenon
<1>6. f = [k \in 0..N |-> IF k = 0 THEN b ELSE E(f[k - 1])]
  <2>1. ASSUME NEW k \in 0..N
        PROVE  (IF k = 0 THEN b ELSE Step[k][f[k - 1]]) = (IF k = 0 THEN b ELSE E(f[k - 1]))
    <3> HIDE DEF E, T, b
    <3>1. CASE k # 0
      <4>1. k \in 1..N /\ k - 1 \in 0..N
        BY <1>1, <3>1
      <4>2. f[k - 1] \in T
        BY <4>1
      <4>3. Step[k][f[k - 1]] = E(f[k - 1])
        BY <4>1, <4>2
      <4> QED BY <3>1, <4>3, Zenon
    <3> QED BY <3>1, Zenon
  <2> HIDE DEF Step, E, T, b
  <2> QED BY <1>5, <2>1
<1>7. F = [k \in 0..N |-> IF k = 0 THEN b ELSE E(F[k - 1])]
  <2> DEFINE G == CHOOSE g : g = [k \in 0..N |-> IF k = 0 THEN b ELSE E(g[k - 1])]
  <2>1. F = G
    BY Zenon
  <2> HIDE DEF F, E, b
  <2>2. G = [k \in 0..N |-> IF k = 0 THEN b ELSE E(G[k - 1])]
    BY <1>6
  <2> HIDE DEF G
  <2> QED BY <2>1, <2>2
<1>8. Rounded = F[N - HexDigits].bin + F[N - HexDigits].carry
  BY Zenon DEF Rounded, N
<1> HIDE DEF F
<1>9. F[0] = b /\ \A k \in 1..N : F[k] = E(F[k - 1])
  <2> HIDE DEF E, b
  <2>1. \A k \in 1..N : k \in 0..N /\ k # 0
    BY <1>1
  <2>2. 0 \in 0..N
    BY <1>1
  <2> QED BY <1>7, <2>1, <2>2
<1> DEFINE G == {k \in Nat : F[k] \in T}
<1>10. \A k \in 0..(N - 1) : k \in G => k + 1 \in G
  <2> SUFFICES ASSUME NEW k \in 0..(N - 1), F[k] \in T PROVE F[k + 1] \in T
    OBVIOUS
  <2>1. k + 1 \in 1..N /\ (k + 1) - 1 = k
    BY <1>1
  <2> HIDE DEF E, T
  <2>2. F[k + 1] = E(F[k])
    <3>1. F[k + 1] = E(F[(k + 1) - 1])
      BY <1>9, <2>1
    <3> QED BY <2>1, <3>1, Zenon
  <2> DEFINE y == F[k]
  <2>3. y \in T
    OBVIOUS
  <2> HIDE DEF y
  <2>4. E(y) \in T
    BY <1>3, <2>3
  <2> QED BY <2>2, <2>4 DEF y
<1>11. 0..N \subseteq G
  <2>1. 0 \in G
    BY <1>2, <1>9
  <2> HIDE DEF G
  <2> QED BY <1>1, <1>10, <2>1, InductionUpTo
<1>12. \A k \in 0..N : F[k] \in T
  BY <1>11
<1> HIDE DEF F
<1>13. /\ F[0].bin = Bin /\ F[0].carry = 0
       /\ \A k \in 0..N : F[k].bin \in Nat /\ F[k].carry \in {0, 1}
       /\ \A k \in 1..N : /\ F[k].bin = F[k - 1].bin \div 16
                          /\ F[k].carry = RoundBit(F[k - 1].bin)
  <2>1. F[0].bin = Bin /\ F[0].carry = 0
    BY <1>9
  <2>2. \A k \in 0..N : F[k].bin \in Nat /\ F[k].carry \in {0, 1}
    BY <1>12
  <2>3. ASSUME NEW k \in 1..N
        PROVE  F[k].bin = F[k - 1].bin \div 16 /\ F[k].carry = RoundBit(F[k - 1].bin)
    <3>1. F[k] = E(F[k - 1])
      <4> HIDE DEF E
      <4> QED BY <1>9
    <3> DEFINE y == F[k - 1]
    <3>2. F[k] = [bin |-> y.bin \div 16, carry |-> RoundBit(y.bin)]
      BY <3>1
    <3> HIDE DEF y
    <3>3. F[k].bin = y.bin \div 16 /\ F[k].carry = RoundBit(y.bin)
      BY <3>2
    <3> QED BY <3>3 DEF y
  <2> QED BY <2>1, <2>2, <2>3
<1> QED BY <1>1, <1>8, <1>13 DEF N

\* What is left and its carry add up to a number.
LEMMA RoundedNat ==
  ASSUME Inputs, fs.prec \in Nat
  PROVE  Rounded \in Nat /\ HexDigits \in Nat /\ HexDigits <= FracNibbles /\ FracNibbles \in Nat
<1> DEFINE D == FracNibbles - HexDigits
<1>1. PICK f : /\ \A k \in 0..FracNibbles : f[k].bin \in Nat /\ f[k].carry \in {0, 1}
               /\ Rounded = f[D].bin + f[D].carry
  BY RoundedTurns
<1>2. FracNibbles \in Nat /\ HexDigits \in Nat /\ HexDigits <= FracNibbles
  BY RoundedTurns
<1>3. D \in 0..FracNibbles
  BY <1>2
<1> HIDE DEF D
<1>4. f[D].bin \in Nat /\ f[D].carry \in {0, 1}
  BY <1>1, <1>3
<1> DEFINE x == f[D].bin
           y == f[D].carry
<1>5. Rounded = x + y /\ x \in Nat /\ y \in {0, 1}
  BY <1>1, <1>4
<1> HIDE DEF x, y
<1>6. Rounded \in Nat
  BY <1>5
<1> QED BY <1>2, <1>6

\* 1545-1610: the text of %a fits the array.
LEMMA HexCellsFit ==
  ASSUME Inputs, Scalars, cfg.man % 4 = 0
  PROVE  HexCells \in Seq(0..Minus) /\ Len(HexCells) \in 1..cfg.cbuf
<1> DEFINE S == 0..Minus
           R == Rounded
           H == HexDigits
           x == HexExponent
           a == IF x < 0 THEN -x ELSE x
           s1 == Numeral[a]
           s2 == <<IF x < 0 THEN Minus ELSE Plus, ExpChar>>
           s3 == Nibbles(R, H)
           s4 == IF H > 0 \/ fs.alt THEN <<Dot>> ELSE <<>>
           s5 == <<(R \div Pow[4 * H]) % 16>>
<1>0. S = 0..19
  BY DEF Minus
<1>1. /\ cfg \in Builds /\ cfg.cbuf \in Nat /\ cfg.maxexp \in Nat /\ cfg.maxexp <= 9989
      /\ cfg.man \in Nat /\ cfg.man \div 4 + 8 <= cfg.cbuf
      /\ cfg.bin \in Nat /\ cfg.man < cfg.bin
  <2>1. cfg \in Builds
    BY DEF Inputs
  <2>2. cfg.bin \in Nat /\ cfg.man < cfg.bin /\ cfg.man \in Nat
    BY <2>1, BuildsAssumption
  <2>3. /\ cfg.cbuf \in Nat /\ cfg.maxexp \in Nat /\ Widest \in Nat \ {0}
        /\ cfg.maxexp + Widest <= 9990 /\ cfg.man \div 4 + 8 <= cfg.cbuf
    BY BuildFacts
  <2> QED BY <2>1, <2>2, <2>3
<1>2. R \in Nat /\ H \in Nat /\ H <= FracNibbles /\ FracNibbles \in Nat
  BY RoundedNat, FormatFacts
<1>3. H <= cfg.man \div 4 /\ 4 * H <= cfg.man
  <2>1. FracNibbles = (cfg.man + 3) \div 4
    BY DEF FracNibbles
  <2> DEFINE m == cfg.man
  <2>2. m \in Nat /\ m % 4 = 0
    BY <1>1
  <2> HIDE DEF m
  <2>3. (m + 3) \div 4 = m \div 4 /\ 4 * (m \div 4) = m
    BY <2>2
  <2> HIDE DEF H
  <2>4. H <= m \div 4 /\ 4 * H <= m
    BY <1>2, <2>1, <2>3 DEF m
  <2> QED BY <2>4 DEF m
<1>4. a \in Nat /\ a < 10000
  <2>1. x \in Int /\ -cfg.maxexp <= x /\ x <= cfg.maxexp
    BY <1>1, ExponentRange DEF HexExponent
  <2> HIDE DEF x
  <2> QED BY <1>1, <2>1
<1>5. s1 \in Seq(S) /\ Len(s1) \in 1..4
  <2> HIDE DEF a
  <2>1. Numeral[a] \in Seq(0..9) /\ Len(Numeral[a]) \in Nat \ {0} /\ Len(Numeral[a]) <= 4
    BY <1>4, NumeralLen, FourDigits
  <2> HIDE DEF s1
  <2>2. s1 \in Seq(0..9) /\ Len(s1) \in Nat \ {0} /\ Len(s1) <= 4
    BY <2>1 DEF s1
  <2> DEFINE l == Len(s1)
  <2>3. l \in Nat \ {0} /\ l <= 4
    BY <2>2
  <2> HIDE DEF l
  <2>4. l \in 1..4
    BY <2>3
  <2>5. s1 \in Seq(S)
    <3>1. 0..9 \subseteq S
      BY <1>0
    <3> HIDE DEF S
    <3> QED BY <2>2, <3>1, SeqMonotonic
  <2> QED BY <2>4, <2>5 DEF l
<1>6. s2 \in Seq(S) /\ Len(s2) = 2
  <2> DEFINE c == IF x < 0 THEN Minus ELSE Plus
  <2>1. c \in S /\ ExpChar \in S
    BY <1>0 DEF Minus, Plus, ExpChar
  <2> HIDE DEF c, S
  <2>2. <<c, ExpChar>> \in Seq(S) /\ Len(<<c, ExpChar>>) = 2
    BY <2>1
  <2> QED BY <2>2 DEF c
<1> HIDE DEF R, H
<1>7. ASSUME NEW k \in Nat, k <= H PROVE (R \div Pow[4 * k]) % 16 \in S
  <2>1. 4 * k \in Nat /\ 4 * k <= cfg.bin
    BY <1>1, <1>2, <1>3, <1>7
  <2>2. Pow[4 * k] \in Nat \ {0}
    BY <1>1, <2>1, PowerReached
  <2> DEFINE q == R \div Pow[4 * k]
  <2>3. q \in Nat
    BY <1>2, <2>2, DivisionNat
  <2> HIDE DEF q
  <2>4. q % 16 \in 0..19
    BY <2>3
  <2> QED BY <1>0, <2>4 DEF q
<1>8. s3 \in Seq(S) /\ Len(s3) = H
  <2> DEFINE c == [i \in 1..H |-> (R \div Pow[4 * (i - 1)]) % 16]
  <2>1. c \in [1..H -> S]
    <3>1. ASSUME NEW i \in 1..H PROVE (R \div Pow[4 * (i - 1)]) % 16 \in S
      <4>1. i - 1 \in Nat /\ i - 1 <= H
        BY <1>2
      <4> HIDE DEF S
      <4> QED BY <1>7, <4>1
    <3> HIDE DEF S
    <3> QED BY <3>1
  <2>2. s3 = c
    BY DEF Nibbles
  <2> HIDE DEF c, s3, S
  <2>3. c \in Seq(S) /\ Len(c) = H
    BY <1>2, <2>1
  <2> QED BY <2>2, <2>3
<1>9. s4 \in Seq(S) /\ Len(s4) \in 0..1
  <2>1. Dot \in S
    BY <1>0 DEF Dot
  <2> HIDE DEF S
  <2>2. <<Dot>> \in Seq(S) /\ Len(<<Dot>>) = 1
    BY <2>1
  <2>3. <<>> \in Seq(S) /\ Len(<<>>) = 0
    OBVIOUS
  <2>4. CASE H > 0 \/ fs.alt
    <3>1. s4 = <<Dot>>
      BY <2>4, Zenon
    <3> HIDE DEF s4
    <3> QED BY <2>2, <3>1
  <2>5. CASE ~(H > 0 \/ fs.alt)
    <3>1. s4 = <<>>
      BY <2>5, Zenon
    <3> HIDE DEF s4
    <3> QED BY <2>3, <3>1
  <2> QED BY <2>4, <2>5
<1>10. s5 \in Seq(S) /\ Len(s5) = 1
  <2> DEFINE c == (R \div Pow[4 * H]) % 16
  <2>1. c \in S
    BY <1>2, <1>7
  <2> HIDE DEF c, S
  <2>2. <<c>> \in Seq(S) /\ Len(<<c>>) = 1
    BY <2>1
  <2> QED BY <2>2 DEF c
<1>11. HexCells = s1 \o s2 \o s3 \o s4 \o s5
  BY Zenon DEF HexCells, R, H
<1> HIDE DEF s1, s2, s3, s4, s5, a, x, S
<1>12. s1 \o s2 \in Seq(S) /\ Len(s1 \o s2) = Len(s1) + Len(s2)
  BY <1>5, <1>6, ConcatProperties
<1>13. s1 \o s2 \o s3 \in Seq(S) /\ Len(s1 \o s2 \o s3) = Len(s1 \o s2) + Len(s3)
  BY <1>8, <1>12, ConcatProperties
<1>14. s1 \o s2 \o s3 \o s4 \in Seq(S) /\ Len(s1 \o s2 \o s3 \o s4) = Len(s1 \o s2 \o s3) + Len(s4)
  BY <1>9, <1>13, ConcatProperties
<1>15. /\ s1 \o s2 \o s3 \o s4 \o s5 \in Seq(S)
       /\ Len(s1 \o s2 \o s3 \o s4 \o s5) = Len(s1 \o s2 \o s3 \o s4) + Len(s5)
  BY <1>10, <1>14, ConcatProperties
<1> DEFINE n == cfg.man \div 4
           C == cfg.cbuf
           l1 == Len(s1)
           l4 == Len(s4)
           L == Len(s1 \o s2 \o s3 \o s4 \o s5)
<1>16. L = l1 + 2 + H + l4 + 1
  BY <1>5, <1>6, <1>8, <1>9, <1>10, <1>12, <1>13, <1>14, <1>15
<1>17. l1 \in 1..4 /\ l4 \in 0..1 /\ C \in Nat /\ H \in Nat /\ H <= n /\ n + 8 <= C /\ n \in Nat
  <2>1. cfg.man \div 4 \in Nat
    BY <1>1
  <2> QED BY <1>1, <1>2, <1>3, <1>5, <1>9, <2>1
<1> HIDE DEF n, C, l1, l4, L
<1>18. L \in 1..C
  BY <1>16, <1>17
<1> QED BY <1>11, <1>15, <1>18 DEF L, C, S

LEMMA HexPlaces ==
  ASSUME Inputs, Scalars, PlaceInv, Hex, UNCHANGED <<dec_f, mode, nsig, tail, run, fused>>
  PROVE  PlaceInv'
<1>0. /\ pc = "Hex" /\ fs.conv = "a" /\ cfg.man % 4 = 0
      /\ buf \in Buffers(cfg.cbuf, 0..9)
      /\ Locals /\ Outcome(res) /\ Outcome(fused)
  BY DEF Hex, PlaceInv, SciInv
<1>1. UNCHANGED <<cfg, fs, dec, end, dec_f, mode, nsig, tail, fused>>
  BY DEF Hex, inputs
<1>2. cfg' = cfg /\ fs' = fs /\ Locals' /\ Outcome(fused)'
  <2>1. cfg' = cfg /\ fs' = fs
    BY <1>1
  <2>2. Locals'
    BY <1>0, <1>1 DEF Locals
  <2>3. Outcome(fused)'
    BY <1>0, <1>1 DEF Outcome
  <2> QED BY <2>1, <2>2, <2>3
<1>3. CASE pc' = "Start" /\ UNCHANGED <<buf, res>>
  <2>1. FusedInv'
    BY <1>3 DEF FusedInv, FusedBusy
  <2>2. SciInv'
    <3>1. buf' \in Buffers(cfg'.cbuf, 0..9)
      BY <1>0, <1>2, <1>3
    <3> QED BY <1>3, <3>1 DEF SciInv, SciBusy, Generated
  <2>3. Outcome(res)'
    BY <1>0, <1>2, <1>3 DEF Outcome
  <2>4. pc' \in Places /\ (pc' = "Done" => buf' \in Buffers(cfg'.cbuf, 0..Minus))
    BY <1>3 DEF Places
  <2>5. (fs'.conv = "a" => cfg'.man % 4 = 0) /\ (pc' = "Hex" => fs'.conv = "a")
    BY <1>0, <1>2
  <2> QED BY <1>2, <2>1, <2>2, <2>3, <2>4, <2>5, Zenon DEF PlaceInv
<1>4. CASE /\ buf' = PutRun(Blank, 0, HexCells)
           /\ res' = [kind |-> "number", text |-> Text(buf', Len(HexCells))]
           /\ pc' = "Done"
  <2> DEFINE s == HexCells
             C == cfg.cbuf
             l == Len(s)
             S == 0..Minus
  <2>1. s \in Seq(S) /\ l \in 1..C /\ C \in Nat
    BY <1>0, HexCellsFit, BuildFacts
  <2>2. Blank \in Buffers(C, S) /\ DOMAIN Blank = {}
    BY BlankBuffer
  <2> HIDE DEF s, C, S
  <2>3. 0 \in Nat /\ 0 + l <= C /\ 0 + l - 1 = l - 1
    BY <2>1
  <2>4. PutRun(Blank, 0, s) \in Buffers(C, S)
    BY <2>1, <2>2, <2>3, PutRunBuffer
  <2>5. DOMAIN PutRun(Blank, 0, s) = DOMAIN Blank \cup 0..(0 + l - 1)
    BY PutRunDomain
  <2>6. buf' = PutRun(Blank, 0, s) /\ res' = [kind |-> "number", text |-> Text(buf', l)]
    BY <1>4 DEF s
  <2> HIDE DEF l
  <2>7. buf' \in Buffers(C, S) /\ 0..(l - 1) \subseteq DOMAIN buf'
    BY <2>3, <2>4, <2>5, <2>6
  <2>8. Unset \notin S
    BY DEF S, Minus, Unset
  <2>9. PICK b : b = buf'
    OBVIOUS
  <2>10. /\ Len(Text(b, l)) \in 1..C
         /\ \A k \in DOMAIN Text(b, l) : Text(b, l)[k] # Unset
    BY <2>1, <2>7, <2>8, <2>9, TextStored
  <2>11. Outcome(res)'
    <3>1. res'.kind = "number" /\ res'.text = Text(b, l)
      BY <2>6, <2>9
    <3>2. Len(res'.text) \in 1..cfg'.cbuf /\ \A k \in DOMAIN res'.text : res'.text[k] # Unset
      BY <1>2, <2>10, <3>1, Zenon DEF C
    <3> QED BY <3>1, <3>2 DEF Outcome
  <2>12. FusedInv' /\ SciInv'
    BY <1>4 DEF FusedInv, FusedBusy, SciInv, SciBusy, Generated
  <2>13. pc' \in Places /\ (pc' = "Done" => buf' \in Buffers(cfg'.cbuf, 0..Minus))
    BY <1>2, <1>4, <2>7 DEF Places, C, S
  <2>14. (fs'.conv = "a" => cfg'.man % 4 = 0) /\ (pc' = "Hex" => fs'.conv = "a")
    BY <1>0, <1>2
  <2> QED BY <1>2, <2>11, <2>12, <2>13, <2>14, Zenon DEF PlaceInv
<1> QED BY <1>3, <1>4, Zenon DEF Hex

LEMMA UnifiedPlaces ==
  ASSUME Inputs, PlaceInv, Unified
  PROVE  PlaceInv'
<1>1. /\ pc = "FusedDone" /\ pc' = "Start" /\ fused' = res /\ res' = Nothing /\ buf' = Blank
      /\ UNCHANGED <<cfg, fs, dec, end, dec_f, nsig, tail>>
  BY DEF Unified, inputs
<1>2. Locals' /\ Outcome(fused)' /\ Outcome(res)'
  <2>1. Locals /\ Outcome(res)
    BY DEF PlaceInv
  <2>2. Locals'
    BY <1>1, <2>1 DEF Locals
  <2>3. Outcome(fused)'
    BY <1>1, <2>1 DEF Outcome
  <2>4. Outcome(res)'
    BY <1>1 DEF Outcome, Nothing
  <2> QED BY <2>2, <2>3, <2>4
<1>3. buf' \in Buffers(cfg'.cbuf, 0..9)
  BY <1>1, BlankBuffer
<1>4. FusedInv' /\ SciInv'
  BY <1>1, <1>3 DEF FusedInv, FusedBusy, SciInv, SciBusy, Generated
<1>5. pc' \in Places /\ (pc' = "Done" => buf' \in Buffers(cfg'.cbuf, 0..Minus))
  BY <1>1 DEF Places
<1>6. (fs'.conv = "a" => cfg'.man % 4 = 0) /\ (pc' = "Hex" => fs'.conv = "a")
  BY <1>1 DEF PlaceInv
<1> QED BY <1>2, <1>4, <1>5, <1>6, Zenon DEF PlaceInv

LEMMA PlacesKept ==
  ASSUME PlaceInv, UNCHANGED vars
  PROVE  PlaceInv'
<1>1. UNCHANGED <<cfg, real, fs, pc, exp, man, carry, left, digit, dec, end, buf, res,
                  dec_f, mode, nsig, tail, run, fused>>
  BY DEF vars, fusedVars, inputs, scale, place
<1>2. FusedInv' /\ SciInv'
  <2>1. FusedInv /\ SciInv
    BY DEF PlaceInv
  <2>2. FusedInv'
    BY <1>1, <2>1 DEF FusedInv
  <2>3. /\ Magnitude' = Magnitude /\ FirstLeft' = FirstLeft /\ Lowest' = Lowest
        /\ Widest' = Widest /\ ModeOk' = ModeOk
    BY <1>1, SameParameters DEF Magnitude, FirstLeft, ShiftF, Lowest, ModeOk
  <2>4. SciInv'
    BY <1>1, <2>1, <2>3 DEF SciInv
  <2> QED BY <2>2, <2>4
<1> QED BY <1>1, <1>2 DEF PlaceInv, Locals, Outcome

LEMMA PlaceInvInit == ASSUME Init PROVE PlaceInv
<1>1. /\ fs \in Formats /\ (fs.conv = "a" => cfg.man % 4 = 0)
      /\ pc = CASE fs.conv = "a" -> "Hex" [] fs.conv = "f" -> "FusedStart" [] OTHER -> "Start"
      /\ dec = 0 /\ end = 0 /\ buf = Blank /\ dec_f = 0 /\ nsig = 0 /\ tail = FALSE
      /\ res = Nothing /\ fused = Nothing
  BY DEF Init
<1>2. pc \in {"Hex", "FusedStart", "Start"} /\ (pc = "Hex" => fs.conv = "a")
  <2>1. CASE fs.conv = "a"
    BY <1>1, <2>1
  <2>2. CASE fs.conv = "f"
    BY <1>1, <2>2
  <2>3. CASE fs.conv # "a" /\ fs.conv # "f"
    BY <1>1, <2>3
  <2> QED BY <2>1, <2>2, <2>3
<1>3. \A S : buf \in Buffers(cfg.cbuf, S)
  BY <1>1, BlankBuffer
<1>4. FusedInv /\ SciInv
  BY <1>2, <1>3 DEF FusedInv, FusedBusy, SciInv, SciBusy, Generated
<1>5. Locals /\ Outcome(res) /\ Outcome(fused)
  <2>1. Locals
    <3>1. dec \in Int /\ end \in Int /\ dec_f \in Int /\ nsig \in Int
      BY <1>1
    <3>2. tail \in BOOLEAN
      BY <1>1, Zenon
    <3> QED BY <3>1, <3>2, Zenon DEF Locals
  <2>2. Outcome(Nothing)
    BY DEF Outcome, Nothing
  <2> QED BY <1>1, <2>1, <2>2
<1>6. pc \in Places /\ pc # "Done"
  BY <1>2 DEF Places
<1> QED BY <1>1, <1>2, <1>4, <1>5, <1>6 DEF PlaceInv

\* All of it together is inductive: the places read what the scaling bounds.
FloatInv == ScaleInv /\ Scalars /\ PlaceInv

LEMMA FloatInvNext == FloatInv /\ [Next]_vars => FloatInv'
<1> SUFFICES ASSUME ScaleInv, Scalars, PlaceInv, [Next]_vars PROVE FloatInv'
  BY DEF FloatInv
<1>1. Inputs
  BY DEF ScaleInv
<1>2. ScaleInv'
  BY ScaleInvNext
<1>3. Scalars'
  BY ScalarsNext
<1>4. PlaceInv'
  <2>1. CASE FusedNext /\ UNCHANGED <<mode, nsig, tail, run, fused>>
    BY <2>1, FusedPlaces
  <2>2. CASE Unified
    BY <1>1, <2>2, UnifiedPlaces
  <2>3. CASE SciNext /\ UNCHANGED <<dec_f, fused>>
    BY <2>3, SciPlaces
  <2>4. CASE Hex /\ UNCHANGED <<dec_f, mode, nsig, tail, run, fused>>
    BY <1>1, <2>4, HexPlaces
  <2>5. CASE UNCHANGED vars
    BY <2>5, PlacesKept
  <2> QED BY <2>1, <2>2, <2>3, <2>4, <2>5, Zenon DEF Next, Done
<1> QED BY <1>2, <1>3, <1>4 DEF FloatInv

\* The invariant holds in every state that the converters reach.
THEOREM FloatInvHolds == Spec => []FloatInv
<1>1. Init => FloatInv
  BY ScaleInvInit, ScalarsInit, PlaceInvInit DEF FloatInv
<1>2. FloatInv /\ [Next]_vars => FloatInv'
  BY FloatInvNext
<1> QED BY <1>1, <1>2, PTL DEF Spec

\* What the array holds is a character, wherever the call is.
LEMMA CellsTyped == ASSUME PlaceInv PROVE buf \in Buffers(cfg.cbuf, 0..Unset)
<1> USE DEF Unset, Minus, Dot
<1>1. CASE pc \in FusedBusy \cup {"FusedStart", "FusedDone"}
  <2>1. buf \in Buffers(cfg.cbuf, (0..9) \cup {Dot})
    BY <1>1 DEF PlaceInv, FusedInv
  <2>2. (0..9) \cup {Dot} \subseteq 0..Unset
    OBVIOUS
  <2> QED BY <2>1, <2>2, BufferWider
<1>2. CASE pc \in SciBusy \cup {"Hex", "Start"}
  <2>1. buf \in Buffers(cfg.cbuf, 0..9)
    BY <1>2 DEF PlaceInv, SciInv
  <2>2. 0..9 \subseteq 0..Unset
    OBVIOUS
  <2> QED BY <2>1, <2>2, BufferWider
<1>3. CASE pc = "Done"
  <2>1. buf \in Buffers(cfg.cbuf, 0..Minus)
    BY <1>3 DEF PlaceInv
  <2>2. 0..Minus \subseteq 0..Unset
    OBVIOUS
  <2> QED BY <2>1, <2>2, BufferWider
<1> QED BY <1>1, <1>2, <1>3 DEF PlaceInv, Places

LEMMA Typed == FloatInv => TypeOK
<1> SUFFICES ASSUME ScaleInv, Scalars, PlaceInv PROVE TypeOK
  BY DEF FloatInv
<1>1. cfg \in Builds
  BY DEF ScaleInv, Inputs
<1>2. \A k \in DOMAIN buf : buf[k] \in 0..Unset
  BY CellsTyped, BufferFacts
<1>3. Locals /\ Outcome(res) /\ Outcome(fused)
  BY DEF PlaceInv
<1> QED BY <1>1, <1>2, <1>3 DEF TypeOK, Scalars, Locals, Outcome

LEMMA Within == FloatInv => WithinBuf
<1> SUFFICES ASSUME ScaleInv, Scalars, PlaceInv PROVE WithinBuf
  BY DEF FloatInv
<1>1. DOMAIN buf \subseteq 0..(cfg.cbuf - 1)
  BY CellsTyped, BufferFacts
<1>2. pc = "Round" => end < cfg.cbuf
  <2> SUFFICES ASSUME pc = "Round" PROVE end < cfg.cbuf
    OBVIOUS
  <2>1. nsig = cfg.cbuf - end /\ 1 <= nsig
    BY DEF PlaceInv, SciInv
  <2>2. cfg.cbuf \in Nat /\ end \in Int
    BY BuildFacts DEF ScaleInv, PlaceInv, Locals
  <2> QED BY <2>1, <2>2
<1>3. Outcome(res) /\ Outcome(fused)
  BY DEF PlaceInv
<1> QED BY <1>1, <1>2, <1>3 DEF WithinBuf, Outcome

\* The locals of the three converters keep their types, and so does what they store.
THEOREM FloatTypes == Spec => []TypeOK
<1>1. FloatInv => TypeOK
  BY Typed
<1> QED BY <1>1, FloatInvHolds, PTL

\* Whatever the width of the intermediate and the size of the array, no store leaves
\* it and no cell is printed that was not stored (1298-1306, 1136, 1473-1515).
THEOREM FloatsInBuf == Spec => []WithinBuf
<1>1. FloatInv => WithinBuf
  BY Within
<1> QED BY <1>1, FloatInvHolds, PTL

-----------------------------------------------------------------------------
(* Every call returns.                                                       *)

\* No place is twice in the order.
LEMMA OrderApart ==
  /\ DOMAIN Order = 1..21
  /\ \A i, j \in DOMAIN Order : Order[i] = Order[j] => i = j
  BY DEF Order

\* How far a place is.
Rank(p) == CHOOSE k \in DOMAIN Order : Order[k] = p

LEMMA RankOf ==
  ASSUME NEW k \in DOMAIN Order
  PROVE  Rank(Order[k]) = k
<1>1. Rank(Order[k]) \in DOMAIN Order /\ Order[Rank(Order[k])] = Order[k]
  BY DEF Rank
<1> QED BY <1>1, OrderApart

LEMMA Ranks ==
  /\ Rank("FusedStart") = 1 /\ Rank("FusedInteger") = 2 /\ Rank("FusedScaleInt") = 3
  /\ Rank("FusedScaleFrac") = 4 /\ Rank("FusedEmit") = 5 /\ Rank("FusedTie") = 6
  /\ Rank("FusedRound") = 7 /\ Rank("FusedDone") = 8 /\ Rank("Hex") = 9 /\ Rank("Start") = 10
  /\ Rank("Generate") = 11 /\ Rank("Integer") = 12 /\ Rank("ScaleInt") = 13
  /\ Rank("ScaleFrac") = 14 /\ Rank("Emit") = 15 /\ Rank("Tail") = 16
  /\ Rank("Significant") = 17 /\ Rank("Round") = 18 /\ Rank("Shortest") = 19
  /\ Rank("Layout") = 20 /\ Rank("Done") = 21
<1>1. \A k \in 1..21 : Rank(Order[k]) = k
  BY OrderApart, RankOf
<1>2. /\ Order[1] = "FusedStart" /\ Order[2] = "FusedInteger" /\ Order[3] = "FusedScaleInt"
      /\ Order[4] = "FusedScaleFrac" /\ Order[5] = "FusedEmit" /\ Order[6] = "FusedTie"
      /\ Order[7] = "FusedRound" /\ Order[8] = "FusedDone" /\ Order[9] = "Hex"
      /\ Order[10] = "Start" /\ Order[11] = "Generate" /\ Order[12] = "Integer"
      /\ Order[13] = "ScaleInt" /\ Order[14] = "ScaleFrac" /\ Order[15] = "Emit"
      /\ Order[16] = "Tail" /\ Order[17] = "Significant" /\ Order[18] = "Round"
      /\ Order[19] = "Shortest" /\ Order[20] = "Layout" /\ Order[21] = "Done"
  BY DEF Order
<1> QED BY <1>1, <1>2

\* A step goes on to a later place, makes a loop shorter or ends %g.
Advances == Rank(pc') > Rank(pc)
Shortens == pc' = pc /\ LoopLeft' < LoopLeft /\ LoopLeft > 0
StepsOn == Advances \/ Shortens \/ (mode.g /\ ~mode'.g)

LEMMA ReachedRank == Reached = Rank(pc) /\ Reached' = Rank(pc')
  BY DEF Reached, Rank

LEMMA FusedStepsOn ==
  ASSUME ScaleInv, Scalars, PlaceInv, FusedNext
  PROVE  StepsOn
<1>0. left \in Int /\ dec \in Int /\ dec_f \in Int /\ cfg.cbuf \in Nat
  BY BuildFacts DEF ScaleInv, Scalars, PlaceInv, Locals
<1>1. ASSUME NEW kind, FusedLeave(kind), pc \in FusedBusy \cup {"FusedStart"}
      PROVE  Advances
  <2>1. pc' = "FusedDone"
    BY <1>1 DEF FusedLeave
  <2> QED BY <1>1, <2>1, Ranks DEF Advances, FusedBusy
<1>2. CASE FusedStart
  <2>1. pc = "FusedStart" /\ (pc' = "FusedInteger" \/ \E kind : FusedLeave(kind))
    BY <1>2, Zenon DEF FusedStart
  <2>2. CASE pc' = "FusedInteger"
    BY <2>1, <2>2, Ranks DEF StepsOn, Advances
  <2> QED BY <1>1, <2>1, <2>2 DEF StepsOn
<1>3. CASE FusedInteger
  BY <1>3, Ranks DEF FusedInteger, StepsOn, Advances
<1>4. CASE FusedScaleInt
  <2>1. pc = "FusedScaleInt" /\ left > 0
        /\ (\/ pc' = pc /\ left' = left - 1
            \/ \E kind : FusedLeave(kind))
    BY <1>4, Zenon DEF FusedScaleInt
  <2>2. CASE pc' = pc /\ left' = left - 1
    <3>1. LoopLeft = left /\ LoopLeft' = left'
      BY <2>1, <2>2 DEF LoopLeft
    <3> QED BY <1>0, <2>1, <2>2, <3>1 DEF StepsOn, Shortens
  <2> QED BY <1>1, <2>1, <2>2 DEF StepsOn, FusedBusy
<1>5. CASE FusedIntDigits
  <2>1. pc = "FusedScaleInt"
        /\ (\/ pc' \in {"FusedScaleFrac", "FusedEmit"}
            \/ \E kind : FusedLeave(kind))
    BY <1>5, Zenon DEF FusedIntDigits
  <2>2. CASE pc' \in {"FusedScaleFrac", "FusedEmit"}
    BY <2>1, <2>2, Ranks DEF StepsOn, Advances
  <2> QED BY <1>1, <2>1, <2>2 DEF StepsOn, FusedBusy
<1>6. CASE FusedScaleFrac
  <2>1. pc = "FusedScaleFrac" /\ pc' = pc /\ left < 4 /\ left' = left + 1
    BY <1>6 DEF FusedScaleFrac, ScaleFraction
  <2>2. LoopLeft = 4 - left /\ LoopLeft' = 4 - left'
    BY <2>1 DEF LoopLeft
  <2> QED BY <1>0, <2>1, <2>2 DEF StepsOn, Shortens
<1>7. CASE FusedNudge
  <2>1. pc = "FusedScaleFrac" /\ pc' \in {"FusedEmit", "FusedTie"}
    BY <1>7 DEF FusedNudge
  <2> QED BY <2>1, Ranks DEF StepsOn, Advances
<1>8. CASE FusedEmit
  <2>1. pc = "FusedEmit"
        /\ (pc' = "FusedTie" \/ (pc' = pc /\ dec_f > 0 /\ dec_f' = dec_f - 1))
    BY <1>8, Zenon DEF FusedEmit
  <2>2. CASE pc' = "FusedTie"
    BY <2>1, <2>2, Ranks DEF StepsOn, Advances
  <2>3. CASE pc' = pc /\ dec_f > 0 /\ dec_f' = dec_f - 1
    <3>1. LoopLeft = dec_f /\ LoopLeft' = dec_f'
      BY <2>1, <2>3 DEF LoopLeft
    <3> QED BY <1>0, <2>3, <3>1 DEF StepsOn, Shortens
  <2> QED BY <2>1, <2>2, <2>3
<1>9. CASE FusedTie
  BY <1>9, Ranks DEF FusedTie, StepsOn, Advances
<1>10. CASE FusedRound
  <2>1. pc = "FusedRound"
        /\ (\/ \E kind : FusedLeave(kind)
            \/ pc' = pc /\ cfg' = cfg /\ ~(dec >= cfg.cbuf) /\ dec' = dec + 1)
    BY <1>10, Zenon DEF FusedRound, NoRoomToRound, inputs
  <2>2. CASE pc' = pc /\ cfg' = cfg /\ ~(dec >= cfg.cbuf) /\ dec' = dec + 1
    <3>1. LoopLeft = cfg.cbuf - dec /\ LoopLeft' = cfg'.cbuf - dec'
      BY <2>1, <2>2 DEF LoopLeft
    <3> QED BY <1>0, <2>2, <3>1 DEF StepsOn, Shortens
  <2> QED BY <1>1, <2>1, <2>2 DEF StepsOn, FusedBusy
<1>11. CASE FusedReturn
  BY <1>11, Ranks DEF FusedReturn, StepsOn, Advances
<1> QED
  BY <1>2, <1>3, <1>4, <1>5, <1>6, <1>7, <1>8, <1>9, <1>10, <1>11, Zenon DEF FusedNext

LEMMA SciStepsOn ==
  ASSUME ScaleInv, Scalars, PlaceInv, SciNext
  PROVE  StepsOn
<1>0. left \in Int /\ end \in Int /\ cfg.cbuf \in Nat
  BY BuildFacts DEF ScaleInv, Scalars, PlaceInv, Locals
<1>1. ASSUME NEW kind, Leave(kind), pc \in SciBusy \cup {"Start"}
      PROVE  Advances
  <2>1. pc' = "Done"
    BY <1>1 DEF Leave
  <2> QED BY <1>1, <2>1, Ranks DEF Advances, SciBusy, Generated
<1>2. CASE Start
  <2>1. pc = "Start" /\ (pc' = "Generate" \/ \E kind : Leave(kind))
    BY <1>2, Zenon DEF Start
  <2>2. CASE pc' = "Generate"
    BY <2>1, <2>2, Ranks DEF StepsOn, Advances
  <2> QED BY <1>1, <2>1, <2>2 DEF StepsOn
<1>3. CASE Generate
  BY <1>3, Ranks DEF Generate, StepsOn, Advances
<1>4. CASE Integer
  BY <1>4, Ranks DEF Integer, StepsOn, Advances
<1>5. CASE ScaleInt
  <2>1. pc = "ScaleInt" /\ pc' = pc /\ left > 0 /\ left' = left - 1
    BY <1>5 DEF ScaleInt
  <2>2. LoopLeft = left /\ LoopLeft' = left'
    BY <2>1 DEF LoopLeft
  <2> QED BY <1>0, <2>1, <2>2 DEF StepsOn, Shortens
<1>6. CASE IntDigits
  <2>1. pc = "ScaleInt"
        /\ (\/ pc' \in {"ScaleFrac", "Tail", "Significant"}
            \/ \E kind : Leave(kind))
    BY <1>6, Zenon DEF IntDigits
  <2>2. CASE pc' \in {"ScaleFrac", "Tail", "Significant"}
    BY <2>1, <2>2, Ranks DEF StepsOn, Advances
  <2> QED BY <1>1, <2>1, <2>2 DEF StepsOn, SciBusy
<1>7. CASE ScaleFrac
  <2>1. pc = "ScaleFrac" /\ pc' = pc /\ left < 4 /\ left' = left + 1
    BY <1>7 DEF ScaleFrac, ScaleFraction
  <2>2. LoopLeft = 4 - left /\ LoopLeft' = 4 - left'
    BY <2>1 DEF LoopLeft
  <2> QED BY <1>0, <2>1, <2>2 DEF StepsOn, Shortens
<1>8. CASE Nudge
  <2>1. pc = "ScaleFrac" /\ pc' \in {"Emit", "Tail"}
    BY <1>8 DEF Nudge
  <2> QED BY <2>1, Ranks DEF StepsOn, Advances
<1>9. CASE Emit
  <2>1. pc = "Emit" /\ (pc' = "Tail" \/ pc' = pc) /\ end' = end - 1
        /\ cfg' = cfg /\ mode' = mode
    BY <1>9, Zenon DEF Emit, inputs
  <2>2. CASE pc' = "Tail"
    BY <2>1, <2>2, Ranks DEF StepsOn, Advances
  <2>3. CASE pc' = pc
    <3>1. LoopLeft = end - Lowest /\ LoopLeft' = end' - Lowest'
      BY <2>1, <2>3 DEF LoopLeft
    <3>2. Lowest' = Lowest
      BY <2>1 DEF Lowest
    <3>3. Lowest \in Int /\ Lowest < end
      BY <1>0, <2>1 DEF Lowest, PlaceInv, SciInv, SciBusy, Generated, ModeOk
    <3> QED BY <1>0, <2>1, <2>3, <3>1, <3>2, <3>3 DEF StepsOn, Shortens
  <2> QED BY <2>1, <2>2, <2>3
<1>10. CASE Leftover
  BY <1>10, Ranks DEF Leftover, StepsOn, Advances
<1>11. CASE Significant
  <2>1. pc = "Significant" /\ pc' = "Round"
    BY <1>11, Zenon DEF Significant
  <2> QED BY <2>1, Ranks DEF StepsOn, Advances
<1>12. CASE Round
  <2>1. pc = "Round" /\ pc' = "Shortest"
    BY <1>12, Zenon DEF Round
  <2> QED BY <2>1, Ranks DEF StepsOn, Advances
<1>13. CASE Shortest
  <2>1. pc = "Shortest" /\ (pc' = "Layout" \/ (mode.g /\ \E p : mode' = FixedMode(p)))
    BY <1>13, Zenon DEF Shortest
  <2>2. CASE pc' = "Layout"
    BY <2>1, <2>2, Ranks DEF StepsOn, Advances
  <2>3. CASE mode.g /\ \E p : mode' = FixedMode(p)
    BY <2>3 DEF StepsOn, FixedMode
  <2> QED BY <2>1, <2>2, <2>3
<1>14. CASE LayFixed
  <2>1. pc = "Layout" /\ ((\E kind : Leave(kind)) \/ \E s, n : LayOut(s, n))
    BY <1>14, Zenon DEF LayFixed
  <2>2. pc' = "Done"
    BY <2>1 DEF Leave, LayOut
  <2> QED BY <2>1, <2>2, Ranks DEF StepsOn, Advances
<1>15. CASE LaySci
  <2>1. pc = "Layout" /\ \E s, n : LayOut(s, n)
    BY <1>15, Zenon DEF LaySci
  <2>2. pc' = "Done"
    BY <2>1 DEF LayOut
  <2> QED BY <2>1, <2>2, Ranks DEF StepsOn, Advances
<1> QED
  BY <1>2, <1>3, <1>4, <1>5, <1>6, <1>7, <1>8, <1>9, <1>10, <1>11, <1>12, <1>13, <1>14, <1>15,
     Zenon
  DEF SciNext

\* Every step of a call goes on, so that it returns (with no deadlock, which the run
\* checks): 1007-1147, 1260-1515.
THEOREM FloatsEnd == Spec => Descends
<1>1. FloatInv /\ [Next]_vars =>
        [\/ Reached' > Reached
         \/ pc' = pc /\ LoopLeft' < LoopLeft /\ LoopLeft > 0
         \/ mode.g /\ ~mode'.g]_vars
  <2> SUFFICES ASSUME ScaleInv, Scalars, PlaceInv, Next, ~UNCHANGED vars
               PROVE  StepsOn
    <3>1. StepsOn => (\/ Reached' > Reached
                      \/ pc' = pc /\ LoopLeft' < LoopLeft /\ LoopLeft > 0
                      \/ mode.g /\ ~mode'.g)
      BY ReachedRank, Zenon DEF StepsOn, Advances, Shortens
    <3> QED BY <3>1, Zenon DEF FloatInv
  <2>1. CASE Unified
    BY <2>1, Ranks DEF Unified, StepsOn, Advances
  <2>2. CASE Hex
    <3>1. pc = "Hex" /\ (pc' = "Start" \/ pc' = "Done")
      BY <2>2, Zenon DEF Hex
    <3> QED BY <3>1, Ranks DEF StepsOn, Advances
  <2> QED BY <2>1, <2>2, FusedStepsOn, SciStepsOn, Zenon DEF Next, Done
<1> QED BY <1>1, FloatInvHolds, PTL DEF Spec, Descends

-----------------------------------------------------------------------------
(* Reading a text back.                                                      *)

\* What stands before the first of a character.
LEMMA BeforeIs ==
  ASSUME NEW t, NEW n \in Nat, DOMAIN t = 1..n, NEW c, NEW k \in 0..n,
         \A j \in 1..k : t[j] # c, k < n => t[k + 1] = c
  PROVE  Cardinality(Before(t, c)) = k
<1> DEFINE B == Before(t, c)
<1>1. B = 1..k
  <2>1. ASSUME NEW i \in B PROVE i \in 1..k
    <3>1. i \in 1..n /\ \A j \in 1..i : t[j] # c
      BY DEF Before
    <3>2. k < i => k + 1 \in 1..i
      BY <3>1
    <3> QED BY <3>1, <3>2
  <2>2. ASSUME NEW i \in 1..k PROVE i \in B
    <3>1. i \in 1..n /\ \A j \in 1..i : j \in 1..k
      OBVIOUS
    <3> QED BY <3>1 DEF Before
  <2> QED BY <2>1, <2>2
<1>2. Cardinality(1..k) = k
  BY FS_Interval
<1> QED BY <1>1, <1>2

\* The value of a numeral satisfies the recursion that defines it.
LEMMA NumberIs ==
  ASSUME NEW s, NEW n \in Nat, Len(s) = n, \A k \in 1..n : s[k] \in Nat, NEW base \in Nat
  PROVE  \E g \in [0..n -> Nat] :
            /\ g[0] = 0 /\ \A k \in 1..n : g[k] = g[k - 1] * base + s[k]
            /\ NumberOf(s, base) = g[n]
<1> DEFINE E(y, k) == y * base + s[k]
           Step == [k \in 1..n |-> [y \in Nat |-> E(y, k)]]
           F == CHOOSE f : f = [k \in 0..n |-> IF k = 0 THEN 0 ELSE E(f[k - 1], k)]
<1>1. ASSUME NEW y \in Nat, NEW k \in 1..n PROVE E(y, k) \in Nat
  OBVIOUS
<1>2. Turns(Step, n, Nat)
  <2> HIDE DEF E
  <2> QED BY <1>1 DEF Turns
<1>3. PICK f \in [0..n -> Nat] : f = [k \in 0..n |-> IF k = 0 THEN 0 ELSE Step[k][f[k - 1]]]
  <2> DEFINE T == Nat
             b == 0
  <2>1. b \in T /\ Turns(Step, n, T)
    BY <1>2
  <2> HIDE DEF Step, T, b
  <2>2. \E f \in [0..n -> T] : f = [k \in 0..n |-> IF k = 0 THEN b ELSE Step[k][f[k - 1]]]
    BY <2>1, Iteration
  <2> QED BY <2>2 DEF T, b
<1>4. f = [k \in 0..n |-> IF k = 0 THEN 0 ELSE E(f[k - 1], k)]
  <2>1. ASSUME NEW k \in 0..n
        PROVE  (IF k = 0 THEN 0 ELSE Step[k][f[k - 1]]) = (IF k = 0 THEN 0 ELSE E(f[k - 1], k))
    <3> HIDE DEF E
    <3>1. CASE k # 0
      <4>1. k \in 1..n /\ k - 1 \in 0..n
        BY <3>1
      <4>2. f[k - 1] \in Nat
        BY <4>1
      <4>3. Step[k][f[k - 1]] = E(f[k - 1], k)
        BY <4>1, <4>2
      <4> QED BY <3>1, <4>3, Zenon
    <3> QED BY <3>1
  <2> HIDE DEF E, Step
  <2> QED BY <2>1, <1>3, Zenon
<1>5. F = [k \in 0..n |-> IF k = 0 THEN 0 ELSE E(F[k - 1], k)]
  <2> HIDE DEF E
  <2> QED BY <1>4
<1>6. NumberOf(s, base) = F[n]
  BY DEF NumberOf
<1> HIDE DEF F
<1>7. F[0] = 0 /\ \A k \in 1..n : F[k] = E(F[k - 1], k)
  <2> HIDE DEF E
  <2>1. 0 \in 0..n /\ \A k \in 1..n : k \in 0..n /\ k # 0
    OBVIOUS
  <2> QED BY <1>5, <2>1
<1>8. \A k \in 0..n : F[k] \in Nat
  <2> DEFINE G == {k \in Nat : F[k] \in Nat}
  <2>1. 0 \in G
    BY <1>7
  <2>2. ASSUME NEW k \in 0..(n - 1), k \in G PROVE k + 1 \in G
    <3>1. k + 1 \in 1..n /\ (k + 1) - 1 = k
      OBVIOUS
    <3>2. F[k + 1] = E(F[k], k + 1)
      <4>1. F[k + 1] = E(F[(k + 1) - 1], k + 1)
        <5> HIDE DEF E
        <5> QED BY <1>7, <3>1
      <4> QED BY <3>1, <4>1, Zenon
    <3> DEFINE y == F[k]
               i == k + 1
    <3>3. y \in Nat /\ i \in 1..n /\ F[i] = E(y, i)
      BY <2>2, <3>1, <3>2
    <3> HIDE DEF y, i, E, F
    <3>4. F[i] \in Nat
      BY <1>1, <3>3
    <3> QED BY <3>1, <3>4 DEF i
  <2> HIDE DEF G
  <2>3. 0..n \subseteq G
    BY <2>1, <2>2, InductionUpTo
  <2> QED BY <2>3 DEF G
<1>9. F \in [0..n -> Nat]
  <2>1. DOMAIN F = 0..n
    <3> HIDE DEF E
    <3> QED BY <1>5
  <2>2. F = [k \in 0..n |-> F[k]]
    <3> HIDE DEF E
    <3> QED BY <1>5, <2>1
  <2> QED BY <1>8, <2>2
<1> QED BY <1>6, <1>7, <1>9

\* So it is the last entry of any table that satisfies it.
Sums(s, n, base, h) ==
  /\ Len(s) = n /\ h[0] = 0
  /\ \A k \in 1..n : s[k] \in Nat /\ h[k] = h[k - 1] * base + s[k]

\* A table that satisfies the recursion of a numeral holds its value.
LEMMA NumberOfTable ==
  ASSUME NEW s, NEW n \in Nat, NEW base \in Nat, NEW h, Sums(s, n, base, h)
  PROVE  NumberOf(s, base) = h[n]
<1>0. /\ Len(s) = n /\ h[0] = 0
      /\ \A k \in 1..n : s[k] \in Nat
      /\ \A k \in 1..n : h[k] = h[k - 1] * base + s[k]
  BY DEF Sums
<1>1. PICK g \in [0..n -> Nat] :
            /\ g[0] = 0 /\ \A k \in 1..n : g[k] = g[k - 1] * base + s[k]
            /\ NumberOf(s, base) = g[n]
  BY <1>0, NumberIs
<1> DEFINE G == {k \in Nat : g[k] = h[k]}
<1>2. 0 \in G
  BY <1>0, <1>1
<1>3. ASSUME NEW k \in 0..(n - 1), k \in G PROVE k + 1 \in G
  <2>1. k + 1 \in 1..n /\ (k + 1) - 1 = k
    OBVIOUS
  <2>2. g[k + 1] = g[(k + 1) - 1] * base + s[k + 1]
    BY <1>1, <2>1
  <2>3. h[k + 1] = h[(k + 1) - 1] * base + s[k + 1]
    BY <1>0, <2>1
  <2>4. g[k] = h[k]
    BY <1>3
  <2>5. g[k + 1] = h[k + 1]
    BY <2>1, <2>2, <2>3, <2>4, Zenon
  <2> QED BY <2>5
<1> HIDE DEF G
<1>4. 0..n \subseteq G
  BY <1>2, <1>3, InductionUpTo
<1>5. n \in G
  BY <1>4
<1> QED BY <1>1, <1>5 DEF G

\* A numeral is taken apart by dividing: q[j] is what is left behind j of its digits.
LEMMA NumeralTable ==
  ASSUME NEW a \in Nat
  PROVE  \E q : /\ q[0] = a /\ q[Len(Numeral[a])] = 0
                /\ \A j \in 0..Len(Numeral[a]) : q[j] \in Nat
                /\ \A j \in 1..Len(Numeral[a]) : q[j - 1] = 10 * q[j] + Numeral[a][j]
<1> DEFINE L(n) == Len(Numeral[n])
           P(n, q) == /\ q[0] = n /\ q[L(n)] = 0 /\ \A j \in 0..L(n) : q[j] \in Nat
                      /\ \A j \in 1..L(n) : q[j - 1] = 10 * q[j] + Numeral[n][j]
           S == {n \in Nat : \E q : P(n, q)}
<1>1. ASSUME NEW n \in Nat, 0..(n - 1) \subseteq S PROVE n \in S
  <2>1. CASE n < 10
    <3> DEFINE q == [j \in 0..1 |-> IF j = 0 THEN n ELSE 0]
    <3>1. Numeral[n] = <<n>> /\ L(n) = 1
      <4>1. Numeral[n] = <<n>>
        BY <2>1, NumeralRec, Zenon
      <4> QED BY <4>1
    <3>2. q[0] = n /\ q[1] = 0
      OBVIOUS
    <3> HIDE DEF q
    <3>3. P(n, q)
      <4>1. <<n>>[1] = n
        OBVIOUS
      <4> QED BY <3>1, <3>2, <4>1
    <3> HIDE DEF P
    <3> QED BY <3>3
  <2>2. CASE ~(n < 10)
    <3> DEFINE m == n \div 10
               d == n % 10
    <3>1. m \in Nat /\ m \in 0..(n - 1) /\ d \in 0..9 /\ n = 10 * m + d
      BY <2>2
    <3>2. PICK q : P(m, q)
      <4> HIDE DEF m, P
      <4> QED BY <1>1, <3>1
    <3>3. Numeral[n] = <<d>> \o Numeral[m] /\ L(n) = 1 + L(m) /\ L(m) \in Nat \ {0}
      <4>1. Numeral[n] = <<n % 10>> \o Numeral[n \div 10]
        BY <2>2, NumeralRec, Zenon
      <4>2. L(n) = 1 + L(n \div 10)
        BY <2>2, NumeralLen
      <4> QED BY <3>1, <4>1, <4>2, NumeralLen
    <3> HIDE DEF m, d
    <3> DEFINE u == Numeral[n]
               v == Numeral[m]
               x == L(m)
               y == L(n)
    <3>4. u[1] = d /\ \A j \in 1..x : u[1 + j] = v[j]
      <4>1. v \in Seq(0..9) /\ <<d>> \in Seq(0..9) /\ Len(<<d>>) = 1 /\ <<d>>[1] = d
        BY <3>1, NumeralLen
      <4> DEFINE w == <<d>>
      <4>2. w \in Seq(0..9) /\ Len(w) = 1 /\ w[1] = d /\ v \in Seq(0..9) /\ u = w \o v
        BY <3>3, <4>1
      <4> HIDE DEF w, u, v
      <4>3. \A j \in 1..(1 + Len(v)) : (w \o v)[j] = IF j <= 1 THEN w[j] ELSE v[j - 1]
        <5>1. \A j \in 1..(Len(w) + Len(v)) :
                 (w \o v)[j] = IF j <= Len(w) THEN w[j] ELSE v[j - Len(w)]
          BY <4>2, ConcatProperties
        <5> QED BY <4>2, <5>1
      <4>4. x = Len(v) /\ x \in Nat \ {0}
        BY <3>3 DEF v
      <4> HIDE DEF x
      <4>5. 1 \in 1..(1 + Len(v)) /\ \A j \in 1..x : /\ 1 + j \in 1..(1 + Len(v)) /\ ~(1 + j <= 1)
                                                     /\ (1 + j) - 1 = j
        BY <4>4
      <4>6. u[1] = d
        BY <4>2, <4>3, <4>5
      <4>7. ASSUME NEW j \in 1..x PROVE u[1 + j] = v[j]
        <5>1. u[1 + j] = v[(1 + j) - 1]
          BY <4>2, <4>3, <4>5
        <5> QED BY <4>5, <5>1, Zenon
      <4> QED BY <4>6, <4>7
    <3> DEFINE r == [j \in 0..y |-> IF j = 0 THEN n ELSE q[j - 1]]
    <3>5. y = 1 + x /\ x \in Nat \ {0} /\ y \in Nat
      BY <3>3
    <3>6. /\ q[0] = m /\ q[x] = 0 /\ \A j \in 0..x : q[j] \in Nat
          /\ \A j \in 1..x : q[j - 1] = 10 * q[j] + v[j]
      BY <3>2
    <3> HIDE DEF x, y, u, v
    <3>7. r[0] = n /\ \A j \in 1..y : r[j] = q[j - 1]
      BY <3>5
    <3> HIDE DEF r
    <3>8. r[0] = n /\ r[y] = 0
      <4>1. y \in 1..y /\ y - 1 = x
        BY <3>5
      <4> QED BY <3>6, <3>7, <4>1
    <3>9. ASSUME NEW j \in 0..y PROVE r[j] \in Nat
      <4>1. j = 0 \/ (j \in 1..y /\ j - 1 \in 0..x)
        BY <3>5
      <4> QED BY <3>6, <3>7, <4>1
    <3>10. ASSUME NEW j \in 1..y PROVE r[j - 1] = 10 * r[j] + u[j]
      <4>1. CASE j = 1
        <5>1. r[j - 1] = n /\ r[j] = m /\ u[j] = d
          BY <3>4, <3>6, <3>7, <4>1
        <5> QED BY <3>1, <5>1
      <4>2. CASE j # 1
        <5>1. PICK i \in 1..x : j = 1 + i
          <6>1. j - 1 \in 1..x /\ j = 1 + (j - 1)
            BY <3>5, <4>2
          <6> QED BY <6>1
        <5>2. j - 1 = i /\ i \in 1..y
          BY <3>5, <5>1
        <5>3. r[j] = q[i] /\ r[i] = q[i - 1] /\ u[j] = v[i]
          BY <3>4, <3>7, <5>1, <5>2
        <5>4. q[i - 1] = 10 * q[i] + v[i]
          BY <3>6
        <5> QED BY <5>2, <5>3, <5>4, Zenon
      <4> QED BY <4>1, <4>2
    <3>11. P(n, r)
      BY <3>8, <3>9, <3>10 DEF y, u
    <3> HIDE DEF P
    <3> QED BY <3>11
  <2> QED BY <2>1, <2>2
<1>2. Nat \subseteq S
  <2> HIDE DEF S
  <2> QED BY <1>1, StrongInduction
<1>3. a \in S
  <2> HIDE DEF S
  <2> QED BY <1>2
<1> QED BY <1>3

\* Printed the other way round it is read back as the number.
LEMMA NumeralRead ==
  ASSUME NEW a \in Nat, NEW s, Len(s) = Len(Numeral[a]),
         \A k \in 1..Len(Numeral[a]) : s[k] = Numeral[a][Len(Numeral[a]) + 1 - k]
  PROVE  NumberOf(s, 10) = a
<1> DEFINE L == Len(Numeral[a])
           u == Numeral[a]
<1>1. L \in Nat \ {0} /\ \A k \in 1..L : u[k] \in 0..9
  BY NumeralLen
<1>2. PICK q : /\ q[0] = a /\ q[L] = 0 /\ \A j \in 0..L : q[j] \in Nat
               /\ \A j \in 1..L : q[j - 1] = 10 * q[j] + u[j]
  <2>1. \E q : /\ q[0] = a /\ q[Len(Numeral[a])] = 0
               /\ \A j \in 0..Len(Numeral[a]) : q[j] \in Nat
               /\ \A j \in 1..Len(Numeral[a]) : q[j - 1] = 10 * q[j] + Numeral[a][j]
    BY NumeralTable
  <2> QED BY <2>1
<1>3. Len(s) = L /\ \A k \in 1..L : s[k] = u[L + 1 - k]
  OBVIOUS
<1> HIDE DEF L, u
<1> DEFINE h == [k \in 0..L |-> q[L - k]]
<1>4. \A k \in 1..L : s[k] \in Nat
  <2>1. \A k \in 1..L : L + 1 - k \in 1..L
    BY <1>1
  <2>2. ASSUME NEW k \in 1..L PROVE s[k] \in Nat
    <3>1. s[k] \in 0..9
      BY <1>1, <1>3, <2>1
    <3> QED BY <3>1
  <2> QED BY <2>2
<1>5. h[0] = 0 /\ h[L] = a
  <2>1. 0 \in 0..L /\ L \in 0..L /\ L - 0 = L /\ L - L = 0
    BY <1>1
  <2> QED BY <1>2, <2>1
<1>6. ASSUME NEW k \in 1..L PROVE h[k] = h[k - 1] * 10 + s[k]
  <2>1. PICK j \in 1..L : j = L + 1 - k
    <3>1. L + 1 - k \in 1..L
      BY <1>1
    <3> QED BY <3>1
  <2>2. L - k = j - 1 /\ L - (k - 1) = j /\ k - 1 \in 0..L /\ k \in 0..L /\ j \in 0..L
    BY <1>1, <2>1
  <2>3. h[k] = q[j - 1] /\ h[k - 1] = q[j] /\ s[k] = u[j]
    BY <1>3, <2>1, <2>2
  <2>4. q[j - 1] = 10 * q[j] + u[j] /\ q[j] \in Nat
    BY <1>2, <2>2
  <2> HIDE DEF h
  <2> DEFINE x == q[j]
  <2>5. x \in Nat /\ h[k] = 10 * x + s[k] /\ h[k - 1] = x /\ s[k] \in Nat
    BY <1>4, <2>3, <2>4
  <2> HIDE DEF x
  <2> QED BY <2>5
<1> HIDE DEF h
<1>7. L \in Nat /\ 10 \in Nat
  BY <1>1
<1> DEFINE B == 10
<1>8. B \in Nat /\ \A k \in 1..L : h[k] = h[k - 1] * B + s[k]
  BY <1>6
<1> HIDE DEF B
<1>9. NumberOf(s, B) = h[L]
  <2>1. Sums(s, L, B, h)
    BY <1>3, <1>4, <1>5, <1>8 DEF Sums
  <2> QED BY <1>7, <1>8, <2>1, NumberOfTable
<1> QED BY <1>5, <1>9 DEF B

-----------------------------------------------------------------------------
(* Powers of sixteen.                                                        *)

\* Pow is a table of the powers of two, so that four entries up is sixteen times.
LEMMA Sixteens ==
  ASSUME cfg \in Builds, NEW k \in Nat, 4 * k + 4 <= cfg.bin
  PROVE  Pow[4 * k + 4] = 16 * Pow[4 * k] /\ Pow[4 * k] \in Nat \ {0}
<1> DEFINE n == 4 * k
<1>1. n \in Nat /\ n + 4 \in Nat /\ n + 4 <= cfg.bin /\ cfg.bin \in Nat
  BY BuildsAssumption
<1> HIDE DEF n
<1>2. n + 4 \in DOMAIN Pow
  <2>1. 0..Greater(cfg.bin, cfg.ftoa) \subseteq DOMAIN Pow /\ cfg.ftoa \in Nat
    BY BuildsAssumption
  <2>2. n + 4 \in 0..Greater(cfg.bin, cfg.ftoa)
    BY <1>1, <2>1 DEF Greater
  <2> QED BY <2>1, <2>2
<1>3. \A j \in DOMAIN Pow : j > 0 => j - 1 \in DOMAIN Pow /\ Pow[j] = 2 * Pow[j - 1]
  BY FieldsAssumption
<1>4. n + 3 \in DOMAIN Pow /\ Pow[n + 4] = 2 * Pow[n + 3]
  <2>1. (n + 4) - 1 = n + 3 /\ n + 4 > 0
    BY <1>1
  <2> QED BY <1>2, <1>3, <2>1
<1>5. n + 2 \in DOMAIN Pow /\ Pow[n + 3] = 2 * Pow[n + 2]
  <2>1. (n + 3) - 1 = n + 2 /\ n + 3 > 0
    BY <1>1
  <2> QED BY <1>3, <1>4, <2>1
<1>6. n + 1 \in DOMAIN Pow /\ Pow[n + 2] = 2 * Pow[n + 1]
  <2>1. (n + 2) - 1 = n + 1 /\ n + 2 > 0
    BY <1>1
  <2> QED BY <1>3, <1>5, <2>1
<1>7. n \in DOMAIN Pow /\ Pow[n + 1] = 2 * Pow[n]
  <2>1. (n + 1) - 1 = n /\ n + 1 > 0
    BY <1>1
  <2> QED BY <1>3, <1>6, <2>1
<1>8. Pow[n] \in Nat \ {0}
  BY <1>7, PowersAssumption
<1> QED BY <1>4, <1>5, <1>6, <1>7, <1>8 DEF n

\* Dividing by a power of sixteen and by sixteen more is dividing by the next.
LEMMA SixteenthOf ==
  ASSUME NEW n \in Nat, NEW p \in Nat \ {0}
  PROVE  n \div (16 * p) = (n \div p) \div 16 /\ n \div p \in Nat
<1>1. n \div p \in Nat
  BY Division
<1> DEFINE p2 == 2 * p
           p4 == 2 * p2
           p8 == 2 * p4
<1>2. p2 \in Nat \ {0}
  OBVIOUS
<1>3. (n \div p) \div 2 = n \div p2
  BY DividedTwice
<1> HIDE DEF p2
<1>4. p4 \in Nat \ {0}
  BY <1>2
<1>5. (n \div p2) \div 2 = n \div p4
  BY <1>2, DividedTwice
<1> HIDE DEF p4
<1>6. p8 \in Nat \ {0}
  BY <1>4
<1>7. (n \div p4) \div 2 = n \div p8
  BY <1>4, DividedTwice
<1> HIDE DEF p8
<1>8. (n \div p8) \div 2 = n \div (2 * p8)
  BY <1>6, DividedTwice
<1>9. 2 * p8 = 16 * p
  BY DEF p2, p4, p8
<1> DEFINE x == n \div p
<1>10. n \div (16 * p) = (((x \div 2) \div 2) \div 2) \div 2
  BY <1>3, <1>5, <1>7, <1>8, <1>9
<1>11. x \in Nat
  BY <1>1
<1> HIDE DEF x
<1>12. (((x \div 2) \div 2) \div 2) \div 2 = x \div 16
  BY <1>11
<1> QED BY <1>1, <1>10, <1>12 DEF x

\* The nearest multiple of a unit, the larger of two.
Nearest(n, d) == IF 2 * (n % d) > d \/ 2 * (n % d) = d THEN (n \div d) + 1 ELSE n \div d

\* The nearest multiple of a unit is half a unit away at most.
LEMMA HalfApart ==
  ASSUME NEW n \in Nat, NEW d \in Nat \ {0}
  PROVE  2 * (Nearest(n, d) * d - n) \in -d..d
<1> DEFINE q == n \div d
           z == n % d
<1>1. q \in Nat /\ z \in Nat /\ z < d /\ n = d * q + z
  BY Division
<1>2. Nearest(n, d) = IF 2 * z > d \/ 2 * z = d THEN q + 1 ELSE q
  BY Zenon DEF Nearest, q, z
<1> HIDE DEF q, z
<1>3. PICK m \in Nat : m = d * q
  BY <1>1
<1>4. q * d = m /\ (q + 1) * d = m + d
  BY <1>1, <1>3
<1>5. CASE 2 * z > d \/ 2 * z = d
  <2>1. Nearest(n, d) * d - n = d - z
    <3>1. Nearest(n, d) * d = m + d
      BY <1>2, <1>4, <1>5
    <3> QED BY <1>1, <1>3, <3>1
  <2> QED BY <1>1, <1>5, <2>1
<1>6. CASE ~(2 * z > d \/ 2 * z = d)
  <2>1. Nearest(n, d) * d - n = -z
    <3>1. Nearest(n, d) * d = m
      BY <1>2, <1>4, <1>6
    <3> QED BY <1>1, <1>3, <3>1
  <2> QED BY <1>1, <1>6, <2>1
<1> QED BY <1>5, <1>6

\* The bit that is kept of the last nibble dropped says whether they are a half.
LEMMA HalfUp ==
  ASSUME NEW n \in Nat, NEW p \in Nat \ {0}
  PROVE  Nearest(n, 16 * p) = (n \div (16 * p)) + RoundBit(n \div p)
<1> DEFINE x == n \div p
           y == n % p
           q == x \div 16
           w == x % 16
           d == 16 * p
<1>1. x \in Nat /\ y \in Nat /\ y < p /\ n = p * x + y
  BY Division
<1>2. q \in Nat /\ w \in 0..15 /\ x = 16 * q + w
  <2> HIDE DEF x
  <2> QED BY <1>1
<1>3. d \in Nat \ {0}
  OBVIOUS
<1> HIDE DEF x, y, q, w
<1>4. p * x = d * q + p * w
  <2>1. p * x = p * (16 * q) + p * w
    BY <1>2
  <2>2. p * (16 * q) = d * q
    BY <1>2
  <2> QED BY <2>1, <2>2
<1> HIDE DEF d
<1>5. p * w \in Nat /\ (w >= 8 => p * w >= 8 * p) /\ (w <= 7 => p * w <= 7 * p)
      /\ p * w <= 15 * p
  <2>1. w \in Nat
    BY <1>2
  <2>2. p * w \in Nat
    BY <2>1
  <2>3. ASSUME NEW e \in 0..15, w >= e PROVE p * w >= p * e
    <3>1. PICK f \in Nat : w = e + f
      <4>1. w - e \in Nat /\ w = e + (w - e)
        BY <2>1, <2>3
      <4> QED BY <4>1
    <3>2. p * w = p * e + p * f /\ p * f \in Nat /\ p * e \in Nat
      BY <3>1
    <3> QED BY <3>2
  <2>4. ASSUME NEW e \in 0..15, w <= e PROVE p * w <= p * e
    <3>1. PICK f \in Nat : e = w + f
      <4>1. e - w \in Nat /\ e = w + (e - w)
        BY <2>1, <2>4
      <4> QED BY <4>1
    <3>2. p * e = p * w + p * f /\ p * f \in Nat
      BY <2>1, <3>1
    <3> QED BY <2>2, <3>2
  <2>5. w >= 8 => p * w >= p * 8
    BY <2>3
  <2>6. (w <= 7 => p * w <= p * 7) /\ p * w <= p * 15
    BY <1>2, <2>4
  <2> QED BY <2>2, <2>5, <2>6
<1> DEFINE z == p * w + y
<1>6. z \in Nat /\ z < d /\ n = d * q + z
  <2>1. d = 16 * p
    BY DEF d
  <2>2. d * q \in Nat
    BY <1>2, <1>3
  <2> QED BY <1>1, <1>4, <1>5, <2>1, <2>2
<1>7. (2 * z > d \/ 2 * z = d) <=> w >= 8
  <2>1. d = 16 * p
    BY DEF d
  <2>2. w \in Nat
    BY <1>2
  <2> QED BY <1>1, <1>5, <2>1, <2>2
<1> HIDE DEF z
<1>8. n \div d = q /\ n % d = z
  BY <1>2, <1>3, <1>6, DivisionUnique
<1>9. RoundBit(x) = IF w >= 8 THEN 1 ELSE 0
  <2>1. (x \div 8) % 2 = IF w >= 8 THEN 1 ELSE 0
    BY <1>1, <1>2
  <2> QED BY <2>1 DEF RoundBit
<1>10. Nearest(n, d) = IF w >= 8 THEN q + 1 ELSE q
  <2>1. Nearest(n, d) = IF 2 * z > d \/ 2 * z = d THEN q + 1 ELSE q
    BY <1>8, Zenon DEF Nearest
  <2> QED BY <1>7, <2>1
<1>11. Nearest(n, d) = q + RoundBit(x)
  BY <1>2, <1>9, <1>10
<1> QED BY <1>8, <1>11 DEF d, x

\* Nothing is dropped of a number that has no more.
LEMMA WholeUp == ASSUME NEW n \in Nat PROVE Nearest(n, 1) = n
<1>1. n \div 1 = n /\ n % 1 = 0
  OBVIOUS
<1>2. Nearest(n, 1) = IF 2 * 0 > 1 \/ 2 * 0 = 1 THEN n + 1 ELSE n
  BY <1>1, Zenon DEF Nearest
<1> QED BY <1>2

\* A table that drops a nibble a turn, and the powers of sixteen up to that of n.
Drops(f, n, B) == f[0].bin = B /\ \A k \in 1..n : f[k].bin = f[k - 1].bin \div 16
Nibbled(n) == /\ Pow[4 * 0] = 1 /\ \A k \in 0..n : Pow[4 * k] \in Nat \ {0}
              /\ \A k \in 0..(n - 1) : Pow[4 * (k + 1)] = 16 * Pow[4 * k]

\* The parameters of %a: the digits printed and those dropped are whole nibbles of the
\* mantissa, and the number has one bit more than it.
LEMMA NibbleFacts ==
  ASSUME Inputs, fs.prec \in Nat, cfg.man % 4 = 0
  PROVE  /\ FracNibbles \in Nat /\ HexDigits \in Nat /\ HexDigits <= FracNibbles
         /\ 4 * FracNibbles = cfg.man /\ cfg \in Builds
         /\ Nibbled(FracNibbles)
<1> DEFINE N == FracNibbles
           m == cfg.man
<1>1. N \in Nat /\ HexDigits \in Nat /\ HexDigits <= N
  BY RoundedTurns
<1>2. cfg \in Builds /\ m \in Nat /\ m % 4 = 0 /\ cfg.bin \in Nat /\ m < cfg.bin
  BY RealApart DEF Inputs
<1>3. 4 * N = m
  <2>1. N = (m + 3) \div 4
    BY DEF FracNibbles
  <2> HIDE DEF N, m
  <2> QED BY <1>2, <2>1
<1> HIDE DEF N, m
<1>4. ASSUME NEW k \in 0..N PROVE Pow[4 * k] \in Nat \ {0}
  <2>1. 4 * k \in Nat /\ 4 * k <= cfg.bin
    BY <1>1, <1>2, <1>3
  <2> QED BY <1>2, <2>1, PowerReached
<1>5. ASSUME NEW k \in 0..(N - 1) PROVE Pow[4 * (k + 1)] = 16 * Pow[4 * k]
  <2>1. k \in Nat /\ 4 * k + 4 <= cfg.bin /\ 4 * (k + 1) = 4 * k + 4
    BY <1>1, <1>2, <1>3
  <2>2. Pow[4 * k + 4] = 16 * Pow[4 * k]
    BY <1>2, <2>1, Sixteens
  <2> QED BY <2>1, <2>2
<1>6. Pow[4 * 0] = 1
  BY FieldsAssumption
<1>7. Nibbled(N)
  BY <1>4, <1>5, <1>6 DEF Nibbled
<1> QED BY <1>1, <1>2, <1>3, <1>7 DEF N, m

\* Dropping k nibbles divides by the unit of the last of them.
LEMMA Dropped ==
  ASSUME NEW N \in Nat, NEW f, NEW B \in Nat, Drops(f, N, B), Nibbled(N)
  PROVE  \A k \in 0..N : f[k].bin = B \div Pow[4 * k]
<1>0. /\ f[0].bin = B /\ \A k \in 1..N : f[k].bin = f[k - 1].bin \div 16
      /\ Pow[4 * 0] = 1 /\ \A k \in 0..N : Pow[4 * k] \in Nat \ {0}
      /\ \A k \in 0..(N - 1) : Pow[4 * (k + 1)] = 16 * Pow[4 * k]
  BY DEF Drops, Nibbled
<1> DEFINE G == {k \in Nat : f[k].bin = B \div Pow[4 * k]}
<1>1. 0 \in G
  <2>1. B \div 1 = B
    OBVIOUS
  <2> QED BY <1>0, <2>1
<1>2. ASSUME NEW k \in 0..(N - 1), k \in G PROVE k + 1 \in G
  <2>1. k + 1 \in 1..N /\ (k + 1) - 1 = k /\ k \in 0..N /\ k + 1 \in Nat
    OBVIOUS
  <2>2. f[k + 1].bin = f[k].bin \div 16
    <3>1. f[k + 1].bin = f[(k + 1) - 1].bin \div 16
      BY <1>0, <2>1
    <3> QED BY <2>1, <3>1, Zenon
  <2>3. PICK p \in Nat \ {0} : p = Pow[4 * k]
    BY <1>0, <2>1
  <2>4. Pow[4 * (k + 1)] = 16 * p
    BY <1>0, <2>3
  <2>5. f[k].bin = B \div p
    BY <1>2, <2>3
  <2>6. B \div (16 * p) = (B \div p) \div 16
    BY SixteenthOf
  <2>7. f[k + 1].bin = B \div Pow[4 * (k + 1)]
    BY <2>2, <2>4, <2>5, <2>6, Zenon
  <2> QED BY <2>1, <2>7
<1> HIDE DEF G
<1>3. 0..N \subseteq G
  BY <1>1, <1>2, InductionUpTo
<1> QED BY <1>3 DEF G

\* What is printed of the significand is the nearest of its multiples of the last nibble.
LEMMA RoundedIs ==
  ASSUME Inputs, fs.prec \in Nat, cfg.man % 4 = 0
  PROVE  /\ Rounded = Nearest(Bin, HexUnit)
         /\ Rounded \in Nat /\ Rounded <= (Bin \div HexUnit) + 1 /\ HexUnit \in Nat \ {0}
<1> DEFINE N == FracNibbles
           D == N - HexDigits
           B == Bin
<1>1. PICK f : /\ f[0].bin = B /\ f[0].carry = 0
               /\ \A k \in 1..N : /\ f[k].bin = f[k - 1].bin \div 16
                                  /\ f[k].carry = RoundBit(f[k - 1].bin)
               /\ Rounded = f[D].bin + f[D].carry
  BY RoundedTurns
<1>2. /\ N \in Nat /\ HexDigits \in Nat /\ HexDigits <= N /\ B \in Nat
      /\ \A k \in 0..N : Pow[4 * k] \in Nat \ {0}
      /\ \A k \in 0..(N - 1) : Pow[4 * (k + 1)] = 16 * Pow[4 * k]
      /\ Pow[4 * 0] = 1
  BY NibbleFacts, RealApart DEF Nibbled
<1>b. Nibbled(N)
  BY NibbleFacts
<1>3. D \in 0..N
  BY <1>2
<1>4. HexUnit = Pow[4 * D]
  BY DEF HexUnit
<1> HIDE DEF N, D, B
<1>5. \A k \in 0..N : f[k].bin = B \div Pow[4 * k]
  <2>1. Drops(f, N, B)
    BY <1>1 DEF Drops
  <2> QED BY <1>2, <1>b, <2>1, Dropped
<1>6. CASE D = 0
  <2>1. HexUnit = 1 /\ f[D].bin = B /\ f[D].carry = 0
    BY <1>1, <1>2, <1>4, <1>6
  <2>2. Rounded = B
    BY <1>1, <1>2, <2>1
  <2>3. Nearest(B, 1) = B
    BY <1>2, WholeUp
  <2>4. Rounded = Nearest(B, HexUnit)
    BY <2>1, <2>2, <2>3, Zenon
  <2>5. Rounded \in Nat /\ Rounded <= (B \div HexUnit) + 1 /\ HexUnit \in Nat \ {0}
    <3>1. B \div 1 = B
      BY <1>2
    <3> QED BY <1>2, <2>1, <2>2, <3>1
  <2> QED BY <2>4, <2>5 DEF B
<1>7. CASE D # 0
  <2>1. PICK i \in 0..(N - 1) : i + 1 = D /\ i = D - 1
    <3>1. D - 1 \in 0..(N - 1) /\ (D - 1) + 1 = D
      BY <1>2, <1>3, <1>7
    <3> QED BY <3>1
  <2>2. D \in 1..N /\ i \in 0..N
    BY <1>2, <1>3, <1>7, <2>1
  <2>3. PICK p \in Nat \ {0} : p = Pow[4 * i]
    BY <1>2, <2>2
  <2>4. HexUnit = 16 * p
    <3>1. Pow[4 * (i + 1)] = 16 * Pow[4 * i]
      BY <1>2
    <3> QED BY <1>4, <2>1, <2>3, <3>1
  <2>5. f[D].bin = B \div (16 * p)
    <3>1. f[D].bin = B \div Pow[4 * D]
      BY <1>3, <1>5
    <3> QED BY <1>4, <2>4, <3>1, Zenon
  <2>6. f[D].carry = RoundBit(B \div p)
    <3>1. f[D].carry = RoundBit(f[D - 1].bin)
      BY <1>1, <2>2
    <3>2. f[i].bin = B \div p
      BY <1>5, <2>2, <2>3
    <3> QED BY <2>1, <3>1, <3>2, Zenon
  <2>7. Nearest(B, 16 * p) = (B \div (16 * p)) + RoundBit(B \div p)
    BY <1>2, HalfUp
  <2>8. Rounded = Nearest(B, HexUnit)
    BY <1>1, <2>4, <2>5, <2>6, <2>7, Zenon
  <2>9. Rounded \in Nat /\ Rounded <= (B \div HexUnit) + 1 /\ HexUnit \in Nat \ {0}
    <3> DEFINE q == B \div (16 * p)
               r == RoundBit(B \div p)
    <3>1. q \in Nat /\ r \in {0, 1}
      <4>1. 16 * p \in Nat \ {0}
        OBVIOUS
      <4>2. B \div p \in Nat /\ q \in Nat
        <5>1. B \in Int /\ B >= 0 /\ p \in Nat \ {0}
          BY <1>2
        <5>2. B \div p \in Nat
          BY <5>1, Division
        <5> DEFINE e == 16 * p
        <5>3. e \in Nat \ {0}
          BY <4>1
        <5> HIDE DEF e
        <5>4. B \div e \in Nat
          BY <5>1, <5>3, Division
        <5> QED BY <5>2, <5>4 DEF e
      <4> DEFINE y == B \div p
      <4> HIDE DEF y
      <4>3. y \in Nat => RoundBit(y) \in {0, 1}
        BY DEF RoundBit
      <4> QED BY <4>2, <4>3 DEF y
    <3>2. Rounded = q + r /\ B \div HexUnit = q
      BY <2>4, <2>7, <2>8
    <3> HIDE DEF q, r
    <3>3. Rounded \in Nat /\ Rounded <= q + 1
      BY <3>1, <3>2
    <3> QED BY <2>4, <3>2, <3>3
  <2> QED BY <2>8, <2>9 DEF B
<1> QED BY <1>6, <1>7

\* The leading digit holds what is left of the number, two at most.
LEMMA LeadSmall ==
  ASSUME Inputs, fs.prec \in Nat, cfg.man % 4 = 0, real.frac < Pow[cfg.man]
  PROVE  Rounded \div Pow[4 * HexDigits] < 16
<1> DEFINE N == FracNibbles
           H == HexDigits
           B == Bin
<1>1. /\ N \in Nat /\ H \in Nat /\ H <= N /\ B \in Nat /\ 4 * N = cfg.man
      /\ \A k \in 0..N : Pow[4 * k] \in Nat \ {0}
      /\ \A k \in 0..(N - 1) : Pow[4 * (k + 1)] = 16 * Pow[4 * k]
      /\ Pow[4 * 0] = 1
  BY NibbleFacts, RealApart DEF Nibbled
<1>2. B < 2 * Pow[4 * N]
  <2>1. real.frac \in Nat /\ real.frac < Pow[4 * N]
    BY <1>1 DEF Inputs
  <2>2. N \in 0..N /\ Pow[4 * N] \in Nat \ {0}
    BY <1>1
  <2>3. B = real.frac \/ B = real.frac + Pow[4 * N]
    BY <1>1 DEF Bin
  <2> HIDE DEF N, B
  <2> QED BY <2>1, <2>2, <2>3
<1>3. Rounded \in Nat /\ Rounded <= (B \div Pow[4 * (N - H)]) + 1
  BY RoundedIs DEF HexUnit
<1> HIDE DEF N, H, B
<1> DEFINE G == {k \in Nat : B \div Pow[4 * (N - k)] < 2 * Pow[4 * k]}
<1>4. N \in G
  <2>1. N - N = 0 /\ B \div 1 = B
    BY <1>1
  <2>2. B \div Pow[4 * (N - N)] = B
    BY <1>1, <2>1
  <2> QED BY <1>1, <1>2, <2>2
<1>5. ASSUME NEW k \in 0..(N - 1), k + 1 \in G PROVE k \in G
  <2>1. PICK j \in 0..(N - 1) : j = N - (k + 1) /\ j + 1 = N - k
    <3>1. N - (k + 1) \in 0..(N - 1) /\ (N - (k + 1)) + 1 = N - k
      BY <1>1
    <3> QED BY <3>1
  <2>2. j \in 0..N /\ k \in 0..N /\ k \in Nat
    BY <1>1
  <2>3. PICK p \in Nat \ {0} : p = Pow[4 * j]
    BY <1>1, <2>2
  <2>4. Pow[4 * (N - k)] = 16 * p
    BY <1>1, <2>1, <2>3
  <2>5. B \div p < 2 * Pow[4 * (k + 1)]
    BY <1>5, <2>1, <2>3
  <2>6. Pow[4 * (k + 1)] = 16 * Pow[4 * k] /\ Pow[4 * k] \in Nat \ {0}
    BY <1>1, <2>2
  <2>7. B \div (16 * p) = (B \div p) \div 16 /\ B \div p \in Nat
    BY <1>1, SixteenthOf
  <2> DEFINE x == B \div p
             y == Pow[4 * k]
  <2>8. x \in Nat /\ y \in Nat \ {0} /\ x < 32 * y
    BY <2>5, <2>6, <2>7
  <2> HIDE DEF x, y
  <2>9. x \div 16 < 2 * y
    BY <2>8
  <2>10. B \div Pow[4 * (N - k)] < 2 * Pow[4 * k]
    BY <2>4, <2>7, <2>9 DEF x, y
  <2> QED BY <2>2, <2>10
<1>6. H \in G
  <2> HIDE DEF G
  <2>1. 0..N \subseteq G
    BY <1>1, <1>4, <1>5, InductionDownFrom
  <2>2. H \in 0..N
    BY <1>1
  <2> QED BY <2>1, <2>2
<1> DEFINE x == B \div Pow[4 * (N - H)]
           p == Pow[4 * H]
           R == Rounded
<1>7. x < 2 * p /\ p \in Nat \ {0} /\ x \in Nat /\ R \in Nat /\ R <= x + 1
  <2>1. H \in 0..N /\ N - H \in 0..N
    BY <1>1
  <2>2. p \in Nat \ {0} /\ Pow[4 * (N - H)] \in Nat \ {0}
    BY <1>1, <2>1
  <2>3. x \in Nat
    BY <1>1, <2>2, Division
  <2> QED BY <1>3, <1>6, <2>2, <2>3
<1> HIDE DEF x, p, R
<1>8. R \div p < 16
  <2> DEFINE q == R \div p
             r == R % p
  <2>1. q \in Nat /\ r \in Nat /\ R = p * q + r
    BY <1>7, Division
  <2> HIDE DEF q, r
  <2>2. SUFFICES ASSUME q >= 16 PROVE FALSE
    BY <2>1 DEF q
  <2>3. PICK e \in Nat : q = 3 + e
    <3>1. q - 3 \in Nat /\ q = 3 + (q - 3)
      BY <2>1, <2>2
    <3> QED BY <3>1
  <2>4. p * q = p * 3 + p * e /\ p * e \in Nat
    BY <1>7, <2>3
  <2> QED BY <1>7, <2>1, <2>4
<1> QED BY <1>8 DEF R, p, H

\* The nibble of the significand that is worth 16^k.
NibbleAt(k) == (Rounded \div Pow[4 * k]) % 16

\* The exponent, and whether there is a point.
HexAbs == IF HexExponent < 0 THEN -HexExponent ELSE HexExponent
HexSign == IF HexExponent < 0 THEN Minus ELSE Plus
HexPoint == IF HexDigits > 0 \/ fs.alt THEN 1 ELSE 0

\* The text of %a, most significant first.
HexShape(t, H, p, L) ==
  /\ DOMAIN t = 1..(H + p + L + 3) /\ Len(t) = H + p + L + 3
  /\ t[1] = NibbleAt(H)
  /\ p = 1 => t[2] = Dot
  /\ \A j \in 1..H : t[1 + p + j] = NibbleAt(H - j)
  /\ t[2 + p + H] = ExpChar
  /\ t[3 + p + H] = HexSign
  /\ \A j \in 1..L : t[3 + p + H + j] = Numeral[HexAbs][L + 1 - j]

\* Its cells, least significant first.
HexLaid(s, H, p, L) ==
  /\ Len(s) = H + p + L + 3
  /\ \A i \in 1..L : s[i] = Numeral[HexAbs][i]
  /\ s[L + 1] = HexSign /\ s[L + 2] = ExpChar
  /\ \A j \in 1..H : s[L + 2 + j] = NibbleAt(j - 1)
  /\ p = 1 => s[L + 3 + H] = Dot
  /\ s[H + p + L + 3] = NibbleAt(H)

\* A nibble is a digit.
LEMMA NibbleTyped ==
  ASSUME Inputs, fs.prec \in Nat, cfg.man % 4 = 0, NEW k \in 0..HexDigits
  PROVE  NibbleAt(k) \in 0..15
<1> DEFINE p == Pow[4 * k]
           R == Rounded
<1>1. p \in Nat \ {0} /\ R \in Nat
  <2>1. k \in 0..FracNibbles
    BY NibbleFacts
  <2> QED BY <2>1, NibbleFacts, RoundedIs DEF Nibbled
<1> HIDE DEF p, R
<1>2. R \div p \in Nat
  BY <1>1, Division
<1> DEFINE q == R \div p
<1> HIDE DEF q
<1>3. q \in Nat => q % 16 \in 0..15
  OBVIOUS
<1> QED BY <1>2, <1>3 DEF NibbleAt, q, p, R

\* Two sequences one behind the other.
Joint(u, s, t, m, n) == /\ Len(u) = m + n /\ \A i \in 1..m : u[i] = s[i]
                        /\ \A i \in 1..n : u[m + i] = t[i]

\* Where the cells of the parts of a text are, one part after the other.
LEMMA Joined ==
  ASSUME NEW S, NEW s \in Seq(S), NEW t \in Seq(S), NEW m \in Nat, NEW n \in Nat,
         Len(s) = m, Len(t) = n
  PROVE  s \o t \in Seq(S) /\ Joint(s \o t, s, t, m, n)
<1>1. /\ s \o t \in Seq(S) /\ Len(s \o t) = Len(s) + Len(t)
      /\ \A i \in 1..(Len(s) + Len(t)) :
           (s \o t)[i] = IF i <= Len(s) THEN s[i] ELSE t[i - Len(s)]
  BY ConcatProperties
<1> DEFINE u == s \o t
<1> HIDE DEF u
<1>2. \A i \in 1..(m + n) : u[i] = IF i <= m THEN s[i] ELSE t[i - m]
  BY <1>1 DEF u
<1>3. \A i \in 1..m : u[i] = s[i]
  <2>1. \A i \in 1..m : i \in 1..(m + n) /\ i <= m
    OBVIOUS
  <2> QED BY <1>2, <2>1
<1>4. ASSUME NEW i \in 1..n PROVE u[m + i] = t[i]
  <2>1. m + i \in 1..(m + n) /\ ~(m + i <= m) /\ (m + i) - m = i
    OBVIOUS
  <2>2. u[m + i] = t[(m + i) - m]
    BY <1>2, <2>1
  <2> QED BY <2>1, <2>2, Zenon
<1>5. Joint(u, s, t, m, n)
  BY <1>1, <1>3, <1>4 DEF Joint, u
<1> QED BY <1>1, <1>5 DEF u

\* 1545-1610: what is stored of %a, cell by cell.
LEMMA HexCellsAre ==
  ASSUME Inputs, fs.prec \in Nat, cfg.man % 4 = 0, HexExponent \in Int
  PROVE  /\ HexLaid(HexCells, HexDigits, HexPoint, Len(Numeral[HexAbs]))
         /\ HexCells \in Seq(0..Minus) /\ HexAbs \in Nat
<1> DEFINE S == 0..Minus
           R == Rounded
           H == HexDigits
           x == HexExponent
           a == IF x < 0 THEN -x ELSE x
           s1 == Numeral[a]
           c2 == IF x < 0 THEN Minus ELSE Plus
           s2 == <<c2, ExpChar>>
           s3 == Nibbles(R, H)
           s4 == IF H > 0 \/ fs.alt THEN <<Dot>> ELSE <<>>
           c5 == (R \div Pow[4 * H]) % 16
           s5 == <<c5>>
           L == Len(s1)
           p == HexPoint
<1>0. S = 0..19 /\ 0..9 \subseteq S /\ 0..15 \subseteq S /\ Dot \in S /\ ExpChar \in S
      /\ Minus \in S /\ Plus \in S
  BY DEF Minus, Plus, Dot, ExpChar
<1>1. H \in Nat
  BY RoundedTurns
<1>2. a \in Nat
  <2> HIDE DEF x
  <2>1. x \in Int
    BY DEF x
  <2> QED BY <2>1
<1>3. HexCells = s1 \o s2 \o s3 \o s4 \o s5
  BY Zenon DEF HexCells
<1>4. s1 \in Seq(S) /\ L \in Nat
  <2> HIDE DEF a, S
  <2>1. s1 \in Seq(0..9) /\ Len(s1) \in Nat \ {0}
    BY <1>2, NumeralLen
  <2> HIDE DEF s1
  <2>2. s1 \in Seq(S)
    BY <1>0, <2>1, SeqMonotonic
  <2> QED BY <2>1, <2>2
<1>5. s2 \in Seq(S) /\ Len(s2) = 2 /\ s2[1] = c2 /\ s2[2] = ExpChar
  <2>1. c2 \in S
    BY <1>0
  <2> HIDE DEF c2, S
  <2> QED BY <1>0, <2>1
<1>6. s3 \in Seq(S) /\ Len(s3) = H /\ \A j \in 1..H : s3[j] = NibbleAt(j - 1)
  <2> DEFINE c == [i \in 1..H |-> NibbleAt(i - 1)]
  <2>1. s3 = c
    BY DEF Nibbles, NibbleAt
  <2>2. c \in [1..H -> S]
    <3>1. ASSUME NEW i \in 1..H PROVE NibbleAt(i - 1) \in S
      <4>1. i - 1 \in 0..H
        BY <1>1
      <4>2. NibbleAt(i - 1) \in 0..15
        BY <4>1, NibbleTyped
      <4> HIDE DEF S
      <4> QED BY <1>0, <4>2
    <3> HIDE DEF S
    <3> QED BY <3>1
  <2> HIDE DEF S, s3, H
  <2>3. c \in Seq(S) /\ Len(c) = H /\ \A j \in 1..H : c[j] = NibbleAt(j - 1)
    BY <1>1, <2>2
  <2> QED BY <2>1, <2>3
<1>7. s4 \in Seq(S) /\ Len(s4) = p /\ p \in 0..1 /\ (p = 1 => s4[1] = Dot)
  <2> HIDE DEF S
  <2>1. <<Dot>> \in Seq(S) /\ Len(<<Dot>>) = 1 /\ <<Dot>>[1] = Dot
    BY <1>0
  <2>2. <<>> \in Seq(S) /\ Len(<<>>) = 0
    OBVIOUS
  <2>3. CASE H > 0 \/ fs.alt
    <3>1. s4 = <<Dot>> /\ p = 1
      BY <2>3, Zenon DEF HexPoint
    <3> HIDE DEF s4, p
    <3> QED BY <2>1, <3>1
  <2>4. CASE ~(H > 0 \/ fs.alt)
    <3>1. s4 = <<>> /\ p = 0
      BY <2>4, Zenon DEF HexPoint
    <3> HIDE DEF s4, p
    <3> QED BY <2>2, <3>1
  <2> QED BY <2>3, <2>4
<1>8. s5 \in Seq(S) /\ Len(s5) = 1 /\ s5[1] = NibbleAt(H)
  <2>1. c5 = NibbleAt(H) /\ c5 \in S
    <3>1. H \in 0..H
      BY <1>1
    <3>2. NibbleAt(H) \in 0..15
      BY <3>1, NibbleTyped
    <3>3. c5 = NibbleAt(H)
      BY Zenon DEF NibbleAt
    <3> HIDE DEF c5, S
    <3> QED BY <1>0, <3>2, <3>3
  <2> HIDE DEF c5, S
  <2> QED BY <2>1
<1>9. a = HexAbs /\ c2 = HexSign
  BY Zenon DEF HexAbs, HexSign
<1> HIDE DEF s1, s2, s3, s4, s5, L, p, H, S, c2
<1>10. L = Len(s1)
  BY DEF L
<1> DEFINE t2 == s1 \o s2
           t3 == t2 \o s3
           t4 == t3 \o s4
           t5 == t4 \o s5
<1>12. /\ t2 \in Seq(S) /\ Len(t2) = L + 2
       /\ \A i \in 1..L : t2[i] = s1[i]
       /\ \A i \in 1..2 : t2[L + i] = s2[i]
  <2> DEFINE k == 2
  <2>1. k \in Nat /\ Len(s2) = k
    BY <1>5
  <2> HIDE DEF k
  <2>2. s1 \o s2 \in Seq(S) /\ Joint(s1 \o s2, s1, s2, L, k)
    BY <1>4, <1>5, <1>10, <2>1, Joined
  <2> QED BY <2>2 DEF Joint, k
<1> HIDE DEF t2
<1>13. /\ t3 \in Seq(S) /\ Len(t3) = L + 2 + H
       /\ \A i \in 1..(L + 2) : t3[i] = t2[i]
       /\ \A i \in 1..H : t3[L + 2 + i] = s3[i]
  <2>1. L + 2 \in Nat
    BY <1>4
  <2> DEFINE m == L + 2
  <2>2. m \in Nat /\ Len(t2) = m
    BY <1>1, <1>6, <1>12, <2>1
  <2> HIDE DEF m
  <2>3. t2 \o s3 \in Seq(S) /\ Joint(t2 \o s3, t2, s3, m, H)
    BY <1>1, <1>6, <1>12, <2>2, Joined
  <2> QED BY <2>3 DEF Joint, m
<1> HIDE DEF t3
<1>14. /\ t4 \in Seq(S) /\ Len(t4) = L + 2 + H + p
       /\ \A i \in 1..(L + 2 + H) : t4[i] = t3[i]
       /\ \A i \in 1..p : t4[L + 2 + H + i] = s4[i]
  <2>1. L + 2 + H \in Nat /\ p \in Nat
    BY <1>1, <1>4, <1>7
  <2> DEFINE m == L + 2 + H
  <2>2. m \in Nat /\ Len(t3) = m
    BY <1>7, <1>13, <2>1
  <2> HIDE DEF m
  <2>3. t3 \o s4 \in Seq(S) /\ Joint(t3 \o s4, t3, s4, m, p)
    BY <1>7, <1>13, <2>2, Joined
  <2> QED BY <2>3 DEF Joint, m
<1> HIDE DEF t4
<1>15. /\ t5 \in Seq(S) /\ Len(t5) = L + 2 + H + p + 1
       /\ \A i \in 1..(L + 2 + H + p) : t5[i] = t4[i]
       /\ \A i \in 1..1 : t5[L + 2 + H + p + i] = s5[i]
  <2>1. L + 2 + H + p \in Nat
    BY <1>1, <1>4, <1>7
  <2> DEFINE m == L + 2 + H + p
         k == 1
  <2>2. m \in Nat /\ Len(t4) = m /\ k \in Nat /\ Len(s5) = k
    BY <1>8, <1>14, <2>1
  <2> HIDE DEF m, k
  <2>3. t4 \o s5 \in Seq(S) /\ Joint(t4 \o s5, t4, s5, m, k)
    BY <1>8, <1>14, <2>2, Joined
  <2> QED BY <2>3 DEF Joint, m, k
<1>16. HexCells = t5
  BY <1>3 DEF t2, t3, t4
<1> HIDE DEF t5
<1>17. \A i \in 1..L : t5[i] = s1[i]
  <2>1. \A i \in 1..L : i \in 1..(L + 2) /\ i \in 1..(L + 2 + H) /\ i \in 1..(L + 2 + H + p)
    BY <1>1, <1>4, <1>7
  <2> QED BY <1>12, <1>13, <1>14, <1>15, <2>1
<1>18. t5[L + 1] = c2 /\ t5[L + 2] = ExpChar
  <2>1. \A i \in 1..2 : L + i \in 1..(L + 2) /\ L + i \in 1..(L + 2 + H) /\ L + i \in 1..(L + 2 + H + p)
    BY <1>1, <1>4, <1>7
  <2>2. \A i \in 1..2 : t5[L + i] = s2[i]
    BY <1>12, <1>13, <1>14, <1>15, <2>1
  <2> QED BY <1>5, <2>2
<1>19. ASSUME NEW j \in 1..H PROVE t5[L + 2 + j] = NibbleAt(j - 1)
  <2>1. L + 2 + j \in 1..(L + 2 + H) /\ L + 2 + j \in 1..(L + 2 + H + p)
    BY <1>1, <1>4, <1>7
  <2> QED BY <1>6, <1>13, <1>14, <1>15, <2>1
<1>20. p = 1 => t5[L + 3 + H] = Dot
  <2> SUFFICES ASSUME p = 1 PROVE t5[L + 3 + H] = Dot
    OBVIOUS
  <2>1. L + 3 + H = L + 2 + H + 1 /\ L + 2 + H + 1 \in 1..(L + 2 + H + p) /\ 1 \in 1..p
    BY <1>1, <1>4
  <2>2. t5[L + 2 + H + 1] = s4[1]
    BY <1>14, <1>15, <2>1
  <2> QED BY <1>7, <2>1, <2>2
<1>21. t5[H + p + L + 3] = NibbleAt(H)
  <2>1. H + p + L + 3 = L + 2 + H + p + 1 /\ 1 \in 1..1
    BY <1>1, <1>4, <1>7
  <2>2. t5[L + 2 + H + p + 1] = s5[1]
    BY <1>15, <2>1
  <2> QED BY <1>8, <2>1, <2>2
<1>22. Len(t5) = H + p + L + 3
  BY <1>1, <1>4, <1>7, <1>15
<1>23. HexLaid(t5, H, p, L)
  <2>1. \A i \in 1..L : t5[i] = Numeral[HexAbs][i]
    BY <1>9, <1>17 DEF s1
  <2>2. t5[L + 1] = HexSign
    BY <1>9, <1>18
  <2> QED BY <1>18, <1>19, <1>20, <1>21, <1>22, <2>1, <2>2 DEF HexLaid
<1> QED BY <1>2, <1>9, <1>15, <1>16, <1>23 DEF S, H, p, L, s1

\* What is printed is what was stored, from the top cell down.
LEMMA TextOfCells ==
  ASSUME NEW s, NEW n \in Nat, Len(s) = n
  PROVE  LET t == Text(PutRun(Blank, 0, s), n)
         IN DOMAIN t = 1..n /\ \A k \in 1..n : t[k] = s[n + 1 - k]
<1> DEFINE b == PutRun(Blank, 0, s)
           t == Text(b, n)
<1>1. \A i \in 0..(n - 1) : i \in DOMAIN b /\ b[i] = s[i + 1]
  <2>1. DOMAIN Blank = {}
    BY DEF Blank
  <2>2. b = [k \in 0..(n - 1) |-> s[k + 1]]
    <3>1. b = [k \in DOMAIN Blank \cup 0..(0 + n - 1) |->
                 IF k \in 0..(0 + n - 1) THEN s[k - 0 + 1] ELSE Blank[k]]
      BY DEF PutRun
    <3>2. DOMAIN Blank \cup 0..(0 + n - 1) = 0..(n - 1)
      BY <2>1
    <3>3. \A k \in 0..(n - 1) : (IF k \in 0..(0 + n - 1) THEN s[k - 0 + 1] ELSE Blank[k]) = s[k + 1]
      OBVIOUS
    <3> HIDE DEF b
    <3> QED BY <3>1, <3>2, <3>3
  <2> HIDE DEF b
  <2> QED BY <2>2
<1>2. t = [k \in 1..n |-> Cell(b, n - k)]
  BY DEF Text
<1> HIDE DEF b, t
<1>3. ASSUME NEW k \in 1..n PROVE t[k] = s[n + 1 - k]
  <2>1. n - k \in 0..(n - 1) /\ (n - k) + 1 = n + 1 - k
    OBVIOUS
  <2>2. t[k] = Cell(b, n - k)
    BY <1>2
  <2>3. Cell(b, n - k) = b[n - k]
    BY <1>1, <2>1 DEF Cell
  <2>4. b[n - k] = s[(n - k) + 1]
    BY <1>1, <2>1
  <2> QED BY <2>1, <2>2, <2>3, <2>4, Zenon
<1>4. DOMAIN t = 1..n
  BY <1>2
<1> QED BY <1>3, <1>4 DEF t, b

\* A text that is the cells of %a from the top down has the shape of one.
LEMMA HexShaped ==
  ASSUME NEW s, NEW t, NEW H \in Nat, NEW p \in 0..1, NEW L \in Nat, NEW n,
         n = H + p + L + 3, HexLaid(s, H, p, L),
         DOMAIN t = 1..n, Len(t) = n, \A k \in 1..n : t[k] = s[n + 1 - k]
  PROVE  HexShape(t, H, p, L)
<1>1. n \in Nat
  OBVIOUS
<1>2. t[1] = NibbleAt(H)
  <2>1. 1 \in 1..n /\ n + 1 - 1 = H + p + L + 3
    OBVIOUS
  <2>2. t[1] = s[n + 1 - 1]
    BY <2>1
  <2> QED BY <2>1, <2>2 DEF HexLaid
<1>3. p = 1 => t[2] = Dot
  <2> SUFFICES ASSUME p = 1 PROVE t[2] = Dot
    OBVIOUS
  <2>1. 2 \in 1..n /\ n + 1 - 2 = L + 3 + H
    OBVIOUS
  <2>2. t[2] = s[n + 1 - 2]
    BY <2>1
  <2> QED BY <2>1, <2>2 DEF HexLaid
<1>4. ASSUME NEW j \in 1..H PROVE t[1 + p + j] = NibbleAt(H - j)
  <2>1. PICK i \in 1..H : i = H + 1 - j
    <3>1. H + 1 - j \in 1..H
      OBVIOUS
    <3> QED BY <3>1
  <2>2. 1 + p + j \in 1..n /\ n + 1 - (1 + p + j) = L + 2 + i /\ i - 1 = H - j
    BY <2>1
  <2>3. t[1 + p + j] = s[n + 1 - (1 + p + j)]
    BY <2>2
  <2>4. s[L + 2 + i] = NibbleAt(i - 1)
    BY DEF HexLaid
  <2> QED BY <2>2, <2>3, <2>4, Zenon
<1>5. t[2 + p + H] = ExpChar
  <2>1. 2 + p + H \in 1..n /\ n + 1 - (2 + p + H) = L + 2
    OBVIOUS
  <2>2. t[2 + p + H] = s[n + 1 - (2 + p + H)]
    BY <2>1
  <2> QED BY <2>1, <2>2 DEF HexLaid
<1>6. t[3 + p + H] = HexSign
  <2>1. 3 + p + H \in 1..n /\ n + 1 - (3 + p + H) = L + 1
    OBVIOUS
  <2>2. t[3 + p + H] = s[n + 1 - (3 + p + H)]
    BY <2>1
  <2> QED BY <2>1, <2>2 DEF HexLaid
<1>7. ASSUME NEW j \in 1..L PROVE t[3 + p + H + j] = Numeral[HexAbs][L + 1 - j]
  <2>1. PICK i \in 1..L : i = L + 1 - j
    <3>1. L + 1 - j \in 1..L
      OBVIOUS
    <3> QED BY <3>1
  <2>2. 3 + p + H + j \in 1..n /\ n + 1 - (3 + p + H + j) = i
    BY <2>1
  <2>3. t[3 + p + H + j] = s[n + 1 - (3 + p + H + j)]
    BY <2>2
  <2>4. s[i] = Numeral[HexAbs][i]
    BY DEF HexLaid
  <2> QED BY <2>1, <2>2, <2>3, <2>4, Zenon
<1> QED BY <1>2, <1>3, <1>4, <1>5, <1>6, <1>7 DEF HexShape

-----------------------------------------------------------------------------
(* What the parts of the text say.                                           *)

\* Where the point and the exponent are.
LEMMA HexMarks ==
  ASSUME Inputs, fs.prec \in Nat, cfg.man % 4 = 0, NEW t, NEW p \in 0..1, NEW L \in Nat \ {0},
         \A k \in 1..L : Numeral[HexAbs][k] \in 0..9, HexShape(t, HexDigits, p, L)
  PROVE  /\ Cardinality(Before(t, ExpChar)) = 1 + p + HexDigits
         /\ Cardinality(Before(t, Dot)) = IF p = 1 THEN 1 ELSE Len(t)
         /\ \A k \in 1..Len(t) : t[k] \in 0..Minus
<1> DEFINE H == HexDigits
           n == H + p + L + 3
<1>1. H \in Nat
  BY RoundedTurns
<1>2. /\ DOMAIN t = 1..n /\ Len(t) = n /\ n \in Nat
      /\ t[1] = NibbleAt(H) /\ (p = 1 => t[2] = Dot)
      /\ \A j \in 1..H : t[1 + p + j] = NibbleAt(H - j)
      /\ t[2 + p + H] = ExpChar /\ t[3 + p + H] = HexSign
      /\ \A j \in 1..L : t[3 + p + H + j] = Numeral[HexAbs][L + 1 - j]
  BY <1>1 DEF HexShape
<1>3. \A k \in 0..H : NibbleAt(k) \in 0..15
  BY NibbleTyped
<1>4. \A k \in 1..L : Numeral[HexAbs][k] \in 0..9
  OBVIOUS
<1>5. HexSign \in {Minus, Plus}
  BY DEF HexSign
<1> HIDE DEF H
<1>6. \A k \in 1..n : \/ k = 1 \/ (p = 1 /\ k = 2) \/ k - (1 + p) \in 1..H
                      \/ k = 2 + p + H \/ k = 3 + p + H \/ k - (3 + p + H) \in 1..L
  BY <1>1
<1> HIDE DEF n
<1>7. ASSUME NEW k \in 1..n
      PROVE  /\ k = 1 \/ k - (1 + p) \in 1..H => t[k] \in 0..15
             /\ k - (3 + p + H) \in 1..L => t[k] \in 0..9
  <2>1. k = 1 => t[k] \in 0..15
    <3>1. H \in 0..H
      BY <1>1
    <3> QED BY <1>2, <1>3, <3>1
  <2>2. ASSUME k - (1 + p) \in 1..H PROVE t[k] \in 0..15
    <3>1. PICK j \in 1..H : j = k - (1 + p) /\ k = 1 + p + j
      <4>1. k = 1 + p + (k - (1 + p))
        OBVIOUS
      <4> QED BY <2>2, <4>1
    <3>2. H - j \in 0..H
      BY <1>1
    <3> QED BY <1>2, <1>3, <3>1, <3>2
  <2>3. ASSUME k - (3 + p + H) \in 1..L PROVE t[k] \in 0..9
    <3>1. PICK j \in 1..L : j = k - (3 + p + H) /\ k = 3 + p + H + j
      <4>1. k = 3 + p + H + (k - (3 + p + H))
        BY <1>1
      <4> QED BY <2>3, <4>1
    <3>2. L + 1 - j \in 1..L
      OBVIOUS
    <3> QED BY <1>2, <1>4, <3>1, <3>2
  <2> QED BY <2>1, <2>2, <2>3
<1>8. \A k \in 1..n : t[k] \in 0..Minus
  <2> SUFFICES ASSUME NEW k \in 1..n PROVE t[k] \in 0..Minus
    OBVIOUS
  <2>1. Dot \in 0..Minus /\ ExpChar \in 0..Minus /\ HexSign \in 0..Minus
        /\ 0..15 \subseteq 0..Minus /\ 0..9 \subseteq 0..Minus
    BY <1>5 DEF Dot, ExpChar, Minus, Plus
  <2> QED BY <1>2, <1>6, <1>7, <2>1
<1>9. Cardinality(Before(t, ExpChar)) = 1 + p + H
  <2> DEFINE k == 1 + p + H
             c == ExpChar
  <2>1. k \in 0..n /\ k < n
    BY <1>1 DEF n
  <2>2. ASSUME NEW j \in 1..k PROVE t[j] # c
    <3>1. j \in 1..n /\ (j = 1 \/ (p = 1 /\ j = 2) \/ j - (1 + p) \in 1..H)
      <4>1. n \in Nat
        BY <1>2
      <4> QED BY <1>1, <2>1, <4>1
    <3>2. j = 1 \/ j - (1 + p) \in 1..H => t[j] # c
      BY <1>7, <3>1 DEF ExpChar
    <3>3. p = 1 /\ j = 2 => t[j] # c
      BY <1>2 DEF Dot, ExpChar
    <3> QED BY <3>1, <3>2, <3>3
  <2>3. t[k + 1] = c
    <3>1. k + 1 = 2 + p + H
      BY <1>1
    <3> QED BY <1>2, <3>1
  <2> HIDE DEF k, c
  <2>4. Cardinality(Before(t, c)) = k
    BY <1>2, <2>1, <2>2, <2>3, BeforeIs
  <2> QED BY <2>4 DEF k, c
<1>10. Cardinality(Before(t, Dot)) = IF p = 1 THEN 1 ELSE n
  <2> DEFINE k == IF p = 1 THEN 1 ELSE n
             c == Dot
  <2>1. k \in 0..n /\ (k < n => p = 1 /\ k = 1)
    BY <1>1 DEF n
  <2>2. ASSUME NEW j \in 1..k PROVE t[j] # c
    <3>1. j \in 1..n /\ (p = 1 => j = 1)
      BY <1>2, <2>1
    <3>2. j = 1 \/ j - (1 + p) \in 1..H \/ j - (3 + p + H) \in 1..L => t[j] # c
      BY <1>7, <3>1 DEF Dot
    <3>3. j = 2 + p + H \/ j = 3 + p + H => t[j] # c
      BY <1>2, <1>5 DEF Dot, ExpChar, Minus, Plus
    <3>4. ~(p = 1 /\ j = 2)
      BY <3>1
    <3> QED BY <1>6, <3>1, <3>2, <3>3, <3>4
  <2>3. k < n => t[k + 1] = c
    <3>1. k < n => p = 1 /\ k + 1 = 2
      BY <2>1
    <3> QED BY <1>2, <3>1
  <2> HIDE DEF k, c
  <2>4. Cardinality(Before(t, c)) = k
    BY <1>2, <2>1, <2>2, <2>3, BeforeIs
  <2> QED BY <2>4 DEF k, c
<1> QED BY <1>2, <1>8, <1>9, <1>10 DEF H

\* The digits of the significand are read back as the number rounded.
LEMMA HexValue ==
  ASSUME Inputs, fs.prec \in Nat, cfg.man % 4 = 0, real.frac < Pow[cfg.man],
         NEW s, NEW n \in Nat, n = HexDigits + 1, Len(s) = n,
         \A k \in 1..n : s[k] = NibbleAt(n - k)
  PROVE  NumberOf(s, 16) = Rounded
<1> DEFINE H == HexDigits
           R == Rounded
           h == [k \in 0..n |-> IF k = 0 THEN 0 ELSE R \div Pow[4 * (n - k)]]
<1>1. H \in Nat /\ H <= FracNibbles /\ FracNibbles \in Nat /\ R \in Nat
  BY RoundedIs, NibbleFacts
<1>2. /\ \A k \in 0..H : Pow[4 * k] \in Nat \ {0}
      /\ \A k \in 0..(H - 1) : Pow[4 * (k + 1)] = 16 * Pow[4 * k]
      /\ Pow[4 * 0] = 1
  <2>1. Nibbled(FracNibbles)
    BY NibbleFacts
  <2>2. \A k \in 0..H : k \in 0..FracNibbles
    BY <1>1
  <2>3. \A k \in 0..(H - 1) : k \in 0..(FracNibbles - 1)
    BY <1>1
  <2> QED BY <2>1, <2>2, <2>3 DEF Nibbled
<1>3. R \div Pow[4 * H] < 16
  BY LeadSmall
<1>4. \A k \in 1..n : s[k] = NibbleAt(n - k)
  OBVIOUS
<1>5. n = H + 1
  OBVIOUS
<1>6. \A k \in 0..H : NibbleAt(k) \in 0..15 /\ NibbleAt(k) = (R \div Pow[4 * k]) % 16
  BY NibbleTyped DEF NibbleAt
<1> HIDE DEF H, R
<1>7. h[0] = 0 /\ \A k \in 1..n : h[k] = R \div Pow[4 * (n - k)]
  OBVIOUS
<1> HIDE DEF h
<1>8. ASSUME NEW k \in 1..n PROVE s[k] \in Nat /\ h[k] = h[k - 1] * 16 + s[k]
  <2>1. PICK j \in 0..H : j = n - k
    <3>1. n - k \in 0..H
      BY <1>1, <1>5
    <3> QED BY <3>1
  <2>2. PICK p \in Nat \ {0} : p = Pow[4 * j]
    BY <1>2
  <2> DEFINE x == R \div p
  <2>3. x \in Nat
    BY <1>1, SixteenthOf
  <2>4. s[k] = x % 16 /\ h[k] = x /\ s[k] \in 0..15
    BY <1>4, <1>6, <1>7, <2>1, <2>2
  <2>5. CASE k = 1
    <3>1. j = H /\ h[k - 1] = 0
      BY <1>1, <1>5, <1>7, <2>1, <2>5
    <3>2. x < 16
      BY <1>3, <2>2, <3>1
    <3> HIDE DEF x
    <3>3. x % 16 = x
      BY <2>3, <3>2
    <3> QED BY <2>3, <2>4, <3>1, <3>3
  <2>6. CASE k # 1
    <3>1. j \in 0..(H - 1) /\ k - 1 \in 1..n /\ n - (k - 1) = j + 1
      BY <1>1, <1>5, <2>1, <2>6
    <3>2. Pow[4 * (j + 1)] = 16 * p
      BY <1>2, <2>2, <3>1
    <3>3. h[k - 1] = R \div (16 * p)
      BY <1>7, <3>1, <3>2
    <3>4. R \div (16 * p) = x \div 16
      BY <1>1, SixteenthOf
    <3> HIDE DEF x
    <3>5. x = (x \div 16) * 16 + (x % 16) /\ x % 16 \in Nat
      BY <2>3
    <3> QED BY <2>4, <3>3, <3>4, <3>5
  <2> QED BY <2>5, <2>6
<1>9. h[n] = R
  <2>1. n \in 1..n /\ n - n = 0
    BY <1>1, <1>5
  <2>2. R \div 1 = R
    BY <1>1
  <2>3. h[n] = R \div Pow[4 * (n - n)]
    BY <1>7, <2>1
  <2> QED BY <1>2, <2>1, <2>2, <2>3
<1> DEFINE B == 16
<1>10. B \in Nat /\ Sums(s, n, B, h)
  BY <1>7, <1>8 DEF Sums
<1> HIDE DEF B
<1>11. NumberOf(s, B) = h[n]
  BY <1>10, NumberOfTable
<1> QED BY <1>9, <1>11 DEF B, R

\* Part of a text.
LEMMA PartIs ==
  ASSUME NEW S, NEW t, NEW a \in Int, NEW b \in Int, NEW n \in Nat, n = b + 1 - a,
         \A k \in a..b : t[k] \in S
  PROVE  /\ SubSeq(t, a, b) \in Seq(S) /\ Len(SubSeq(t, a, b)) = n
         /\ \A k \in 1..n : SubSeq(t, a, b)[k] = t[a + k - 1]
<1>1. /\ SubSeq(t, a, b) \in Seq(S)
      /\ Len(SubSeq(t, a, b)) = IF a <= b THEN b - a + 1 ELSE 0
      /\ \A i \in 1..(b - a + 1) : SubSeq(t, a, b)[i] = t[a + i - 1]
  BY SubSeqProperties
<1>2. b - a + 1 = n
  OBVIOUS
<1> QED BY <1>1, <1>2

\* 1545-1610: the mantissa of the text.
LEMMA HexMantissa ==
  ASSUME Inputs, fs.prec \in Nat, cfg.man % 4 = 0, real.frac < Pow[cfg.man],
         NEW t, NEW p \in 0..1, p = 0 => HexDigits = 0, NEW L \in Nat \ {0},
         \A k \in 1..L : Numeral[HexAbs][k] \in 0..9, HexShape(t, HexDigits, p, L)
  PROVE  NumberOf(Mantissa(t), 16) = Rounded /\ FracLen(t) = HexDigits
<1> DEFINE H == HexDigits
           S == 0..Minus
           N == H + p + L + 3
           e == 1 + p + H
           d == IF p = 1 THEN 1 ELSE N
           u == SubSeq(t, 1, 1)
           v == SubSeq(t, p + 2, e)
           n == H + 1
<1>1. H \in Nat /\ (p = 0 => H = 0)
  BY RoundedTurns
<1>2. /\ Len(t) = N /\ t[1] = NibbleAt(H) /\ \A j \in 1..H : t[1 + p + j] = NibbleAt(H - j)
  BY DEF HexShape
<1>3. /\ Cardinality(Before(t, ExpChar)) = e /\ Cardinality(Before(t, Dot)) = d
      /\ \A k \in 1..N : t[k] \in S
  BY <1>2, HexMarks
<1> HIDE DEF H, S
<1>4. N \in Nat /\ e \in Nat /\ d \in Nat /\ e < N /\ n \in Nat
  BY <1>1
<1>5. Mantissa(t) = u \o v
  <2>1. Mantissa(t) = SubSeq(t, 1, Lesser(d, e)) \o SubSeq(t, d + 2, e)
    BY <1>3, Zenon DEF Mantissa
  <2>2. Lesser(d, e) = 1
    BY <1>1, <1>4 DEF Lesser
  <2>3. SubSeq(t, d + 2, e) = v
    <3>1. CASE p = 1
      <4>1. d + 2 = p + 2
        BY <3>1
      <4> QED BY <4>1, Zenon
    <3>2. CASE p # 1
      <4>1. d + 2 \in Int /\ e \in Int /\ p + 2 \in Int /\ e < d + 2 /\ e < p + 2
        BY <1>1, <1>4, <3>2
      <4> HIDE DEF d, e
      <4>2. SubSeq(t, d + 2, e) = <<>>
        BY <4>1, SubSeqEmpty
      <4>3. SubSeq(t, p + 2, e) = <<>>
        BY <4>1, SubSeqEmpty
      <4> QED BY <4>2, <4>3
    <3> QED BY <3>1, <3>2
  <2> QED BY <2>1, <2>2, <2>3, Zenon
<1>6. /\ u \in Seq(S) /\ Len(u) = 1 /\ u[1] = t[1]
  <2>1. \A k \in 1..1 : t[k] \in S
    BY <1>3, <1>4
  <2> DEFINE a == 1
  <2>2. a \in Int /\ a \in Nat /\ a = a + 1 - a /\ \A k \in a..a : t[k] \in S
    BY <2>1
  <2> HIDE DEF a
  <2>3. /\ SubSeq(t, a, a) \in Seq(S) /\ Len(SubSeq(t, a, a)) = a
        /\ \A k \in 1..a : SubSeq(t, a, a)[k] = t[a + k - 1]
    BY <2>2, PartIs
  <2>4. 1 \in 1..1 /\ 1 + 1 - 1 = 1
    OBVIOUS
  <2> QED BY <2>3, <2>4 DEF a
<1>7. /\ v \in Seq(S) /\ Len(v) = H /\ \A j \in 1..H : v[j] = t[1 + p + j]
  <2> DEFINE a == p + 2
  <2>1. a \in Int /\ e \in Int /\ H = e + 1 - a /\ \A k \in a..e : k \in 1..N
    BY <1>1, <1>4
  <2>2. \A k \in a..e : t[k] \in S
    BY <1>3, <2>1
  <2>3. \A j \in 1..H : a + j - 1 = 1 + p + j
    BY <1>1
  <2> HIDE DEF a, e
  <2>4. /\ SubSeq(t, a, e) \in Seq(S) /\ Len(SubSeq(t, a, e)) = H
        /\ \A k \in 1..H : SubSeq(t, a, e)[k] = t[a + k - 1]
    BY <1>1, <2>1, <2>2, PartIs
  <2>5. \A j \in 1..H : SubSeq(t, a, e)[j] = t[1 + p + j]
    BY <2>3, <2>4
  <2> QED BY <2>4, <2>5 DEF a
<1> HIDE DEF u, v
<1> DEFINE k1 == 1
           m == u \o v
<1>8. m \in Seq(S) /\ Joint(m, u, v, k1, H)
  <2>1. k1 \in Nat /\ Len(u) = k1
    BY <1>6
  <2> HIDE DEF k1
  <2> QED BY <1>1, <1>6, <1>7, <2>1, Joined
<1>9. Len(m) = n /\ m[1] = t[1] /\ \A j \in 1..H : m[1 + j] = t[1 + p + j]
  <2>1. Len(m) = 1 + H /\ (\A i \in 1..1 : m[i] = u[i]) /\ (\A i \in 1..H : m[1 + i] = v[i])
    BY <1>8 DEF Joint
  <2>2. 1 \in 1..1
    OBVIOUS
  <2> HIDE DEF m
  <2>3. m[1] = t[1]
    BY <1>6, <2>1, <2>2
  <2>4. \A j \in 1..H : m[1 + j] = t[1 + p + j]
    BY <1>7, <2>1
  <2>5. Len(m) = n
    BY <1>1, <2>1
  <2> QED BY <2>3, <2>4, <2>5
<1> HIDE DEF m
<1>10. ASSUME NEW k \in 1..n PROVE m[k] = NibbleAt(n - k)
  <2>1. CASE k = 1
    <3>1. n - k = H
      BY <1>1, <2>1
    <3> QED BY <1>2, <1>9, <2>1, <3>1
  <2>2. CASE k # 1
    <3>1. PICK j \in 1..H : k = 1 + j
      <4>1. k - 1 \in 1..H /\ k = 1 + (k - 1)
        BY <1>1, <2>2
      <4> QED BY <4>1
    <3>2. n - k = H - j
      BY <1>1, <3>1
    <3> QED BY <1>2, <1>9, <3>1, <3>2
  <2> QED BY <2>1, <2>2
<1> HIDE DEF n
<1>11. NumberOf(m, 16) = Rounded
  <2>1. n = HexDigits + 1
    BY DEF n, H
  <2> QED BY <1>4, <1>9, <1>10, <2>1, HexValue
<1>12. FracLen(t) = H
  <2>1. FracLen(t) = Greater(0, e - d - 1)
    BY <1>3, Zenon DEF FracLen
  <2>2. Greater(0, e - d - 1) = H
    BY <1>1, <1>4 DEF Greater
  <2> QED BY <2>1, <2>2
<1> QED BY <1>5, <1>11, <1>12 DEF m, H

\* And its exponent.
LEMMA HexExponentRead ==
  ASSUME Inputs, fs.prec \in Nat, cfg.man % 4 = 0, HexExponent \in Int,
         NEW t, NEW p \in 0..1, HexAbs \in Nat,
         HexShape(t, HexDigits, p, Len(Numeral[HexAbs]))
  PROVE  PrintedExp(t) = HexExponent
<1> DEFINE H == HexDigits
           a == HexAbs
           L == Len(Numeral[a])
           N == H + p + L + 3
           k == 1 + p + H + 1
           r == SubSeq(t, k + 2, Len(t))
           S == 0..Minus
<1>1. H \in Nat /\ L \in Nat \ {0} /\ \A i \in 1..L : Numeral[a][i] \in 0..9
  BY RoundedTurns, NumeralLen
<1>a. HexShape(t, H, p, L)
  OBVIOUS
<1> HIDE DEF L, H, a
<1>2. /\ Len(t) = N /\ t[3 + p + H] = HexSign
      /\ \A j \in 1..L : t[3 + p + H + j] = Numeral[a][L + 1 - j]
  BY <1>a DEF HexShape, a
<1>3. Cardinality(Before(t, ExpChar)) + 1 = k /\ \A i \in 1..N : t[i] \in S
  <2>1. /\ Cardinality(Before(t, ExpChar)) = 1 + p + H
        /\ \A i \in 1..Len(t) : t[i] \in S
    BY <1>1, <1>a, HexMarks DEF H, a
  <2> QED BY <1>2, <2>1
<1>4. k \in Nat /\ N \in Nat /\ k < N /\ k + 1 = 3 + p + H
  BY <1>1
<1>5. Len(r) = L /\ \A j \in 1..L : r[j] = Numeral[a][L + 1 - j]
  <2> DEFINE b == k + 2
             c == Len(t)
  <2>1. b \in Int /\ c \in Int /\ L = c + 1 - b /\ c = N /\ \A i \in b..c : i \in 1..N
    BY <1>1, <1>2, <1>4
  <2>2. \A i \in b..c : t[i] \in S
    BY <1>3, <2>1
  <2>3. \A j \in 1..L : b + j - 1 = 3 + p + H + j
    BY <1>1
  <2> HIDE DEF b, c, S
  <2>4. /\ Len(SubSeq(t, b, c)) = L
        /\ \A i \in 1..L : SubSeq(t, b, c)[i] = t[b + i - 1]
    BY <1>1, <2>1, <2>2, PartIs
  <2>5. \A i \in 1..L : SubSeq(t, b, c)[i] = t[3 + p + H + i]
    BY <2>3, <2>4
  <2> QED BY <1>2, <2>4, <2>5 DEF b, c
<1>6. NumberOf(r, 10) = a
  <2> HIDE DEF r
  <2>1. a \in Nat
    BY DEF a
  <2> QED BY <1>5, <2>1, NumeralRead DEF L
<1>7. PrintedExp(t) = IF k > Len(t) THEN 0 ELSE IF t[k + 1] = Minus THEN -a ELSE a
  <2>1. PrintedExp(t) = IF k > Len(t) THEN 0
                        ELSE IF t[k + 1] = Minus THEN -NumberOf(r, 10) ELSE NumberOf(r, 10)
    BY <1>3, Zenon DEF PrintedExp
  <2> HIDE DEF r, k
  <2> QED BY <1>6, <2>1
<1>8. PrintedExp(t) = IF HexSign = Minus THEN -a ELSE a
  <2>1. ~(k > Len(t)) /\ t[k + 1] = HexSign
    BY <1>2, <1>4
  <2> HIDE DEF k
  <2> QED BY <1>7, <2>1
<1>9. (HexSign = Minus <=> HexExponent < 0) /\ a = IF HexExponent < 0 THEN -HexExponent ELSE HexExponent
  BY DEF HexSign, Minus, Plus, a, HexAbs
<1> DEFINE x == HexExponent
<1> HIDE DEF x
<1>10. x \in Int /\ (HexSign = Minus <=> x < 0) /\ a = IF x < 0 THEN -x ELSE x
  BY <1>9 DEF x
<1>11. PrintedExp(t) = x
  BY <1>8, <1>10
<1> QED BY <1>11 DEF x

\* What the text of %a says.
HexRead(t) == /\ 2 * (NumberOf(Mantissa(t), 16) * HexUnit - Bin) \in -HexUnit..HexUnit
              /\ FracLen(t) = HexDigits /\ PrintedExp(t) = HexExponent

\* 1539-1623: the text that %a lays out says the number rounded and the exponent.
LEMMA HexTextRead ==
  ASSUME Inputs, Scalars, cfg.man % 4 = 0, real.frac < Pow[cfg.man]
  PROVE  HexRead(Text(PutRun(Blank, 0, HexCells), Len(HexCells)))
<1> DEFINE s == HexCells
           H == HexDigits
           p == HexPoint
           a == HexAbs
           L == Len(Numeral[a])
           n == H + p + L + 3
           t == Text(PutRun(Blank, 0, s), Len(s))
<1>1. /\ fs.prec \in Nat /\ HexExponent \in Int
  <2>1. HexExponent \in Int
    BY ExponentRange DEF HexExponent
  <2> QED BY <2>1, FormatFacts
<1>2. HexLaid(s, H, p, L) /\ a \in Nat
  BY <1>1, HexCellsAre
<1>3. H \in Nat /\ p \in 0..1 /\ (p = 0 => H = 0)
  <2>1. H \in Nat
    BY <1>1, RoundedTurns
  <2> HIDE DEF H
  <2>2. p = IF H > 0 \/ fs.alt THEN 1 ELSE 0
    BY Zenon DEF HexPoint, H
  <2> QED BY <2>1, <2>2
<1>4. L \in Nat \ {0} /\ \A k \in 1..L : Numeral[a][k] \in 0..9
  BY <1>2, NumeralLen
<1> HIDE DEF s, H, p, a, L
<1>5. Len(s) = n /\ n \in Nat
  BY <1>2, <1>3, <1>4 DEF HexLaid
<1>6. DOMAIN t = 1..n /\ \A k \in 1..n : t[k] = s[n + 1 - k]
  BY <1>5, TextOfCells
<1>7. Len(t) = n
  <2>1. t = [k \in 1..n |-> Cell(PutRun(Blank, 0, s), n - k)]
    BY <1>5 DEF Text
  <2> HIDE DEF t
  <2> QED BY <1>5, <2>1
<1> HIDE DEF t, n
<1>8. HexShape(t, H, p, L)
  <2>1. n = H + p + L + 3
    BY DEF n
  <2> QED BY <1>2, <1>3, <1>4, <1>6, <1>7, <2>1, HexShaped
<1>9. NumberOf(Mantissa(t), 16) = Rounded /\ FracLen(t) = HexDigits
  <2>1. HexShape(t, HexDigits, p, L) /\ (p = 0 => HexDigits = 0)
        /\ \A k \in 1..L : Numeral[HexAbs][k] \in 0..9
    BY <1>3, <1>4, <1>8 DEF H, a
  <2> QED BY <1>1, <1>3, <1>4, <2>1, HexMantissa
<1>10. PrintedExp(t) = HexExponent
  <2>1. HexShape(t, HexDigits, p, Len(Numeral[HexAbs])) /\ HexAbs \in Nat
    BY <1>2, <1>8 DEF H, a, L
  <2> QED BY <1>1, <1>3, <2>1, HexExponentRead
<1>11. 2 * (Rounded * HexUnit - Bin) \in -HexUnit..HexUnit
  <2>1. Rounded = Nearest(Bin, HexUnit) /\ HexUnit \in Nat \ {0}
    BY <1>1, RoundedIs
  <2>2. Bin \in Nat
    BY RealApart
  <2>3. PICK B \in Nat : B = Bin
    BY <2>2
  <2>4. PICK u \in Nat \ {0} : u = HexUnit
    BY <2>1
  <2>5. 2 * (Nearest(B, u) * u - B) \in -u..u
    BY HalfApart
  <2> QED BY <2>1, <2>3, <2>4, <2>5, Zenon
<1> QED BY <1>9, <1>10, <1>11, Zenon DEF HexRead, t, s

\* %a is in its own converter until it returns, or is a special, which the other prints.
HexInv ==
  /\ real.frac < Pow[cfg.man]
  /\ fs.conv = "a" => /\ pc \in {"Hex", "Start", "Done"} /\ (pc = "Start" => IsSpecial)
                      /\ pc = "Done" /\ res.kind = "number" => HexRead(res.text)

\* The build, the number and the format of a call stay.
LEMMA InputsKept == [Next]_vars => UNCHANGED inputs
<1> SUFFICES ASSUME [Next]_vars PROVE UNCHANGED inputs
  OBVIOUS
<1>1. FusedNext => UNCHANGED inputs
  <2>1. FusedStart => UNCHANGED inputs
    BY Zenon DEF FusedStart, FusedLeave
  <2>2. FusedInteger => UNCHANGED inputs
    BY Zenon DEF FusedInteger
  <2>3. FusedScaleInt => UNCHANGED inputs
    BY Zenon DEF FusedScaleInt, FusedLeave
  <2>4. FusedIntDigits => UNCHANGED inputs
    BY Zenon DEF FusedIntDigits, FusedLeave
  <2>5. FusedScaleFrac => UNCHANGED inputs
    BY Zenon DEF FusedScaleFrac
  <2>6. FusedNudge => UNCHANGED inputs
    BY Zenon DEF FusedNudge
  <2>7. FusedEmit => UNCHANGED inputs
    BY Zenon DEF FusedEmit
  <2>8. FusedTie => UNCHANGED inputs
    BY Zenon DEF FusedTie
  <2>9. FusedRound => UNCHANGED inputs
    BY Zenon DEF FusedRound, FusedLeave
  <2>10. FusedReturn => UNCHANGED inputs
    BY Zenon DEF FusedReturn
  <2> QED BY <2>1, <2>2, <2>3, <2>4, <2>5, <2>6, <2>7, <2>8, <2>9, <2>10, Zenon DEF FusedNext
<1>2. SciNext => UNCHANGED inputs
  <2>1. Start => UNCHANGED inputs
    BY Zenon DEF Start, Leave
  <2>2. Generate => UNCHANGED inputs
    BY Zenon DEF Generate
  <2>3. Integer => UNCHANGED inputs
    BY Zenon DEF Integer
  <2>4. ScaleInt => UNCHANGED inputs
    BY Zenon DEF ScaleInt
  <2>5. IntDigits => UNCHANGED inputs
    BY Zenon DEF IntDigits, Leave
  <2>6. ScaleFrac => UNCHANGED inputs
    BY Zenon DEF ScaleFrac
  <2>7. Nudge => UNCHANGED inputs
    BY Zenon DEF Nudge
  <2>8. Emit => UNCHANGED inputs
    BY Zenon DEF Emit
  <2>9. Leftover => UNCHANGED inputs
    BY Zenon DEF Leftover
  <2>10. Significant => UNCHANGED inputs
    BY Zenon DEF Significant
  <2>11. Round => UNCHANGED inputs
    BY Zenon DEF Round
  <2>12. Shortest => UNCHANGED inputs
    BY Zenon DEF Shortest
  <2>13. LayFixed => UNCHANGED inputs
    BY Zenon DEF LayFixed, Leave, LayOut
  <2>14. LaySci => UNCHANGED inputs
    BY Zenon DEF LaySci, LayOut
  <2> QED BY <2>1, <2>2, <2>3, <2>4, <2>5, <2>6, <2>7, <2>8, <2>9, <2>10, <2>11, <2>12, <2>13, <2>14, Zenon DEF SciNext
<1>3. (Unified \/ Hex) => UNCHANGED inputs
  BY Zenon DEF Unified, Hex
<1>4. (Done \/ UNCHANGED vars) => UNCHANGED inputs
  BY DEF Done, vars, fusedVars, inputs
<1> QED BY <1>1, <1>2, <1>3, <1>4, Zenon DEF Next

\* What a text says of the number depends on nothing that a step changes.
LEMMA HexKept ==
  ASSUME UNCHANGED <<cfg, real, fs>>, HexRead(res'.text)
  PROVE  HexRead(res.text)'
<1>1. cfg' = cfg /\ real' = real /\ fs' = fs
  OBVIOUS
<1>2. Bin' = Bin /\ HexUnit' = HexUnit /\ HexDigits' = HexDigits /\ HexExponent' = HexExponent
  <2>1. HexDigits' = HexDigits /\ FracNibbles' = FracNibbles
    BY <1>1 DEF HexDigits, FracNibbles, Lesser
  <2>2. Bin' = Bin
    BY <1>1 DEF Bin
  <2>3. Exponent' = Exponent
    BY <1>1 DEF Exponent, ExpBias, Greater
  <2>4. HexExponent' = HexExponent
    BY <1>1, <2>3 DEF HexExponent
  <2>5. HexUnit' = HexUnit
    BY <1>1, <2>1 DEF HexUnit
  <2> QED BY <2>1, <2>2, <2>4, <2>5
<1> QED BY <1>2 DEF HexRead

\* HexInv holds of every call when it starts.
LEMMA HexInvInit == Init => HexInv
<1> SUFFICES ASSUME Init PROVE HexInv
  OBVIOUS
<1>1. real.frac < Pow[cfg.man]
  <2>1. cfg \in Builds /\ real.frac \in Fractions[cfg.man]
    BY DEF Init
  <2>2. Fractions[cfg.man] \subseteq 0..(Pow[cfg.man] - 1)
    BY <2>1, FieldsAssumption
  <2>3. real.frac \in 0..(Pow[cfg.man] - 1)
    BY <2>1, <2>2
  <2>4. Pow[cfg.man] \in Nat \ {0}
    <3>1. cfg.man \in Nat /\ cfg.bin \in Nat /\ cfg.man <= cfg.bin
      BY <2>1, BuildsAssumption
    <3> QED BY <2>1, <3>1, PowerReached
  <2> QED BY <2>3, <2>4
<1>2. fs.conv = "a" => pc = "Hex"
  BY DEF Init
<1> QED BY <1>1, <1>2 DEF HexInv

\* A step leaves %a in its converter, or returns the text that was laid out.
LEMMA HexInvNext == FloatInv /\ HexInv /\ [Next]_vars => HexInv'
<1> SUFFICES ASSUME FloatInv, HexInv, [Next]_vars PROVE HexInv'
  OBVIOUS
<1>0. Inputs /\ Scalars /\ PlaceInv
  BY DEF FloatInv, ScaleInv
<1>1. UNCHANGED <<cfg, real, fs>>
  BY InputsKept DEF inputs
<1>2. real'.frac < Pow[cfg'.man]
  BY <1>1 DEF HexInv
<1> SUFFICES ASSUME fs.conv = "a"
             PROVE  /\ pc' \in {"Hex", "Start", "Done"} /\ (pc' = "Start" => IsSpecial')
                    /\ pc' = "Done" /\ res'.kind = "number" => HexRead(res.text)'
  BY <1>1, <1>2 DEF HexInv
<1>3. ~FusedNext /\ ~Unified
  <2>1. pc \in {"Hex", "Start", "Done"}
    BY DEF HexInv
  <2> QED BY <2>1 DEF FusedNext, Unified, FusedStart, FusedInteger, FusedScaleInt, FusedIntDigits,
       FusedScaleFrac, FusedNudge, FusedEmit, FusedTie, FusedRound, FusedReturn
<1>4. CASE SciNext
  <2>1. pc = "Start" /\ Start
    <3>1. pc \in {"Hex", "Start", "Done"}
      BY DEF HexInv
    <3> QED BY <1>4, <3>1 DEF SciNext, Generate, Integer, ScaleInt, IntDigits, ScaleFrac, Nudge,
         Emit, Leftover, Significant, Round, Shortest, LayFixed, LaySci, Start
  <2>2. IsSpecial
    BY <2>1 DEF HexInv
  <2>3. Leave(SpecialKind)
    BY <2>1, <2>2, Zenon DEF Start
  <2>4. pc' = "Done" /\ res'.kind \in {"INF", "NAN"}
    BY <2>3 DEF Leave, Special, SpecialKind
  <2> QED BY <2>4
<1>5. CASE Hex
  <2>1. CASE real.exp = 2 * cfg.maxexp - 1 /\ pc' = "Start"
    <3>1. cfg.maxexp \in Nat \ {0}
      BY <1>0, BuildFacts
    <3>2. (real.exp + 1) % (2 * cfg.maxexp) = 0
      BY <2>1, <3>1
    <3>3. IsSpecial'
      BY <1>1, <3>2 DEF IsSpecial
    <3> QED BY <2>1, <3>3
  <2>2. CASE /\ buf' = PutRun(Blank, 0, HexCells) /\ pc' = "Done"
             /\ res' = [kind |-> "number", text |-> Text(buf', Len(HexCells))]
    <3>1. res'.text = Text(PutRun(Blank, 0, HexCells), Len(HexCells))
      BY <2>2
    <3>2. cfg.man % 4 = 0 /\ real.frac < Pow[cfg.man]
      BY <1>0 DEF HexInv, PlaceInv
    <3>3. HexRead(res'.text)
      BY <1>0, <3>1, <3>2, HexTextRead, Zenon
    <3>4. HexRead(res.text)'
      BY <1>1, <3>3, HexKept
    <3> QED BY <2>2, <3>4
  <2> QED BY <1>5, <2>1, <2>2, Zenon DEF Hex
<1>6. CASE Done \/ UNCHANGED vars
  <2>1. UNCHANGED <<pc, res>>
    BY <1>6 DEF Done, vars, fusedVars
  <2>2. ~(pc' = "Start" /\ ~IsSpecial')
    BY <1>1, <2>1 DEF HexInv, IsSpecial
  <2>3. pc = "Done" /\ res.kind = "number" => HexRead(res'.text)
    BY <2>1 DEF HexInv
  <2>4. pc = "Done" /\ res.kind = "number" => HexRead(res.text)'
    BY <1>1, <2>3, HexKept
  <2> QED BY <2>1, <2>2, <2>4 DEF HexInv
<1> QED BY <1>3, <1>4, <1>5, <1>6, Zenon DEF Next

\* The run's property, of one call.
LEMMA HexNearestOf == FloatInv /\ HexInv => HexNearest
<1> SUFFICES ASSUME FloatInv, HexInv, Returned("number"), fs.conv = "a"
             PROVE  HexRead(res.text)
  BY Zenon DEF HexNearest, HexRead
<1> QED BY DEF HexInv, Returned

\* %a prints a number of its nibbles that none is nearer than, of as many as the
\* precision asks for and the mantissa has, and the exponent the number has: 1539-1623,
\* for any width of the mantissa, any number and any precision.
THEOREM HexIsNearest == Spec => []HexNearest
<1>1. Init => HexInv
  BY HexInvInit
<1>2. FloatInv /\ HexInv /\ [Next]_vars => HexInv'
  BY HexInvNext
<1>3. FloatInv /\ HexInv => HexNearest
  BY HexNearestOf
<1> QED BY <1>1, <1>2, <1>3, FloatInvHolds, PTL DEF Spec
===============================================================================
