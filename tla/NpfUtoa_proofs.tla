---------------------------- MODULE NpfUtoa_proofs ----------------------------
(***************************************************************************)
(* npf_div10 divides by ten; the shift-and-subtract loop divides; and      *)
(* npf_utoa_rev_end therefore writes the numeral, however it is built.     *)
(***************************************************************************)
EXTENDS NpfUtoa, NpfInduction

(***************************************************************************)
(* npf_div10.                                                              *)
(***************************************************************************)
LEMMA WordBounds == Word \in Nat /\ 32 <= Word /\ (Word - 1) \div 65536 < 65536
  BY PowersAssumption DEF Word

\* One of the shifts of 795-797: below the word, it does not wrap.
LEMMA ShiftAdded ==
  ASSUME NEW w \in Nat, NEW d \in {16, 256, 65536}, w + (w \div d) < Word
  PROVE  AddShifted(w, d) = w + (w \div d)
<1>1. w \div d \in Nat
  BY Division
<1>2. w + (w \div d) \in Nat
  BY <1>1
<1> QED BY <1>2, FitsBelow, WordBounds DEF AddShifted

\* The sum of the shifts is a tenth of n, or a little less: the fractions lost on the
\* way, and the one part in 2^32 by which the sum of the series falls short, leave at
\* most 15 of n.
LEMMA TenthBounds ==
  ASSUME NEW n \in Nat, n < Word
  PROVE  /\ Tenth(n) \in Nat
         /\ 10 * Tenth(n) <= n
         /\ n <= 10 * Tenth(n) + 15
<1> DEFINE a == n \div 2
           b == n \div 4
           q1 == a + b
           c == q1 \div 16
           q2 == q1 + c
           d == q2 \div 256
           q3 == q2 + d
           e == q3 \div 65536
           q4 == q3 + e
           t == q4 \div 8
<1>1. a \in Nat /\ 2 * a <= n /\ n <= 2 * a + 1
  BY Division
<1>2. b \in Nat /\ 4 * b <= n /\ n <= 4 * b + 3
  BY Division
<1>3. q1 \in Nat /\ c \in Nat /\ 16 * c <= q1 /\ q1 <= 16 * c + 15
  <2>1. q1 \in Nat
    BY <1>1, <1>2
  <2> HIDE DEF q1
  <2> QED BY <2>1, Division
<1>4. q2 \in Nat /\ d \in Nat /\ 256 * d <= q2 /\ q2 <= 256 * d + 255
  <2>1. q2 \in Nat
    BY <1>3
  <2> HIDE DEF q2
  <2> QED BY <2>1, Division
<1>5. q3 \in Nat /\ e \in Nat /\ 65536 * e <= q3 /\ q3 <= 65536 * e + 65535
  <2>1. q3 \in Nat
    BY <1>4
  <2> HIDE DEF q3
  <2> QED BY <2>1, Division
<1>6. q4 \in Nat /\ t \in Nat /\ 8 * t <= q4 /\ q4 <= 8 * t + 7
  <2>1. q4 \in Nat
    BY <1>5
  <2> HIDE DEF q4
  <2> QED BY <2>1, Division
<1>7. q1 = a + b /\ q2 = q1 + c /\ q3 = q2 + d /\ q4 = q3 + e
  OBVIOUS
<1>8. n <= 65536 * 65535 + 65535
  <2>1. Word - 1 \in Nat /\ n <= Word - 1
    BY WordBounds
  <2>2. Word - 1 <= 65536 * ((Word - 1) \div 65536) + 65535
    BY <2>1, Division
  <2>3. (Word - 1) \div 65536 <= 65535 /\ (Word - 1) \div 65536 \in Nat
    BY <2>1, WordBounds, Division
  <2> QED BY <2>1, <2>2, <2>3, WordBounds
<1>9. Tenth(n) = t
  <2> HIDE DEF a, b, c, d, e, t
  <2>1. q1 <= n /\ q2 <= n /\ q3 <= n /\ q4 <= n
    BY <1>1, <1>2, <1>3, <1>4, <1>5, <1>7
  <2>2. q1 < Word /\ q2 < Word /\ q3 < Word /\ q4 < Word
    BY <2>1, <1>3, <1>4, <1>5, <1>6, WordBounds
  <2>3. ((n \div 2) + (n \div 4)) % Word = q1
    <3>1. q1 % Word = q1
      BY <2>2, <1>3, FitsBelow, WordBounds
    <3> QED BY <3>1 DEF a, b
  <2>4. AddShifted(q1, 16) = q2
    BY <2>2, <1>3, ShiftAdded DEF c
  <2>5. AddShifted(q2, 256) = q3
    BY <2>2, <1>4, ShiftAdded DEF d
  <2>6. AddShifted(q3, 65536) = q4
    BY <2>2, <1>5, ShiftAdded DEF e
  <2> HIDE DEF q1, q2, q3, q4
  <2> QED BY <2>3, <2>4, <2>5, <2>6 DEF Tenth, t
<1> HIDE DEF a, b, c, d, e, t, q1, q2, q3, q4
<1>10. 10 * t <= n
  BY <1>1, <1>2, <1>3, <1>4, <1>5, <1>6, <1>7
<1>11. n <= 10 * t + 15
  BY <1>1, <1>2, <1>3, <1>4, <1>5, <1>6, <1>7, <1>8
<1> QED BY <1>6, <1>9, <1>10, <1>11

\* npf_div10 divides every word by ten (791-800).
THEOREM Div10Exact ==
  ASSUME NEW n \in Nat, n < Word
  PROVE  Div10(n) = n \div 10
<1> DEFINE t == Tenth(n)
           s == n - 10 * t
<1>1. t \in Nat /\ s \in Nat /\ s <= 15 /\ n = 10 * t + s
  BY TenthBounds
<1> HIDE DEF t, s
<1>2. Leftover(n, t) = s + 6
  <2>1. (t * 10) % Word = 10 * t
    <3>1. t * 10 = 10 * t /\ 10 * t \in Nat /\ 10 * t < Word
      BY <1>1, WordBounds
    <3> QED BY <3>1, FitsBelow, WordBounds
  <2>2. n - 10 * t + 6 = s + 6 /\ s + 6 \in Nat /\ s + 6 < Word
    BY <1>1, WordBounds
  <2>3. (s + 6) % Word = s + 6
    BY <2>2, FitsBelow, WordBounds
  <2> QED BY <2>1, <2>2, <2>3 DEF Leftover
<1>3. Div10(n) = (t + ((s + 6) \div 16)) % Word
  BY <1>2 DEF Div10, t
<1>4. CASE s < 10
  <2>1. (s + 6) \div 16 = 0
    BY <1>1, <1>4, FitsBelow
  <2>2. t % Word = t
    <3>1. t < Word
      BY <1>1, WordBounds
    <3> QED BY <3>1, <1>1, FitsBelow, WordBounds
  <2>3. n \div 10 = t
    BY <1>1, <1>4, DivisionUnique
  <2> QED BY <1>1, <1>3, <2>1, <2>2, <2>3
<1>5. CASE s >= 10
  <2>1. (s + 6) \div 16 = 1
    <3>1. s + 6 = 16 * 1 + (s - 10) /\ s - 10 \in Nat /\ s - 10 < 16 /\ s + 6 \in Nat
      BY <1>1, <1>5
    <3> QED BY <3>1, DivisionUnique
  <2>2. (t + 1) % Word = t + 1
    <3>1. t + 1 < Word /\ t + 1 \in Nat
      BY <1>1, <1>5, WordBounds
    <3> QED BY <3>1, FitsBelow, WordBounds
  <2>3. n \div 10 = t + 1
    <3>1. n = 10 * (t + 1) + (s - 10) /\ s - 10 \in Nat /\ s - 10 < 10 /\ t + 1 \in Nat
      BY <1>1, <1>5
    <3> QED BY <3>1, DivisionUnique
  <2> QED BY <1>3, <2>1, <2>2, <2>3
<1> QED BY <1>1, <1>4, <1>5

(***************************************************************************)
(* The division of a word, and the steps of the long division.             *)
(***************************************************************************)
\* By npf_div10, by mask and shift or by the machine: the same digit (824-836).
LEMMA WordDivided ==
  ASSUME NEW n \in Nat, base \in {8, 10, 16}, build.divfree => n < Word
  PROVE  Quotient(n) = n \div base /\ Remainder(n) = n % base
<1>1. CASE ~build.divfree
  BY <1>1 DEF Quotient, Remainder
<1>2. CASE build.divfree /\ base = 10
  <2>1. Div10(n) = n \div 10
    BY <1>2, Div10Exact
  <2>2. /\ n \div 10 \in Nat /\ n % 10 \in Nat
        /\ n = 10 * (n \div 10) + (n % 10)
    BY Division
  <2>3. ((n \div 10) * 10) % Word = 10 * (n \div 10)
    <3>1. /\ (n \div 10) * 10 = 10 * (n \div 10)
          /\ 10 * (n \div 10) \in Nat /\ 10 * (n \div 10) < Word
      BY <1>2, <2>2, WordBounds
    <3> QED BY <3>1, FitsBelow, WordBounds
  <2>4. Quotient(n) = n \div base
    BY <1>2, <2>1 DEF Quotient
  <2>5. Remainder(n) = n - 10 * (n \div 10)
    BY <1>2, <2>1, <2>3 DEF Remainder
  <2> QED BY <1>2, <2>2, <2>4, <2>5
<1>3. CASE build.divfree /\ base # 10
  <2>1. Pow[3] = 8 /\ Pow[4] = 16
    <3>1. 3 \in DOMAIN Pow /\ Pow[3] = 2 * Pow[2] /\ 2 \in DOMAIN Pow
      BY PowersAssumption
    <3>2. Pow[2] = 2 * Pow[1] /\ 1 \in DOMAIN Pow
      BY <3>1, PowersAssumption
    <3>3. Pow[1] = 2 * Pow[0] /\ Pow[0] = 1
      <4>1. 1 \in DOMAIN Pow \ {0} /\ 1 - 1 = 0
        BY <3>2
      <4>2. Pow[1] = 2 * Pow[1 - 1]
        BY <4>1, PowersAssumption
      <4> QED BY <4>1, <4>2, PowersAssumption
    <3>4. Pow[4] = 2 * Pow[3]
      BY PowersAssumption
    <3> QED BY <3>1, <3>2, <3>3, <3>4
  <2>2. base = 8 \/ base = 16
    BY <1>3
  <2>3. (8 + 16) \div 8 = 3 /\ (16 + 16) \div 8 = 4
    OBVIOUS
  <2> QED BY <1>3, <2>1, <2>2, <2>3 DEF Quotient, Remainder
<1> QED BY <1>1, <1>2, <1>3

\* A digit in base 8 or more takes at least three bits off a number.
LEMMA ThreeBits ==
  ASSUME NEW n \in Nat, NEW b \in {8, 10, 16}, NEW m \in DOMAIN Pow,
         0..m \subseteq DOMAIN Pow, m # 0, n < Pow[m], n \div b # 0
  PROVE  m > 3 /\ n \div b < Pow[m - 3]
<1>1. m \in Nat
  BY PowersAssumption
<1>2. n \div b \in Nat /\ n >= b * (n \div b) /\ n >= 8
  BY Division
<1>3. Pow[0] = 1 /\ \A k \in 1..m : Pow[k] = 2 * Pow[k - 1] /\ Pow[k - 1] \in Nat
  <2> SUFFICES ASSUME NEW k \in 1..m PROVE Pow[k] = 2 * Pow[k - 1] /\ Pow[k - 1] \in Nat
    BY PowersAssumption
  <2>1. k \in DOMAIN Pow \ {0}
    BY <1>1
  <2> QED BY <2>1, PowersAssumption
<1>4. m > 3
  <2>1. m # 1
    BY <1>2, <1>3
  <2>2. m # 2
    BY <1>2, <1>3
  <2>3. m # 3
    BY <1>2, <1>3
  <2> QED BY <1>1, <2>1, <2>2, <2>3
<1>5. Pow[m] = 8 * Pow[m - 3] /\ Pow[m - 3] \in Nat
  <2>1. m \in 1..m /\ m - 1 \in 1..m /\ m - 2 \in 1..m
    BY <1>1, <1>4
  <2>2. Pow[m] = 2 * Pow[m - 1]
    BY <1>3, <2>1
  <2>3. Pow[m - 1] = 2 * Pow[(m - 1) - 1] /\ (m - 1) - 1 = m - 2
    BY <1>1, <1>3, <2>1
  <2>4. Pow[m - 2] = 2 * Pow[(m - 2) - 1] /\ (m - 2) - 1 = m - 3 /\ Pow[(m - 2) - 1] \in Nat
    BY <1>1, <1>3, <2>1
  <2> QED BY <2>2, <2>3, <2>4
<1> QED BY <1>2, <1>4, <1>5

(***************************************************************************)
(* The invariant.                                                          *)
(***************************************************************************)
TypeInv ==
  /\ build \in Builds /\ base \in {8, 10, 16} /\ pc \in {"wide", "bits", "narrow", "done"}
  /\ val \in Nat /\ q \in Nat /\ r \in Nat /\ i \in Int /\ v32 \in Nat
  /\ buf \in Seq(Nat)

\* val stays a npf_uint_t; inside the long division it is too wide, and q and r are the
\* quotient and the remainder of its bits down to i + 1, q still in its place.
DivisionInv ==
  /\ pc \in {"wide", "bits"} => val < Pow[build.bits]
  /\ pc = "bits" =>
       /\ val >= Word /\ i + 1 \in 0..build.bits /\ r < base
       /\ \E k \in Nat : q = k * Pow[i + 1] /\ val \div Pow[i + 1] = k * base + r
  /\ pc = "narrow" /\ build.divfree => v32 < Word

\* Every digit has used up three bits of the number.
RoomInv ==
  /\ pc # "done" => /\ 3 * Len(buf) < build.bits
                    /\ Left < Pow[build.bits - 3 * Len(buf)]
  /\ pc = "done" => 3 * Len(buf) <= build.bits + 2

IInv == TypeInv /\ DivisionInv /\ RoomInv

LEMMA BuildFacts ==
  ASSUME build \in Builds
  PROVE  /\ build.bits \in Nat \ {0} /\ build.wide \in BOOLEAN /\ build.divfree \in BOOLEAN
         /\ 0..build.bits \subseteq DOMAIN Pow
         /\ build.divfree /\ ~build.wide => Pow[build.bits] <= Word
  BY BuildsAssumption, PowersAssumption

LEMMA PowType == \A k \in DOMAIN Pow : Pow[k] \in Nat \ {0}
  BY PowersAssumption

LEMMA InitInv == Init => IInv
<1> SUFFICES ASSUME Init PROVE IInv
  OBVIOUS
<1>1. TypeInv
  BY BuildsAssumption DEF Init, TypeInv
<1>2. DivisionInv
  BY DEF Init, DivisionInv
<1>3. RoomInv
  <2>1. Len(buf) = 0 /\ 3 * Len(buf) = 0
    BY DEF Init
  <2>2. build.bits > 0 /\ build.bits - 0 = build.bits
    BY BuildFacts DEF Init
  <2> QED BY <2>1, <2>2 DEF Init, RoomInv, Left
<1> QED BY <1>1, <1>2, <1>3 DEF IInv

\* The test of the loop, when it succeeds: nothing of the number is divided yet.
LEMMA WideTestInv ==
  ASSUME IInv, WideTest PROVE IInv'
<1>1. /\ build.bits \in Nat \ {0} /\ 0..build.bits \subseteq DOMAIN Pow
      /\ build.bits \in DOMAIN Pow /\ Pow[build.bits] \in Nat \ {0}
  BY BuildFacts, PowType DEF IInv, TypeInv
<1>2. TypeInv'
  BY <1>1 DEF IInv, TypeInv, WideTest
<1>3. DivisionInv'
  <2>1. val \in Nat /\ val < Pow[build.bits] /\ val >= Word
    BY DEF IInv, TypeInv, DivisionInv, WideTest, TooWide
  <2>2. val \div Pow[build.bits] = 0
    BY <1>1, <2>1, FitsBelow
  <2>3. i' + 1 = build.bits /\ i' + 1 \in 0..build.bits
    BY <1>1 DEF WideTest
  <2>4. r' < base'
    BY DEF IInv, TypeInv, WideTest
  <2>5. q' = 0 * Pow[i' + 1] /\ val' \div Pow[i' + 1] = 0 * base' + r'
    BY <1>1, <2>2, <2>3 DEF IInv, TypeInv, WideTest
  <2> QED BY <2>1, <2>3, <2>4, <2>5 DEF WideTest, DivisionInv
<1>4. RoomInv'
  BY DEF IInv, RoomInv, Left, WideTest
<1> QED BY <1>2, <1>3, <1>4 DEF IInv

\* One bit: the prefix doubles, and the digit of the quotient is what is subtracted.
LEMMA BitInv ==
  ASSUME IInv, Bit PROVE IInv'
<1> DEFINE bit == (val \div Pow[i]) % 2
           r2 == 2 * r + bit
<1>1. /\ i \in Nat /\ i + 1 \in 0..build.bits /\ val \in Nat /\ q \in Nat /\ r \in Nat /\ base \in Nat
      /\ r < base /\ val >= Word /\ val < Pow[build.bits]
      /\ build.bits \in Nat /\ 0..build.bits \subseteq DOMAIN Pow
  BY BuildFacts DEF IInv, TypeInv, DivisionInv, Bit
<1>2. /\ i \in DOMAIN Pow /\ i + 1 \in DOMAIN Pow \ {0} /\ (i + 1) - 1 = i
      /\ Pow[i] \in Nat \ {0}
  BY <1>1, PowType
<1>3. Pow[i + 1] = 2 * Pow[i]
  BY <1>2, PowersAssumption
<1>4. PICK k \in Nat : q = k * Pow[i + 1] /\ val \div Pow[i + 1] = k * base + r
  BY DEF IInv, DivisionInv, Bit
<1>5. val \div Pow[i] = 2 * (val \div (2 * Pow[i])) + bit
  BY <1>1, <1>2, Halved
<1>6. bit \in {0, 1}
  <2>1. val \div Pow[i] \in Nat
    BY <1>1, <1>2, Division
  <2> QED BY <2>1, Division
<1>7. r2 \in Nat /\ r2 < 2 * base
  BY <1>1, <1>6
<1>8. val \div Pow[i] = 2 * (k * base) + r2
  <2> HIDE DEF bit
  <2>1. k * base \in Nat
    BY <1>1
  <2>2. val \div Pow[i] = 2 * (k * base + r) + bit
    BY <1>3, <1>4, <1>5
  <2> QED BY <2>1, <2>2, <1>1, <1>6
<1>9. q = (2 * k) * Pow[i]
  BY <1>2, <1>3, <1>4
<1>10. i' = i - 1 /\ i' + 1 = i /\ i' + 1 \in 0..build.bits
  BY <1>1 DEF Bit
<1>11. \/ r2 >= base /\ r' = r2 - base /\ q' = q + Pow[i]
       \/ r2 < base /\ r' = r2 /\ q' = q
  BY DEF Bit
<1> HIDE DEF bit, r2
<1>12. /\ r' \in Nat /\ q' \in Nat /\ r' < base
       /\ \E m \in Nat : q' = m * Pow[i] /\ val \div Pow[i] = m * base + r'
  <2>1. CASE r2 >= base /\ r' = r2 - base /\ q' = q + Pow[i]
    <3>1. q' = (2 * k + 1) * Pow[i]
      BY <2>1, <1>2, <1>9
    <3>2. val \div Pow[i] = (2 * k + 1) * base + r'
      BY <2>1, <1>1, <1>7, <1>8
    <3>3. r' \in Nat /\ r' < base /\ q' \in Nat /\ 2 * k + 1 \in Nat
      BY <2>1, <1>1, <1>2, <1>7
    <3> QED BY <3>1, <3>2, <3>3
  <2>2. CASE r2 < base /\ r' = r2 /\ q' = q
    <3>1. val \div Pow[i] = (2 * k) * base + r'
      BY <2>2, <1>1, <1>7, <1>8
    <3>2. 2 * k \in Nat /\ r' \in Nat /\ q' \in Nat
      BY <2>2, <1>1, <1>7
    <3> QED BY <3>1, <3>2, <2>2, <1>9
  <2> QED BY <1>11, <2>1, <2>2
<1>13. TypeInv'
  BY <1>1, <1>10, <1>12 DEF IInv, TypeInv, Bit
<1>14. DivisionInv'
  BY <1>1, <1>10, <1>12 DEF DivisionInv, Bit
<1>15. RoomInv'
  BY DEF IInv, RoomInv, Left, Bit
<1> QED BY <1>13, <1>14, <1>15 DEF IInv

\* Out of bits, q and r are the quotient and the remainder of the whole number.
LEMMA LongDivision ==
  ASSUME IInv, EmitWide PROVE q = val \div base /\ r = val % base
<1>1. i + 1 = 0 /\ Pow[0] = 1
  BY PowersAssumption DEF IInv, TypeInv, DivisionInv, EmitWide
<1>2. PICK k \in Nat : q = k * 1 /\ val \div 1 = k * base + r
  BY <1>1 DEF IInv, DivisionInv, EmitWide
<1>3. val = base * q + r
  <2>1. val \div 1 = val /\ k * 1 = k
    BY Division DEF IInv, TypeInv
  <2>2. base = 8 \/ base = 10 \/ base = 16
    BY DEF IInv, TypeInv
  <2> QED BY <1>2, <2>1, <2>2 DEF IInv, TypeInv
<1>4. val \in Nat /\ base \in Nat \ {0} /\ q \in Nat /\ r \in Nat /\ r < base
  BY DEF IInv, TypeInv, DivisionInv, EmitWide
<1> QED BY <1>3, <1>4, DivisionUnique

\* What a digit leaves, in the loop or behind it.
LEMMA DigitInv ==
  ASSUME TypeInv, RoomInv, pc # "done", Left \in Nat,
         NEW d \in Nat, buf' = Append(buf, d), build' = build, Left' = Left \div base,
         pc' = "done" <=> Left' = 0
  PROVE  RoomInv' /\ buf' \in Seq(Nat)
<1>1. Len(buf') = Len(buf) + 1 /\ Len(buf) \in Nat /\ buf' \in Seq(Nat)
  BY DEF TypeInv
<1>2. build.bits \in Nat /\ 0..build.bits \subseteq DOMAIN Pow
  BY BuildFacts DEF TypeInv
<1> DEFINE m == build.bits - 3 * Len(buf)
<1>3. m \in Nat /\ m # 0 /\ 0..m \subseteq DOMAIN Pow /\ m \in DOMAIN Pow /\ Left < Pow[m]
  BY <1>1, <1>2 DEF RoomInv
<1>4. build'.bits = build.bits
  OBVIOUS
<1>5. CASE Left' = 0
  BY <1>1, <1>2, <1>3, <1>4, <1>5 DEF RoomInv
<1>6. CASE Left' # 0
  <2>1. m > 3 /\ Left \div base < Pow[m - 3]
    <3> HIDE DEF m
    <3> QED BY <1>3, <1>6, ThreeBits DEF TypeInv
  <2>2. build.bits - 3 * (Len(buf) + 1) = m - 3 /\ 3 * (Len(buf) + 1) < build.bits
    BY <2>1, <1>1, <1>2
  <2> QED BY <2>1, <2>2, <1>1, <1>4, <1>6 DEF RoomInv
<1> QED BY <1>1, <1>5, <1>6

LEMMA EmitWideInv ==
  ASSUME IInv, EmitWide PROVE IInv'
<1>1. q = val \div base /\ r = val % base
  BY LongDivision
<1>2. val \in Nat /\ val >= Word /\ base \in {8, 10, 16} /\ q \in Nat /\ r \in Nat
  BY DEF IInv, TypeInv, DivisionInv, EmitWide
<1>3. q # 0 /\ q <= val
  BY <1>1, <1>2, Division, WordBounds
<1>4. Left = val /\ Left' = val \div base
  BY <1>1 DEF Left, EmitWide
<1>5. RoomInv' /\ buf' \in Seq(Nat)
  BY <1>1, <1>2, <1>3, <1>4, DigitInv DEF IInv, EmitWide
<1>6. TypeInv'
  BY <1>5 DEF IInv, TypeInv, EmitWide
<1>7. DivisionInv'
  <2>1. Pow[build.bits] \in Nat
    BY BuildFacts, PowType DEF IInv, TypeInv
  <2> QED BY <2>1, <1>2, <1>3 DEF IInv, DivisionInv, EmitWide
<1> QED BY <1>5, <1>6, <1>7 DEF IInv

\* Where the number first fits a word, the cast keeps it (818).
LEMMA NarrowInv ==
  ASSUME IInv, Narrow PROVE IInv' /\ v32' = val
<1>1. val \in Nat /\ val < Pow[build.bits] /\ build \in Builds
  BY DEF IInv, TypeInv, DivisionInv, Narrow
<1>2. build.wide => val < Word
  BY <1>1, WordBounds DEF Narrow, TooWide
<1>3. v32' = val
  BY <1>1, <1>2, FitsBelow, WordBounds DEF Narrow
<1>4. build.divfree => v32' < Word
  <2>1. CASE build.wide
    BY <2>1, <1>2, <1>3
  <2>2. CASE ~build.wide
    BY <2>2, <1>1, <1>3, BuildFacts, PowType, WordBounds
  <2> QED BY <2>1, <2>2
<1>5. TypeInv'
  BY <1>1, <1>3 DEF IInv, TypeInv, Narrow
<1>6. DivisionInv'
  BY <1>4 DEF DivisionInv, Narrow
<1>7. RoomInv'
  BY <1>3 DEF IInv, RoomInv, Left, Narrow
<1> QED BY <1>3, <1>5, <1>6, <1>7 DEF IInv

\* A digit of a word is a division by the base.
LEMMA DigitDivides ==
  ASSUME IInv, Digit
  PROVE  /\ v32 \in Nat /\ base \in {8, 10, 16}
         /\ v32' = v32 \div base /\ buf' = Append(buf, v32 % base)
<1>1. v32 \in Nat /\ base \in {8, 10, 16} /\ (build.divfree => v32 < Word)
  BY DEF IInv, TypeInv, DivisionInv, Digit
<1> QED BY <1>1, WordDivided DEF Digit

LEMMA DigitStepInv ==
  ASSUME IInv, Digit PROVE IInv'
<1>1. /\ v32 \in Nat /\ base \in {8, 10, 16}
      /\ v32' = v32 \div base /\ buf' = Append(buf, v32 % base)
  BY DigitDivides
<1>2. v32 \div base \in Nat /\ v32 \div base <= v32 /\ v32 % base \in Nat
  BY <1>1, Division
<1>3. Left = v32 /\ Left' = v32 \div base
  BY <1>1 DEF Left, Digit
<1>4. RoomInv' /\ buf' \in Seq(Nat)
  <2>1. pc # "done" /\ build' = build /\ (pc' = "done" <=> Left' = 0)
    BY <1>1, <1>3 DEF Digit
  <2> QED BY <2>1, <1>1, <1>2, <1>3, DigitInv DEF IInv
<1>5. TypeInv'
  BY <1>1, <1>2, <1>4 DEF IInv, TypeInv, Digit
<1>6. DivisionInv'
  BY <1>1, <1>2, WordBounds DEF IInv, DivisionInv, Digit
<1> QED BY <1>4, <1>5, <1>6 DEF IInv

LEMMA StepInv == IInv /\ [Next]_vars => IInv'
<1> SUFFICES ASSUME IInv, [Next]_vars PROVE IInv'
  OBVIOUS
<1>1. CASE WideTest
  BY <1>1, WideTestInv
<1>2. CASE Bit
  BY <1>2, BitInv
<1>3. CASE EmitWide
  BY <1>3, EmitWideInv
<1>4. CASE Narrow
  BY <1>4, NarrowInv
<1>5. CASE Digit
  BY <1>5, DigitStepInv
<1>6. CASE Done \/ UNCHANGED vars
  BY <1>6 DEF Done, vars, IInv, TypeInv, DivisionInv, RoomInv, Left
<1> QED BY <1>1, <1>2, <1>3, <1>4, <1>5, <1>6 DEF Next

(***************************************************************************)
(* The theorems.                                                           *)
(***************************************************************************)
\* The quotient and remainder of the bits seen, in the long division of 808-817, and
\* the word that is left in a division-free build.
THEOREM UtoaInvariant == Spec => []IInv
<1>1. Init => IInv
  BY InitInv
<1>2. IInv /\ [Next]_vars => IInv'
  BY StepInv
<1> QED BY <1>1, <1>2, PTL DEF Spec

\* No number has more digits than the octal digits of npf_uint_t: the conversion
\* buffer has room for them (247-249, 1945).
THEOREM RoomForDigits == Spec => []FitsCbuf
<1>1. IInv => FitsCbuf
  <2> SUFFICES ASSUME IInv PROVE FitsCbuf
    OBVIOUS
  <2>1. Len(buf) \in Nat /\ build.bits \in Nat
    BY BuildFacts DEF IInv, TypeInv
  <2>2. 3 * Len(buf) <= build.bits + 2
    BY <2>1 DEF IInv, RoomInv
  <2>3. /\ (build.bits + 2) \div 3 \in Nat
        /\ build.bits + 2 < 3 * ((build.bits + 2) \div 3) + 3
    BY <2>1
  <2> QED BY <2>1, <2>2, <2>3 DEF FitsCbuf
<1> QED BY <1>1, UtoaInvariant, PTL

\* However it is built, npf_utoa_rev_end writes the numeral of its argument: each step
\* of the code is a division by the base, or none that a caller could see (803-840).
THEOREM WritesNumeral == Spec => KeepsNumeral
<1> DEFINE seen == <<base, Left, buf, pc = "done">>
<1>1. Init => Numeral!Init
  BY DEF Init, Numeral!Init, Left
<1>2. IInv /\ [Next]_vars => [Numeral!Step]_seen
  <2> SUFFICES ASSUME IInv, [Next]_vars PROVE Numeral!Step \/ seen' = seen
    OBVIOUS
  <2>1. CASE WideTest
    BY <2>1 DEF WideTest, Left
  <2>2. CASE Bit
    BY <2>2 DEF Bit, Left
  <2>3. CASE EmitWide
    <3>1. q = val \div base /\ r = val % base /\ Left = val /\ Left' = q
      BY <2>3, LongDivision DEF EmitWide, Left
    <3>2. q # 0
      <4>1. val \in Nat /\ val >= Word /\ base \in {8, 10, 16}
        BY <2>3 DEF IInv, TypeInv, DivisionInv, EmitWide
      <4> QED BY <4>1, <3>1, Division, WordBounds
    <3> QED BY <2>3, <3>1, <3>2 DEF Numeral!Step, EmitWide
  <2>4. CASE Narrow
    BY <2>4, NarrowInv DEF Narrow, Left
  <2>5. CASE Digit
    <3>1. v32' = v32 \div base /\ buf' = Append(buf, v32 % base)
      BY <2>5, DigitDivides
    <3>2. Left = v32 /\ Left' = v32'
      BY <2>5 DEF Digit, Left
    <3>3. (pc' = "done") = (Left' = 0) /\ pc # "done" /\ base' = base
      BY <2>5, <3>2 DEF Digit
    <3> QED BY <3>1, <3>2, <3>3 DEF Numeral!Step
  <2>6. CASE Done \/ UNCHANGED vars
    BY <2>6 DEF Done, vars, Left
  <2> QED BY <2>1, <2>2, <2>3, <2>4, <2>5, <2>6 DEF Next
<1> QED BY <1>1, <1>2, UtoaInvariant, PTL DEF Spec, KeepsNumeral, Numeral!Spec

(***************************************************************************)
(* The digits read back.                                                   *)
(***************************************************************************)
\* h is what the digits from each place on, and what is left above them, are worth.
Reads(h) ==
  /\ h[0] = input /\ h[Len(buf)] = Left
  /\ \A k \in 0..(Len(buf) - 1) : /\ buf[k + 1] \in 0..(base - 1)
                                  /\ h[k] = buf[k + 1] + base * h[k + 1]

\* Nothing of the number is lost on the way, and only a zero is left for its first digit.
ReadInv ==
  /\ \E h \in [0..Len(buf) -> Nat] : Reads(h)
  /\ pc # "done" => Left # 0 \/ buf = <<>>
  /\ pc = "done" => Left = 0 /\ (buf[Len(buf)] # 0 \/ buf = <<0>>)

\* Here buf is empty: the number is all that is left.
LEMMA InitRead == Init => ReadInv
<1> SUFFICES ASSUME Init PROVE ReadInv
  OBVIOUS
<1>1. input \in Nat /\ Left = input /\ Len(buf) = 0 /\ buf = <<>> /\ pc = "wide"
  BY BuildsAssumption DEF Init, Left
<1> DEFINE h == [k \in 0..0 |-> input]
<1>2. h \in [0..Len(buf) -> Nat] /\ h[0] = input /\ h[Len(buf)] = Left
  BY <1>1
<1>3. 0..(Len(buf) - 1) = {}
  BY <1>1
<1> HIDE DEF h
<1>4. Reads(h)
  BY <1>2, <1>3 DEF Reads
<1> QED BY <1>1, <1>2, <1>4 DEF ReadInv

\* A division by the base: the remainder joins the digits, the quotient is left.
LEMMA DigitRead ==
  ASSUME ReadInv, pc # "done", buf \in Seq(Nat), base \in {8, 10, 16}, Left \in Nat,
         buf' = Append(buf, Left % base), base' = base, input' = input,
         Left' = Left \div base, pc' = "done" <=> Left' = 0
  PROVE  ReadInv'
<1> DEFINE n == Len(buf)
           u == Left \div base
           d == Left % base
<1>1. n \in Nat /\ Len(buf') = n + 1
  OBVIOUS
<1>2. /\ u \in Nat /\ d \in Nat /\ d < base /\ Left = d + base * u
      /\ d \in 0..(base - 1) /\ Left' = u
  BY Division
<1>3. PICK h \in [0..n -> Nat] : Reads(h)
  BY DEF ReadInv
<1> HIDE DEF n
<1>4. PICK g \in [0..(n + 1) -> Nat] : g[n + 1] = u /\ \A k \in 0..n : g[k] = h[k]
  <2> DEFINE e == [k \in 0..(n + 1) |-> IF k = n + 1 THEN u ELSE h[k]]
  <2>1. e \in [0..(n + 1) -> Nat] /\ e[n + 1] = u /\ \A k \in 0..n : e[k] = h[k]
    BY <1>1, <1>2
  <2> QED BY <2>1
<1>5. buf'[n + 1] = d /\ \A k \in 1..n : buf'[k] = buf[k]
  BY <1>1 DEF n
<1>6. h[0] = input /\ h[n] = Left
  BY <1>3 DEF Reads, n
<1> HIDE DEF u, d
<1>7. ASSUME NEW k \in 0..n
      PROVE  buf'[k + 1] \in 0..(base - 1) /\ g[k] = buf'[k + 1] + base * g[k + 1]
  <2>1. CASE k = n
    <3>1. g[k] = Left /\ g[k + 1] = u /\ buf'[k + 1] = d
      BY <2>1, <1>1, <1>4, <1>5, <1>6
    <3> QED BY <3>1, <1>2
  <2>2. CASE k # n
    <3>1. k \in 0..(n - 1) /\ k + 1 \in 1..n /\ k \in 0..n /\ k + 1 \in 0..n
      BY <2>2, <1>1
    <3>2. buf[k + 1] \in 0..(base - 1) /\ h[k] = buf[k + 1] + base * h[k + 1]
      BY <3>1, <1>3 DEF Reads, n
    <3> QED BY <3>1, <3>2, <1>4, <1>5
  <2> QED BY <2>1, <2>2
<1>8. Reads(g)' /\ g \in [0..Len(buf') -> Nat]
  <2>1. Len(buf') - 1 = n
    BY <1>1
  <2>2. g[0] = input' /\ g[Len(buf')] = Left'
    BY <1>1, <1>2, <1>4, <1>6
  <2> QED BY <2>1, <2>2, <1>1, <1>4, <1>7 DEF Reads
<1>9. pc' = "done" => Left' = 0 /\ (buf'[Len(buf')] # 0 \/ buf' = <<0>>)
  <2> SUFFICES ASSUME Left' = 0, buf'[n + 1] = 0 PROVE buf' = <<0>>
    BY <1>1
  <2>1. Left = 0 /\ d = 0
    <3>1. u = 0 /\ d = 0
      BY <1>2, <1>5
    <3>2. base * 0 = 0
      OBVIOUS
    <3> QED BY <3>1, <3>2, <1>2
  <2>2. buf = <<>>
    BY <2>1 DEF ReadInv
  <2>3. buf' = Append(<<>>, 0)
    BY <2>1, <2>2 DEF d
  <2>4. Append(<<>>, 0) = <<0>>
    OBVIOUS
  <2> QED BY <2>3, <2>4
<1> QED BY <1>8, <1>9 DEF ReadInv

LEMMA StepRead == IInv /\ ReadInv /\ [Next]_vars => ReadInv'
<1> SUFFICES ASSUME IInv, ReadInv, [Next]_vars PROVE ReadInv'
  OBVIOUS
<1>1. ASSUME buf' = buf, base' = base, input' = input, Left' = Left, (pc = "done") = (pc' = "done")
      PROVE  ReadInv'
  BY <1>1 DEF ReadInv, Reads
<1>2. CASE WideTest
  BY <1>1, <1>2 DEF WideTest, Left
<1>3. CASE Bit
  BY <1>1, <1>3 DEF Bit, Left
<1>4. CASE EmitWide
  <2>1. q = val \div base /\ r = val % base /\ Left = val /\ Left' = q
    BY <1>4, LongDivision DEF EmitWide, Left
  <2>2. val \in Nat /\ val >= Word /\ base \in {8, 10, 16} /\ buf \in Seq(Nat)
    BY <1>4 DEF IInv, TypeInv, DivisionInv, EmitWide
  <2>3. q # 0
    BY <2>1, <2>2, Division, WordBounds
  <2> QED BY <1>4, <2>1, <2>2, <2>3, DigitRead DEF EmitWide
<1>5. CASE Narrow
  <2>1. v32' = val
    BY <1>5, NarrowInv
  <2> QED BY <1>1, <1>5, <2>1 DEF Narrow, Left
<1>6. CASE Digit
  <2>1. /\ v32 \in Nat /\ base \in {8, 10, 16}
        /\ v32' = v32 \div base /\ buf' = Append(buf, v32 % base)
    BY <1>6, DigitDivides
  <2>2. Left = v32 /\ Left' = v32' /\ pc # "done" /\ buf \in Seq(Nat)
    BY <1>6 DEF Digit, Left, IInv, TypeInv
  <2>3. base' = base /\ input' = input /\ (pc' = "done" <=> Left' = 0)
    BY <1>6, <2>2 DEF Digit
  <2> QED BY <2>1, <2>2, <2>3, DigitRead
<1>7. CASE Done \/ UNCHANGED vars
  BY <1>1, <1>7 DEF Done, vars, Left
<1> QED BY <1>2, <1>3, <1>4, <1>5, <1>6, <1>7 DEF Next

\* Horner's sum of the digits is what the invariant says they are worth.
LEMMA HornerReads ==
  ASSUME buf \in Seq(Nat), NEW h \in [0..Len(buf) -> Nat], Reads(h), Left = 0
  PROVE  Horner[0] = input
<1> DEFINE n == Len(buf)
           Worth(f) == [k \in 0..n |-> IF k = n THEN 0 ELSE buf[k + 1] + base * f[k + 1]]
<1>1. n \in Nat /\ h[n] = 0
  BY DEF Reads
<1>2. h = Worth(h)
  <2>1. ASSUME NEW k \in 0..n PROVE h[k] = Worth(h)[k]
    BY <1>1 DEF Reads
  <2> QED BY <2>1
<1>3. Horner = Worth(Horner)
  BY <1>2 DEF Horner
<1> DEFINE S == {k \in 0..n : h[k] = Horner[k]}
<1>4. n \in S
  <2>1. Horner[n] = 0
    BY <1>1, <1>3
  <2> QED BY <1>1, <2>1
<1>5. \A k \in 0..(n - 1) : k + 1 \in S => k \in S
  <2> SUFFICES ASSUME NEW k \in 0..(n - 1), h[k + 1] = Horner[k + 1] PROVE h[k] = Horner[k]
    BY <1>1
  <2>1. k \in 0..n /\ k # n
    BY <1>1
  <2>2. Horner[k] = buf[k + 1] + base * Horner[k + 1]
    BY <1>3, <2>1
  <2>3. h[k] = buf[k + 1] + base * h[k + 1]
    BY DEF Reads
  <2> QED BY <2>2, <2>3
<1>6. 0..n \subseteq S
  <2> HIDE DEF S, n
  <2> QED BY <1>1, <1>4, <1>5, InductionDownFrom
<1>7. 0 \in S
  BY <1>1, <1>6
<1> QED BY <1>7 DEF Reads

\* The digits read back as the number that was passed, for every width of npf_uint_t and
\* of the word, and every way to divide (803-840).
THEOREM DigitsReadBack == Spec => []ReadsBack
<1>1. Init => ReadInv
  BY InitRead
<1>2. IInv /\ ReadInv /\ [Next]_vars => ReadInv'
  BY StepRead
<1>3. IInv /\ ReadInv => ReadsBack
  <2> SUFFICES ASSUME IInv, ReadInv, pc = "done" PROVE ReadsBack
    BY DEF ReadsBack
  <2>1. buf \in Seq(Nat) /\ Left = 0 /\ (buf[Len(buf)] # 0 \/ buf = <<0>>)
    BY DEF IInv, TypeInv, ReadInv
  <2>2. PICK h \in [0..Len(buf) -> Nat] : Reads(h)
    BY DEF ReadInv
  <2>3. Horner[0] = input
    BY <2>1, <2>2, HornerReads
  <2>4. \A k \in DOMAIN buf : buf[k] \in 0..(base - 1)
    <3> SUFFICES ASSUME NEW k \in 1..Len(buf) PROVE buf[k] \in 0..(base - 1)
      BY <2>1
    <3>1. k - 1 \in 0..(Len(buf) - 1) /\ (k - 1) + 1 = k
      BY <2>1
    <3> QED BY <3>1, <2>2 DEF Reads
  <2> QED BY <2>1, <2>3, <2>4 DEF ReadsBack
<1> QED BY <1>1, <1>2, <1>3, UtoaInvariant, PTL DEF Spec
=============================================================================
