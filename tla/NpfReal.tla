------------------------------- MODULE NpfReal -------------------------------
(***************************************************************************)
(* What the two decimal float converters have in common: the real number   *)
(* taken apart, the mantissa scaled from base 2 to base 10 one step at a    *)
(* time, the conversion buffer, and the locals both functions declare.     *)
(*                                                                         *)
(* A cell of the buffer is the value of a digit (hexadecimal ones too) or  *)
(* one of the codes below.  The buffer is a function on the cells written  *)
(* so far: its domain shows a store outside the array, and a load from a   *)
(* cell nothing was stored to shows as Unset.                              *)
(***************************************************************************)
EXTENDS Integers, Sequences

CONSTANTS
  Builds,     \* the builds, see BuildsAssumption
  Fractions,  \* bound: the fraction fields tried, for each mantissa width
  Formats,    \* bound: [conv: "f", "e", "g" or "a", prec: Nat, alt: BOOLEAN]
  Pow         \* the powers of two

Lesser(x, y) == IF x < y THEN x ELSE y
Greater(x, y) == IF x < y THEN y ELSE x

\* man: NPF_REAL_MAN_BITS, maxexp: NPF_REAL_MAX_EXP, bin: NPF_REAL_BIN_BITS, ftoa:
\* NPF_FTOA_MAN_BITS, cbuf: NPF_CBUF.  reserve: the cells an integer is given when
\* it fits npf_uint_t (10), or 0 when it is emitted in place.  tenths: a fifth is
\* taken by npf_div10.
ASSUME BuildsAssumption ==
  /\ Builds \subseteq [man: Nat, maxexp: Nat, bin: Nat, ftoa: Nat, cbuf: Nat, reserve: Nat,
                       tenths: BOOLEAN]
  /\ \A b \in Builds : /\ b.ftoa >= 8 /\ b.bin > b.man /\ b.cbuf >= 3 /\ b.maxexp > 0
                       /\ 0..Greater(b.bin, b.ftoa) \subseteq DOMAIN Pow
                       /\ Fractions[b.man] \subseteq Nat

ASSUME PowersAssumption ==
  /\ DOMAIN Pow \subseteq Nat
  /\ \A k \in DOMAIN Pow : Pow[k] \in Nat \ {0}
  /\ \A k \in DOMAIN Pow : k >= 8 /\ k - 4 \in DOMAIN Pow => /\ Pow[k] = 16 * Pow[k - 4]
                                                          /\ Pow[k - 4] >= 16

\* Pow is a table of the powers of two, and a fraction has the bits of its field.
ASSUME FieldsAssumption ==
  /\ Pow[0] = 1 /\ \A k \in DOMAIN Pow : k > 0 => k - 1 \in DOMAIN Pow /\ Pow[k] = 2 * Pow[k - 1]
  /\ \A b \in Builds : Fractions[b.man] \subseteq 0..(Pow[b.man] - 1)

ASSUME FormatsAssumption == Formats \subseteq [conv: {"f", "e", "g", "a"}, prec: Nat, alt: BOOLEAN]

VARIABLES
  cfg, real, fs,      \* the parameters: the build, [exp, frac] of the real, the format
  pc,
  exp, man, carry,    \* exp, man_i or man_f, carry
  left,               \* exp_i or exp_f: the steps of base 2 to go, or gone
  digit,              \* the flag of the scaling loop
  dec, end, buf,
  res                 \* the outcome: [kind, text], the text most significant first

inputs == <<cfg, real, fs>>
scale  == <<exp, man, carry, left, digit>>
place  == <<dec, end, buf>>

-----------------------------------------------------------------------------
(* The buffer. *)

Dot == 16
ExpChar == 17   \* 'e' or 'p', in the case asked for
Plus == 18
Minus == 19
Unset == 20

Blank == [k \in {} |-> Unset]
Cell(b, i) == IF i \in DOMAIN b THEN b[i] ELSE Unset
Put(b, i, c) == [k \in DOMAIN b \cup {i} |-> IF k = i THEN c ELSE b[k]]
PutRun(b, i, s) ==
  [k \in DOMAIN b \cup i..(i + Len(s) - 1) |->
     IF k \in i..(i + Len(s) - 1) THEN s[k - i + 1] ELSE b[k]]
Text(b, n) == [k \in 1..n |-> Cell(b, n - k)]

\* npf_utoa_rev in base 10 (module NpfUtoa), least significant digit first.
Numeral[n \in Nat] == IF n < 10 THEN <<n>> ELSE <<n % 10>> \o Numeral[n \div 10]

\* The reserve takes any number of npf_ftoa_man_t (1045-1048, 1292); an exponent has at
\* most four digits (862-873), and %a, with one, fits the smallest buffer (247-249).
ASSUME RoomAssumption ==
  \A b \in Builds :
    LET widest == Len(Numeral[Pow[b.ftoa] - 1])
    IN /\ b.reserve <= b.cbuf /\ (b.reserve > 0 => widest <= b.reserve)
       /\ b.maxexp + widest <= 9990
       /\ b.man % 4 = 0 => b.man \div 4 + 8 <= b.cbuf

Nothing == [kind |-> "none", text |-> <<>>]
Special(kind) == [kind |-> kind, text |-> <<>>]

-----------------------------------------------------------------------------
(* The real number taken apart. *)

Range2 == Pow[cfg.ftoa]      \* the numbers of npf_ftoa_man_t
TopNibble == Pow[cfg.ftoa - 4]
ExpBias == cfg.maxexp - 1
ShiftBits == Lesser(cfg.ftoa, cfg.man + 1) - 1

IsSpecial == (real.exp + 1) % (2 * cfg.maxexp) = 0
SpecialKind == IF real.frac = 0 THEN "INF" ELSE "NAN"

\* A subnormal has the exponent of the smallest normal and no implicit bit.
Bin == IF real.exp = 0 THEN real.frac ELSE real.frac + Pow[cfg.man]
Exponent == Greater(real.exp, 1) - ExpBias

-----------------------------------------------------------------------------
(* The integer part: its top bits, one more in carry, and the exponent     *)
(* left over, of which each step takes one: a doubling while there is room *)
(* in the mantissa, else a fifth, which stands for a decimal zero.         *)

HasFraction == exp < cfg.man

StartInteger ==
  LET kept == Lesser(exp, ShiftBits)
      drop == cfg.man - kept
  IN \/ /\ exp < 0
        /\ man' = 0 /\ left' = 0 /\ UNCHANGED <<exp, carry>>
     \/ /\ exp >= 0
        /\ left' = exp - kept
        /\ exp' = (IF exp > kept THEN cfg.man ELSE exp)
        /\ \/ drop = 0 /\ man' = Bin % Range2 /\ UNCHANGED carry
           \/ /\ drop > 0
              /\ man' = (Bin \div Pow[drop]) % Range2
              /\ carry' = (Bin \div Pow[drop - 1]) % 2

RoomToDouble == man < Range2 \div 2

\* n / 5 and n % 5; by tenths, the quotient is 2 * (n / 10) + (n % 10 >= 5).
Fifth(n) == IF cfg.tenths THEN 2 * (n \div 10) + (IF n % 10 >= 5 THEN 1 ELSE 0) ELSE n \div 5
Rest5(n) == IF cfg.tenths THEN (n % 10) % 5 ELSE n % 5

\* Mutant of TakeFifth: the remainder is shifted by one bit less.
TakeFifthHalf == man' = Fifth(man) /\ carry' = (Rest5(man) + carry + 1) \div 2

DoubleIt == man' = (man * 2 + carry) % Range2 /\ carry' = 0
TakeFifth == man' = Fifth(man) /\ carry' = (Rest5(man) + carry + 1) \div 4

-----------------------------------------------------------------------------
(* The fraction part: its top bits, and steps that multiply by five while  *)
(* that cannot overflow and halve when it could.                           *)

ShiftF(x) == IF x < 0 THEN -1 ELSE x
FirstLeft == exp - ShiftF(exp)
BinF(x) == (Bin * Pow[cfg.bin - cfg.man + ShiftF(x)]) % Pow[cfg.bin]

StartFraction ==
  /\ left' = FirstLeft /\ digit' = FALSE
  /\ \/ /\ cfg.bin > cfg.ftoa
        /\ man' = (BinF(exp) \div Pow[cfg.bin - cfg.ftoa]) % Range2
        /\ carry' = (BinF(exp) \div Pow[cfg.bin - cfg.ftoa - 1]) % 2
     \/ /\ cfg.bin <= cfg.ftoa
        /\ man' = (BinF(exp) * Pow[cfg.ftoa - cfg.bin]) % Range2
        /\ carry' = 0

\* Mutant of FiveFits: the limit leaves no room for the three a carry adds.
FiveFitsLoose == man <= (Range2 - 1) \div 5

FiveFits == man <= (Range2 - 4) \div 5

Halve == man' = man \div 2 /\ carry' = man % 2
TimesFive == man' = (man * 5 + 3 * carry) % Range2 /\ carry' = 0

\* Mutant of ScaleFraction: the step that prepares the first digit is taken for a zero.
ScaleFractionLate ==
  /\ left' = left + 1
  /\ \/ (~FiveFits \/ digit) /\ Halve /\ UNCHANGED digit
     \/ FiveFits /\ ~digit /\ TimesFive /\ digit' = (left > 0)
  /\ UNCHANGED exp

\* One step; where it is a leading zero it stands for a decimal zero after the point.
LeadingZero == FiveFits /\ ~digit /\ left < 0
ScaleFraction ==
  /\ left' = left + 1
  /\ \/ (~FiveFits \/ digit) /\ Halve /\ UNCHANGED digit
     \/ FiveFits /\ ~digit /\ TimesFive /\ digit' = (left >= 0)
  /\ UNCHANGED exp

\* The next decimal is the top nibble, and ten times the rest holds those after it.
NextDecimal == man \div TopNibble
RestOf == man % TopNibble
=============================================================================
