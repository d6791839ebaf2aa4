------------------------------- MODULE NpfUtoa -------------------------------
(***************************************************************************)
(* npf_utoa_rev_end: the digits of an unsigned number, least significant   *)
(* first.  A number too wide for a word is divided bit by bit until it     *)
(* fits; a word is divided by the machine or, in a division-free build, by *)
(* npf_div10 and by shifts.                                                *)
(*                                                                         *)
(* A digit is its value; DigitChar of NpfVpprintf is its character.        *)
(***************************************************************************)
EXTENDS Integers, Sequences

CONSTANTS
  Builds,     \* [wide, divfree: BOOLEAN, bits: Nat], see BuildsAssumption
  Bases,      \* the bases asked for
  Values,     \* bound: the numbers converted
  WordBits,   \* 32, the width of uint32_t
  Pow         \* the powers of two

Word == Pow[WordBits]

\* wide: the loop of 808-817 is compiled; bits: the width of npf_uint_t.  805-806
\* leave the loop out of a division-free build only where a word holds the number.
ASSUME BuildsAssumption ==
  /\ Builds \subseteq [wide: BOOLEAN, divfree: BOOLEAN, bits: Nat \ {0}]
  /\ \A b \in Builds : b.divfree /\ ~b.wide => Pow[b.bits] <= Word
  /\ Bases \subseteq {8, 10, 16} /\ Values \subseteq Nat

\* Pow is 2^k, as far as anyone asks.  A word has at least 5 bits, so that npf_div10
\* can add 6 to a remainder, and at most 32, said in numbers that fit one.
ASSUME PowersAssumption ==
  /\ WordBits \in Nat \ {0} /\ {3, 4, WordBits} \subseteq DOMAIN Pow
  /\ \A b \in Builds : 0..b.bits \subseteq DOMAIN Pow
  /\ DOMAIN Pow \subseteq Nat /\ 0 \in DOMAIN Pow /\ Pow[0] = 1
  /\ \A k \in DOMAIN Pow : Pow[k] \in Nat \ {0}
  /\ \A k \in DOMAIN Pow \ {0} : k - 1 \in DOMAIN Pow /\ Pow[k] = 2 * Pow[k - 1]
  /\ 32 <= Word /\ (Word - 1) \div 65536 < 65536

(***************************************************************************)
(* npf_div10, on words that wrap: a sum of shifts just under n / 10, and   *)
(* one more if what is left of n is 10 or more.                            *)
(***************************************************************************)
AddShifted(w, d) == (w + (w \div d)) % Word
Tenth(n) == AddShifted(AddShifted(AddShifted(((n \div 2) + (n \div 4)) % Word, 16), 256), 65536) \div 8
Leftover(n, t) == (n - ((t * 10) % Word) + 6) % Word

\* Mutant of Div10: the correction comes only once the whole of the shift is left over.
Div10Late(n) == (Tenth(n) + ((n - Tenth(n) * 10) \div 16)) % Word

Div10(n) == (Tenth(n) + (Leftover(n, Tenth(n)) \div 16)) % Word

VARIABLES
  build, base, input,  \* the parameters; input is val as it was passed
  pc,                  \* "wide" (808), "bits" (810), "narrow" (822) or "done"
  val, q, r, i, v32,   \* the locals
  buf                  \* the digits written so far

vars == <<build, base, input, pc, val, q, r, i, v32, buf>>

Init == /\ build \in Builds /\ base \in Bases
        /\ input \in Values /\ input < Pow[build.bits] /\ val = input
        /\ q = 0 /\ r = 0 /\ i = 0 /\ v32 = 0
        /\ buf = <<>> /\ pc = "wide"

\* Mutant of TooWide: the first number that does not fit a word is taken for one that does.
TooWideOffByOne == build.wide /\ val > Word

\* The test of the loop, where there is a loop, and one round of it: a long division
\* of val by base, from the top bit down, then its remainder as a digit.
TooWide == build.wide /\ val >= Word

WideTest == /\ pc = "wide" /\ TooWide
            /\ q' = 0 /\ r' = 0 /\ i' = build.bits - 1 /\ pc' = "bits"
            /\ UNCHANGED <<build, base, input, val, v32, buf>>

Bit == /\ pc = "bits" /\ i >= 0
       /\ LET r2 == 2 * r + ((val \div Pow[i]) % 2) IN
          \/ r2 >= base /\ r' = r2 - base /\ q' = q + Pow[i]
          \/ r2 < base /\ r' = r2 /\ q' = q
       /\ i' = i - 1
       /\ UNCHANGED <<build, base, input, pc, val, v32, buf>>

EmitWide == /\ pc = "bits" /\ i < 0
            /\ buf' = Append(buf, r) /\ val' = q /\ pc' = "wide"
            /\ UNCHANGED <<build, base, input, q, r, i, v32>>

\* 818: the cast is compiled only with the loop.
Narrow == /\ pc = "wide" /\ ~TooWide
          /\ v32' = (IF build.wide THEN val % Word ELSE val)
          /\ pc' = "narrow"
          /\ UNCHANGED <<build, base, input, val, q, r, i, buf>>

\* Mutant of Quotient: the shift is that of bases 4 and 8.
QuotientShort(n) ==
  IF ~build.divfree THEN n \div base
  ELSE IF base = 10 THEN Div10(n)
  ELSE n \div Pow[(base + 8) \div 8]

\* The division of a word: by npf_div10, by mask and shift (8 by 3, 16 by 4), or exact.
Quotient(n) ==
  IF ~build.divfree THEN n \div base
  ELSE IF base = 10 THEN Div10(n)
  ELSE n \div Pow[(base + 16) \div 8]

Remainder(n) ==
  IF build.divfree /\ base = 10 THEN n - ((Div10(n) * 10) % Word) ELSE n % base

Digit == /\ pc = "narrow"
         /\ buf' = Append(buf, Remainder(v32))
         /\ v32' = Quotient(v32)
         /\ pc' = (IF v32' = 0 THEN "done" ELSE "narrow")
         /\ UNCHANGED <<build, base, input, val, q, r, i>>

Done == pc = "done" /\ UNCHANGED vars

Next == WideTest \/ Bit \/ EmitWide \/ Narrow \/ Digit \/ Done

Spec == Init /\ [][Next]_vars
-----------------------------------------------------------------------------
\* What is left to convert: the loop works on val, then val becomes v32.
Left == IF pc \in {"wide", "bits"} THEN val ELSE v32

Numeral == INSTANCE NpfNumeral WITH rest <- Left, digits <- buf, done <- pc = "done"

\* Each digit is the remainder of a division by the base and what is left is its
\* quotient, however the build divides and wherever a wide number first fits a word
\* (803-840); a zero has a digit, and no other number starts with one.
KeepsNumeral == Numeral!Spec

\* The digits never outnumber the octal digits of npf_uint_t, which is what the
\* conversion buffer has room for without its prefix (284-292, 1945).
FitsCbuf == Len(buf) <= (build.bits + 2) \div 3

\* The digits read back as the number passed (803-840), the highest being no zero.
Horner[k \in 0..Len(buf)] == IF k = Len(buf) THEN 0 ELSE buf[k + 1] + base * Horner[k + 1]
ReadsBack == pc = "done" => /\ Horner[0] = input
                            /\ \A k \in DOMAIN buf : buf[k] \in 0..(base - 1)
                            /\ buf[Len(buf)] # 0 \/ buf = <<0>>
=============================================================================
