------------------------------- MODULE NpfEtoa -------------------------------
(***************************************************************************)
(* npf_etoa_rev: %e and %g, and %f too in the builds that have either.     *)
(* The significant digits are generated right-aligned at the top of the    *)
(* buffer, rounded, and then laid out from buf[0] up over the same cells.  *)
(* %g generates a second time when it turns out to want the fixed layout.  *)
(***************************************************************************)
EXTENDS NpfReal

VARIABLES
  mode,   \* prec, nsig_max, dstop, fmode and g, which the second pass of %g changes
  nsig, tail,
  run     \* history: what is laid out, its digits most significant first and dec

sciVars == <<inputs, pc, scale, place, mode, nsig, tail, res, run>>

Never == -1000000   \* INT_MIN

Strip == ~fs.alt
Digits0 == [digits |-> <<>>, dec |-> 0]
Mode0 == [prec |-> 0, nsig_max |-> 0, dstop |-> Never, fmode |-> FALSE, g |-> FALSE]

\* Mutant of FixedMode: %g stays %g when it generates again.
FixedModeAgain(prec) == [prec |-> prec, nsig_max |-> cfg.cbuf - 1, dstop |-> -prec - 1,
                         fmode |-> TRUE, g |-> fs.conv = "g"]

\* 'f' stops at a decimal position and never by count, one cell short of the array.
FixedMode(prec) == [prec |-> prec, nsig_max |-> cfg.cbuf - 1, dstop |-> -prec - 1,
                    fmode |-> TRUE, g |-> FALSE]

ModeOf == LET p == IF fs.conv = "g" /\ fs.prec = 0 THEN 1 ELSE fs.prec
          IN IF fs.conv \notin {"e", "g"} THEN FixedMode(p)
             ELSE [prec |-> p, nsig_max |-> IF fs.conv = "g" THEN p ELSE p + 1,
                   dstop |-> Never, fmode |-> FALSE, g |-> fs.conv = "g"]

\* Nothing longer fits; the longest %e has seven characters around its decimals.
PrecisionFits == /\ fs.prec <= cfg.cbuf - 2
                 /\ ModeOf.fmode \/ ModeOf.nsig_max <= cfg.cbuf - 7

Leave(kind) == /\ res' = Special(kind) /\ pc' = "Done"
               /\ UNCHANGED <<inputs, scale, place, mode, nsig, tail, run>>

Start ==
  /\ pc = "Start"
  /\ \/ IsSpecial /\ Leave(SpecialKind)
     \/ ~IsSpecial /\ ~PrecisionFits /\ Leave("ERR")
     \/ /\ ~IsSpecial /\ PrecisionFits
        /\ mode' = ModeOf /\ pc' = "Generate"
        /\ UNCHANGED <<inputs, scale, place, nsig, tail, res, run>>

\* regen: both passes start from the exponent the real came with.
Generate ==
  /\ pc = "Generate" /\ pc' = "Integer"
  /\ exp' = Exponent /\ carry' = 0 /\ dec' = 0 /\ tail' = (Exponent <= ShiftBits)
  /\ UNCHANGED <<inputs, man, left, digit, end, buf, mode, nsig, res, run>>

Integer ==
  /\ pc = "Integer" /\ StartInteger /\ pc' = "ScaleInt"
  /\ UNCHANGED <<inputs, digit, place, mode, nsig, tail, res, run>>

ScaleInt ==
  /\ pc = "ScaleInt" /\ left > 0 /\ left' = left - 1
  /\ \/ RoomToDouble /\ DoubleIt /\ UNCHANGED dec
     \/ ~RoomToDouble /\ TakeFifth /\ dec' = dec + 1
  /\ UNCHANGED <<inputs, pc, exp, digit, end, buf, mode, nsig, tail, res, run>>

\* The digits move to the top of the array, the highest first, over each other where
\* they are many; moved[j] is the array after j of them.
Raised(b, k) ==
  LET moved[j \in 0..k] == IF j = 0 THEN b
                           ELSE Put(moved[j - 1], cfg.cbuf - j, Cell(moved[j - 1], k - j))
  IN moved[k]

\* The integer's digits, none for a zero unless the layout is fixed; then the
\* fraction's mantissa, which is skipped where it is zero.
IntDigits ==
  /\ pc = "ScaleInt" /\ left = 0
  /\ LET n == Numeral[man]
         some == man > 0 \/ mode.fmode
     IN \/ some /\ cfg.reserve = 0 /\ Len(n) > cfg.cbuf /\ Leave("ERR")
        \/ /\ some => cfg.reserve > 0 \/ Len(n) <= cfg.cbuf
           /\ buf' = IF some THEN Raised(PutRun(buf, 0, n), Len(n)) ELSE buf
           /\ end' = IF some THEN cfg.cbuf - Len(n) ELSE cfg.cbuf
           /\ \/ /\ HasFraction /\ StartFraction
                 /\ pc' = IF man' > 0 \/ carry' > 0 THEN "ScaleFrac" ELSE "Tail"
              \/ ~HasFraction /\ pc' = "Significant" /\ UNCHANGED <<man, carry, left, digit>>
           /\ UNCHANGED <<inputs, exp, dec, mode, nsig, tail, res, run>>

\* One digit past what is asked for is generated, at most.
Lowest == cfg.cbuf - mode.nsig_max - 1
Wanted == end > Lowest /\ dec > mode.dstop

\* Until a digit is there, a zero is only a smaller exponent.
Leading == end = cfg.cbuf
ScaleFrac ==
  /\ pc = "ScaleFrac" /\ Wanted /\ left < 4
  /\ ScaleFraction
  /\ dec' = (IF LeadingZero THEN dec - 1 ELSE dec)
  /\ \/ LeadingZero /\ ~Leading /\ buf' = Put(buf, end - 1, 0) /\ end' = end - 1
     \/ ~(LeadingZero /\ ~Leading) /\ UNCHANGED <<buf, end>>
  /\ UNCHANGED <<inputs, pc, mode, nsig, tail, res, run>>

\* The carry left is added, wherever the loop stopped.
Nudge ==
  /\ pc = "ScaleFrac" /\ (~Wanted \/ left >= 4)
  /\ man' = (man + carry) % Range2 /\ carry' = (IF left >= 0 THEN 1 ELSE 0)
  /\ pc' = (IF Wanted THEN "Emit" ELSE "Tail")
  /\ UNCHANGED <<inputs, exp, left, digit, place, mode, nsig, tail, res, run>>

Enough(e, d) == e <= Lowest \/ d <= mode.dstop

\* A digit a step, until the mantissa is exhausted or no more are wanted.
Emit ==
  /\ pc = "Emit"
  /\ buf' = Put(buf, end - 1, NextDecimal) /\ end' = end - 1 /\ dec' = dec - 1
  /\ \/ /\ RestOf = 0 \/ Enough(end', dec')
        /\ man' = (RestOf * 16) % Range2 /\ pc' = "Tail"
     \/ /\ RestOf > 0 /\ ~Enough(end', dec')
        /\ man' = (RestOf * 10) % Range2 /\ UNCHANGED pc
  /\ UNCHANGED <<inputs, exp, carry, left, digit, mode, nsig, tail, res, run>>

\* Whether what is left is a half or more, and whether it is nothing.
Leftover ==
  /\ pc = "Tail" /\ pc' = "Significant"
  /\ carry' = (IF man >= Range2 \div 2 THEN carry ELSE 0)
  /\ tail' = (man = 0)
  /\ UNCHANGED <<inputs, exp, man, left, digit, place, mode, nsig, res, run>>
-----------------------------------------------------------------------------
(* Significant digits. *)

\* Mutant of IsTie: a five is a tie whatever was dropped below it.
IsTieBlind(first, kept) == Cell(buf, kept - 1) = 5 /\ tail

\* The first dropped digit is a five, and nothing but zeros was dropped below it.
IsTie(first, kept) == /\ Cell(buf, kept - 1) = 5 /\ tail
                      /\ \A i \in first..(kept - 2) : Cell(buf, i) = 0

\* What the run has too much of is dropped and decides the carry; a number without
\* digits is a single zero, and has nothing to drop.
Significant ==
  /\ pc = "Significant" /\ pc' = "Round"
  /\ LET none == end = cfg.cbuf
         drop == IF mode.fmode THEN -mode.prec - dec ELSE (cfg.cbuf - end) - mode.nsig_max
         kept == end + drop
     IN \/ /\ none
           /\ buf' = Put(buf, end - 1, 0) /\ end' = end - 1 /\ nsig' = 1
           /\ dec' = 0 /\ carry' = 0
        \/ /\ ~none /\ drop <= 0
           /\ nsig' = cfg.cbuf - end /\ UNCHANGED <<buf, end, dec, carry>>
        \/ /\ ~none /\ drop > 0
           /\ end' = kept /\ nsig' = cfg.cbuf - kept /\ dec' = dec + drop
           /\ carry' = (IF IsTie(end, kept) THEN Cell(buf, kept) % 2
                        ELSE IF Cell(buf, kept - 1) >= 5 THEN 1 ELSE 0)
           /\ UNCHANGED buf
  /\ UNCHANGED <<inputs, exp, man, left, digit, mode, tail, res, run>>

\* The carry turns nines into zeros up to the digit that it increments; where all are
\* nines they become a one and zeros, a place higher.
Carried(stop, k) ==
  IF k \in end..(stop - 1) THEN IF k = cfg.cbuf - 1 THEN 1 ELSE 0 ELSE buf[k] + 1

Round ==
  /\ pc = "Round" /\ pc' = "Shortest"
  /\ \/ carry = 0 /\ UNCHANGED <<buf, dec>>
     \/ /\ carry = 1
        /\ LET stop == CHOOSE i \in end..cfg.cbuf :
                         /\ i = cfg.cbuf \/ Cell(buf, i) # 9
                         /\ \A k \in end..(i - 1) : Cell(buf, k) = 9
           IN /\ buf' = [k \in DOMAIN buf |-> IF k \in end..stop THEN Carried(stop, k) ELSE buf[k]]
              /\ dec' = (IF stop = cfg.cbuf THEN dec + 1 ELSE dec)
  /\ UNCHANGED <<inputs, scale, end, mode, nsig, tail, res, run>>

TopExponent == dec + nsig - 1

\* The zeros at the low end, of which the first digit is never one.
Zeros == {k \in 0..(nsig - 2) : \A i \in end..(end + k) : Cell(buf, i) = 0}
Stripped == IF Strip THEN IF Zeros = {} THEN 0 ELSE 1 + CHOOSE k \in Zeros : k + 1 \notin Zeros
                     ELSE 0

WantsFixed == TopExponent \in -4..(mode.prec - 1)

\* %g strips its zeros, and generates again if its exponent asks for the fixed layout.
Shortest ==
  /\ pc = "Shortest"
  /\ \/ ~mode.g /\ pc' = "Layout" /\ UNCHANGED <<end, nsig, dec, mode>>
     \/ /\ mode.g
        /\ end' = end + Stripped /\ nsig' = nsig - Stripped /\ dec' = dec + Stripped
        /\ \/ ~WantsFixed /\ pc' = "Layout" /\ UNCHANGED mode
           \/ /\ WantsFixed /\ pc' = "Generate"
              /\ mode' = FixedMode(Greater(0, (IF Strip THEN nsig' ELSE mode.prec) - 1 - TopExponent))
  /\ UNCHANGED <<inputs, scale, buf, tail, res, run>>
-----------------------------------------------------------------------------
(* Layout: stores from buf[0] up, of characters and of digits further up.   *)

Char(o, c) == [at |-> o, from |-> -1, char |-> c]
Copy(o, i) == [at |-> o, from |-> i, char |-> Unset]
Chars(o, s) == [k \in 1..Len(s) |-> Char(o + k - 1, s[k])]
Zeroes(o, n) == [k \in 1..n |-> Char(o + k - 1, 0)]
Copies(o, i, n) == [k \in 1..n |-> Copy(o + k - 1, i + k - 1)]

Stored(b, s) ==
  LET after[j \in 0..Len(s)] ==
        IF j = 0 THEN b
        ELSE Put(after[j - 1], s[j].at,
                 IF s[j].from < 0 THEN s[j].char ELSE Cell(after[j - 1], s[j].from))
  IN after[Len(s)]

LayOut(stores, n) ==
  /\ buf' = Stored(buf, stores)
  /\ res' = [kind |-> "number", text |-> Text(buf', n)]
  /\ run' = [digits |-> [k \in 1..nsig |-> Cell(buf, cfg.cbuf - k)], dec |-> dec]
  /\ pc' = "Done"
  /\ UNCHANGED <<inputs, scale, dec, end, mode, nsig, tail>>

\* <int>.<frac>: generated digits and zeros in each part.
IntGen == Greater(0, nsig + Lesser(dec, 0))
IntZeros == Greater(dec, 0)
FracGen == nsig - IntGen
FracZeros == Greater(0, mode.prec - FracGen)
PointCells(n) == IF n > 0 \/ fs.alt THEN 1 ELSE 0

\* Mutant of FixedFits: the point is not counted.
FixedFitsPointless == IntGen + IntZeros + mode.prec <= cfg.cbuf

\* Mutant of FixedFits: the last cell is left free.
FixedFitsStrict == IntGen + IntZeros + PointCells(mode.prec) + mode.prec < cfg.cbuf

FixedFits == IntGen + IntZeros + PointCells(mode.prec) + mode.prec <= cfg.cbuf

LayFixed ==
  /\ pc = "Layout" /\ mode.fmode
  /\ \/ ~FixedFits /\ Leave("ERR")
     \/ /\ FixedFits
        /\ LET point == FracZeros + FracGen
               units == point + PointCells(mode.prec)
           IN LayOut(Zeroes(0, FracZeros) \o Copies(FracZeros, end, FracGen)
                       \o <<Char(point, Dot)>>
                       \o Zeroes(units, IntZeros)
                       \o Copies(units + IntZeros, end + FracGen, IntGen),
                     units + IntZeros + IntGen)

\* d.<frac>e<sign><exp>, the exponent of two digits at least.
ExponentDigits(x) == IF x < 10 THEN <<x, 0>> ELSE Numeral[x]

LaySci ==
  /\ pc = "Layout" /\ ~mode.fmode
  /\ LET x == TopExponent
         e == ExponentDigits(IF x < 0 THEN -x ELSE x)
                \o <<IF x < 0 THEN Minus ELSE Plus, ExpChar>>
         pe == IF mode.g THEN (IF Strip THEN nsig ELSE mode.prec) - 1 ELSE mode.prec
         pad == Greater(0, pe - (nsig - 1))
         point == Len(e) + pe
         top == point + PointCells(pe)
     IN LayOut(Chars(0, e) \o Zeroes(Len(e), pad)
                 \o Copies(Len(e) + pad, cfg.cbuf - nsig, pe - pad)
                 \o <<Char(point, Dot), Copy(top, cfg.cbuf - 1)>>,
               top + 1)

SciNext == \/ Start \/ Generate \/ Integer \/ ScaleInt \/ IntDigits \/ ScaleFrac
           \/ Nudge \/ Emit \/ Leftover \/ Significant \/ Round \/ Shortest
           \/ LayFixed \/ LaySci
=============================================================================
