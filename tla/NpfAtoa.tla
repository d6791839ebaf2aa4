------------------------------- MODULE NpfAtoa -------------------------------
(***************************************************************************)
(* npf_atoa_rev: %a, of the nibbles of the mantissa.  A double's mantissa  *)
(* is a whole number of nibbles.                                           *)
(***************************************************************************)
EXTENDS NpfReal

FracNibbles == (cfg.man + 3) \div 4
HexDigits == Lesser(fs.prec, FracNibbles)

\* A zero has the exponent 0, and every other number its own.
HexExponent == IF real.exp = 0 /\ real.frac = 0 THEN 0 ELSE Exponent

\* Mutant of RoundBit: the bit below it.
RoundBitLow(b) == (b \div 4) % 2

\* The nibbles that are not printed are shifted out, the top bit of the last of them
\* being the carry.
RoundBit(b) == (b \div 8) % 2

Rounded ==
  LET out[i \in 0..FracNibbles] ==
        IF i = 0 THEN [bin |-> Bin, carry |-> 0]
        ELSE [bin |-> out[i - 1].bin \div 16, carry |-> RoundBit(out[i - 1].bin)]
      last == out[FracNibbles - HexDigits]
  IN last.bin + last.carry

Nibbles(n, k) == [i \in 1..k |-> (n \div Pow[4 * (i - 1)]) % 16]

\* The text, least significant first: the leading digit is whatever is left.
HexCells ==
  LET x == HexExponent
  IN Numeral[IF x < 0 THEN -x ELSE x] \o <<IF x < 0 THEN Minus ELSE Plus, ExpChar>>
       \o Nibbles(Rounded, HexDigits)
       \o (IF HexDigits > 0 \/ fs.alt THEN <<Dot>> ELSE <<>>)
       \o <<(Rounded \div Pow[4 * HexDigits]) % 16>>

\* A special is left to the other converter.
Hex ==
  /\ pc = "Hex"
  /\ \/ real.exp = 2 * cfg.maxexp - 1 /\ pc' = "Start" /\ UNCHANGED <<buf, res>>
     \/ /\ real.exp # 2 * cfg.maxexp - 1
        /\ buf' = PutRun(Blank, 0, HexCells)
        /\ res' = [kind |-> "number", text |-> Text(buf', Len(HexCells))]
        /\ pc' = "Done"
  /\ UNCHANGED <<inputs, scale, dec, end>>
=============================================================================
