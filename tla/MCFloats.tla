------------------------------ MODULE MCFloats ------------------------------
(***************************************************************************)
(* Small reals.  What counts is how the widths compare: the intermediate   *)
(* with the mantissa and with the word that holds the real, the buffer     *)
(* with the longest integer and the exponents.                             *)
(***************************************************************************)
EXTENDS NpfCFloat, TLC

Build(m, x, bin, ftoa, cbuf, reserve, tenths) ==
  [man |-> m, maxexp |-> x, bin |-> bin, ftoa |-> ftoa, cbuf |-> cbuf,
   reserve |-> reserve, tenths |-> tenths]
Single   == Build(5, 16, 16, 8, 10, 3, TRUE)    \* a mantissa narrower than the intermediate
Double   == Build(8, 16, 16, 8, 10, 3, FALSE)   \* and one wider
Double64 == Build(4, 4, 8, 8, 9, 0, FALSE)      \* the real as wide as the intermediate
Single64 == Build(4, 4, 8, 12, 9, 0, FALSE)     \* and narrower
Tight    == Build(11, 16, 16, 8, 4, 0, FALSE)   \* an integer fills the buffer but for a cell
Wide     == Build(7, 16, 16, 12, 3, 0, FALSE)   \* integers longer than the buffer

MCBuilds == {Single, Double, Double64, Single64, Tight, Wide}

\* All of the narrow mantissas; of the others those near a power of two, near ties
\* and at runs of decimal nines.
MCFractions == 4 :> 0..15 @@ 5 :> 0..31
  @@ 6 :> 0..63
  @@ 7 :> {0, 1, 63, 64, 95, 96, 112, 126, 127}
  @@ 8 :> {0, 1, 2, 3, 8, 24, 31, 32, 33, 63, 64, 65, 85, 96, 113, 127, 128, 129, 136, 144, 160, 170,
           192, 225, 231, 240, 249, 250, 251, 252, 253, 254, 255}
  @@ 11 :> {0, 504, 1000, 1024, 1151, 1152, 2047}
  @@ 13 :> {0, 5118, 5119, 5120, 8191}

Format(C, P, A) == [conv: C, prec: P, alt: A]
MCFormats == Format({"f"}, {0, 1, 2, 3, 8, 9}, BOOLEAN) \cup Format({"e"}, {0, 1, 2, 3}, {FALSE})
  \cup Format({"g"}, {0, 2, 3}, BOOLEAN) \cup Format({"a"}, {0, 1, 5}, BOOLEAN)

\* Both %f on a double that the intermediate cuts.
PathBuilds == {Double}
PathFormats == Format({"f"}, {0, 1}, {FALSE})

\* Ties: %e of integers longer than a mantissa.
TieBuilds == {Build(6, 16, 16, 8, 10, 3, FALSE)}
TieFormats == Format({"e"}, {0, 1}, {FALSE})

\* Integers of two digits whose fraction is all ones as far as the intermediate sees it,
\* and one bit more; and, in Wide, integers that fill the buffer.
NearestBuilds == {Build(13, 16, 16, 8, 10, 3, FALSE), Wide}
NearestFormats == Format({"f", "e"}, {0, 1}, {FALSE})

MCPow == [k \in 0..30 |-> 2^k]
=============================================================================
