------------------------------ MODULE NpfCFloat ------------------------------
(***************************************************************************)
(* What the float conversions should print, computed from the number       *)
(* itself: every binary fraction is an exact decimal one, which C11        *)
(* 7.21.6.1 rounds once, and the README (Accuracy, Floating-Point) to even *)
(* on a tie.  And the properties of the converters.                        *)
(***************************************************************************)
EXTENDS NpfFloats

Pow5[k \in Nat] == IF k = 0 THEN 1 ELSE 5 * Pow5[k - 1]
Pow10[k \in Nat] == IF k = 0 THEN 1 ELSE 10 * Pow10[k - 1]

\* The number is Bin * 2^Scale2, that is Exact / 10^FracBits.
Scale2 == Exponent - cfg.man
FracBits ==
  IF Scale2 >= 0 \/ Bin = 0 THEN 0
  ELSE CHOOSE k \in 0..(-Scale2) :
         /\ Bin % Pow[-Scale2 - k] = 0
         /\ k > 0 => Bin % Pow[-Scale2 - k + 1] # 0
IntPart == IF Scale2 >= 0 THEN Bin * Pow[Scale2] ELSE Bin \div Pow[-Scale2]
Exact == IF Scale2 >= 0 THEN IntPart ELSE (Bin \div Pow[-Scale2 - FracBits]) * Pow5[FracBits]

\* README 239: integer parts below 2^N and fractions of N - 2.322 bits lose nothing.
Fits == IntPart < Range2 /\ FracBits <= cfg.ftoa - 3

Quotient(n, d, even) ==
  LET q == n \div d
      up == 2 * (n % d) > d \/ (2 * (n % d) = d /\ (even => q % 2 = 1))
  IN IF up THEN q + 1 ELSE q

-----------------------------------------------------------------------------
(* The texts, most significant first.                                        *)

Reversed(s) == [k \in 1..Len(s) |-> s[Len(s) + 1 - k]]
Decimal(n) == Reversed(Numeral[n])
Noughts(n) == [k \in 1..n |-> 0]
Decimals(n, w) == IF w = 0 THEN <<>> ELSE Noughts(w - Len(Numeral[n])) \o Decimal(n)

\* Without its trailing zeros, unless '#' keeps them.
Trimmed(s) ==
  IF fs.alt THEN s
  ELSE LET n == CHOOSE k \in 0..Len(s) : /\ k = 0 \/ s[k] # 0
                                         /\ \A j \in (k + 1)..Len(s) : s[j] = 0
       IN SubSeq(s, 1, n)
Pointed(s) == IF s # <<>> \/ fs.alt THEN <<Dot>> \o s ELSE <<>>

Fixed(p, even) ==
  LET q == Lesser(p, FracBits)
      n == Quotient(Exact, Pow10[FracBits - q], even)
  IN [int |-> Decimal(n \div Pow10[q]), frac |-> Decimals(n % Pow10[q], q) \o Noughts(p - q)]

Scientific(p, even) ==
  LET len == Len(Numeral[Exact])
      drop == Greater(0, len - p - 1)
      n == Quotient(Exact, Pow10[drop], even)
      over == Len(Numeral[n]) > len - drop
      s == Decimal(IF over THEN n \div 10 ELSE n)
  IN [digits |-> s \o Noughts(p + 1 - Len(s)),
      x |-> len - 1 - FracBits + (IF over THEN 1 ELSE 0)]

ExpText(x) == LET a == IF x < 0 THEN -x ELSE x
              IN <<ExpChar, IF x < 0 THEN Minus ELSE Plus>> \o Decimals(a, Greater(2, Len(Numeral[a])))
SciText(d, x) == <<d[1]>> \o Pointed(SubSeq(d, 2, Len(d))) \o ExpText(x)

Expected(even) ==
  LET P == IF fs.conv = "g" THEN Greater(1, fs.prec) - 1 ELSE fs.prec
      f == Fixed(P, even)
      s == Scientific(P, even)
      g == Fixed(P - s.x, even)
  IN CASE fs.conv = "f" -> f.int \o Pointed(f.frac)
       [] fs.conv = "e" -> SciText(s.digits, s.x)
       [] fs.conv = "g" /\ s.x \in -4..P -> g.int \o Pointed(Trimmed(g.frac))
       [] OTHER -> SciText(<<s.digits[1]>> \o Trimmed(SubSeq(s.digits, 2, P + 1)), s.x)

\* %a: the significand in units of its last printed nibble, and the parts of a text.
HexUnit == Pow[4 * (FracNibbles - HexDigits)]
Before(t, c) == {k \in DOMAIN t : \A j \in 1..k : t[j] # c}
Mantissa(t) == LET e == Cardinality(Before(t, ExpChar))
                   d == Cardinality(Before(t, Dot))
               IN SubSeq(t, 1, Lesser(d, e)) \o SubSeq(t, d + 2, e)
FracLen(t) == Greater(0, Cardinality(Before(t, ExpChar)) - Cardinality(Before(t, Dot)) - 1)
NumberOf(s, base) ==
  LET v[k \in 0..Len(s)] == IF k = 0 THEN 0 ELSE v[k - 1] * base + s[k] IN v[Len(s)]
PrintedExp(t) ==
  LET k == Cardinality(Before(t, ExpChar)) + 1
      n == NumberOf(SubSeq(t, k + 2, Len(t)), 10)
  IN IF k > Len(t) THEN 0 ELSE IF t[k + 1] = Minus THEN -n ELSE n

-----------------------------------------------------------------------------
(* Properties. *)

Returned(kind) == pc = "Done" /\ res.kind = kind

TypeOK ==
  /\ cfg \in Builds /\ fs \in Formats
  /\ man \in 0..(Range2 - 1) /\ carry \in {0, 1} /\ digit \in BOOLEAN
  /\ {exp, left, dec, end, dec_f, nsig} \subseteq Int
  /\ tail \in BOOLEAN
  /\ \A k \in DOMAIN buf : buf[k] \in 0..Unset
  /\ {res.kind, fused.kind} \subseteq {"none", "number", "ERR", "NAN", "INF"}

\* An integer of as many digits as the buffer has cells, printed without a point: the
\* store of a point it does not need (1476) overwrites the units before they are read.
UnitsOverwritten == /\ fs.conv = "f" /\ fs.prec = 0 /\ ~fs.alt
                    /\ run.dec = 0 /\ Len(run.digits) = cfg.cbuf

\* A number that fits the intermediate integer is printed as C asks, rounded once and
\* to even (README 164, 239), by either %f, by %e and by %g.  Two exceptions: an integer
\* that has more bits than the mantissa, where %e and %g see no tie (1235-1238) and
\* round one up, and one whose units are overwritten.
ExactWhenItFits ==
  Returned("number") /\ Fits =>
    /\ fs.conv = "f" /\ ~UnitsOverwritten => res.text = Expected(TRUE)
    /\ fs.conv \in {"e", "g"} => res.text = Expected(Exponent <= ShiftBits)
    /\ fs.conv = "f" /\ fused.kind = "number" => fused.text = Expected(TRUE)

\* What README 164 and 345 say of %f, %e and %g: an exact half is rounded to even,
\* where nothing was lost before the rounding.
TiesToEven ==
  Returned("number") /\ Fits /\ fs.conv # "a" => res.text = Expected(TRUE)

\* Both %f print the same wherever the fused one prints (unit_f_paths.cc 11-15).
PathsAgree == pc = "Done" /\ fs.conv = "f" /\ fused.kind # "ERR" => res = fused

\* They do so whatever the intermediate loses, as soon as a decimal is asked for: then
\* both scale the fraction by the same steps (1085-1098, 1348-1363).
PathsAgreeOnDecimals == fs.prec > 0 => PathsAgree

\* Scaling a fraction loses no high bits: the limit leaves room for five times the
\* mantissa and a pending carry, and after any step there is room for the carry that
\* the nudge adds, which wraps only where the loop never ran (1087-1102, 1349-1364).
ScalingNeverWraps ==
  pc \in {"ScaleFrac", "FusedScaleFrac"} =>
    /\ FiveFits => man * 5 + 3 * carry < Range2
    /\ left # FirstLeft => man + carry < Range2

\* What the top nibble yields is a decimal digit (1112, 1371): the mantissa enters the
\* loops that print it below ten times the nibble's unit, and stays there.
DigitsDecimal == pc \in {"Emit", "FusedEmit"} => NextDecimal <= 9

\* How far a text is from the number, and whether half of the last place printed, of
\* ones or more, and one part in lost account for that.
LastPlace(t) == PrintedExp(t) - FracLen(t)
Off(t) == LET d == NumberOf(Mantissa(t), 10) * Pow10[LastPlace(t)] * Pow[-Scale2] - Bin
          IN IF d < 0 THEN -d ELSE d
WithinHalf(t, lost) ==
  LastPlace(t) >= 0 =>
    2 * Off(t) <= Pow10[LastPlace(t)] * Pow[-Scale2] + (2 * Pow[-Scale2]) \div lost

\* The intermediate takes all of the integer, and as much of the fraction as it has bits.
IntegerKept == Scale2 < 0 /\ IntPart < Range2

\* %.0f prints the nearest integer, up to the bits the intermediate lacks: the fused
\* one cuts the fraction after ftoa bits and keeps their carry from wrapping to nothing
\* (1099-1102); the shared one loses up to four more to scaling.
NearestUnit ==
  Returned("number") /\ fs.conv = "f" /\ fs.prec = 0 /\ IntegerKept /\ ~UnitsOverwritten =>
    /\ WithinHalf(res.text, TopNibble)
    /\ fused.kind = "number" => WithinHalf(fused.text, Range2)

\* README 155-164 says what digits a narrow intermediate costs: half a bit a step of
\* scaling, so none of the first of a number near one, and the same in every conversion.
\* Where it keeps all of an integer, then, a text that ends at the units or above them is
\* the nearest there is, in %f and in %e (1364, 1476).
NearestPrinted ==
  Returned("number") /\ fs.conv \in {"f", "e"} /\ IntegerKept => WithinHalf(res.text, TopNibble)

\* Every call returns: a step goes on to a later place, or makes one of the seven loops
\* shorter that has work left, or is the one step back that %g takes to generate again,
\* after which it is %g no more (1431-1447).  With no deadlock that is termination.
Order == <<"FusedStart", "FusedInteger", "FusedScaleInt", "FusedScaleFrac", "FusedEmit",
           "FusedTie", "FusedRound", "FusedDone", "Hex", "Start", "Generate", "Integer",
           "ScaleInt", "ScaleFrac", "Emit", "Tail", "Significant", "Round", "Shortest",
           "Layout", "Done">>
Reached == CHOOSE k \in DOMAIN Order : Order[k] = pc
LoopLeft == CASE pc \in {"FusedScaleInt", "ScaleInt"} -> left
              [] pc \in {"FusedScaleFrac", "ScaleFrac"} -> 4 - left
              [] pc = "FusedEmit" -> dec_f
              [] pc = "Emit" -> end - Lowest
              [] pc = "FusedRound" -> cfg.cbuf - dec
              [] OTHER -> 0
Descends ==
  [][\/ Reached' > Reached
     \/ pc' = pc /\ LoopLeft' < LoopLeft /\ LoopLeft > 0
     \/ mode.g /\ ~mode'.g]_vars

\* No store leaves the conversion buffer (1298-1306, 1136, 1473-1515), the digit a tie
\* asks for is one that was kept, and no cell is printed that was not stored.
WithinBuf ==
  /\ DOMAIN buf \subseteq 0..(cfg.cbuf - 1)
  /\ pc = "Round" => end < cfg.cbuf
  /\ \A r \in {res, fused} :
       r.kind = "number" => /\ Len(r.text) \in 1..cfg.cbuf
                            /\ \A k \in DOMAIN r.text : r.text[k] # Unset

\* %f gives up only on a number that does not fit the buffer (README 150), unless it
\* is the fused one, which keeps room for any integer of a word (1045-1048).
Text150 == Len(Numeral[IntPart + 1]) + PointCells(fs.prec) + fs.prec
ErrOnlyWhenFull ==
  fs.conv = "f" =>
    /\ Returned("ERR") => Text150 > cfg.cbuf
    /\ fused.kind = "ERR" => Text150 > cfg.cbuf - Greater(0, cfg.reserve - 1)

\* The layouts read digits further up the array that they write (1471-1515): what is
\* printed denotes the number that was generated and rounded, in decimals or not, and
\* a %f has the decimals asked for.  But for the units that are overwritten.
Denotes(s, e) ==
  LET first == {k \in DOMAIN s : \A j \in 1..k : s[j] = 0}
      last == {k \in DOMAIN s : \A j \in k..Len(s) : s[j] = 0}
  IN IF last = DOMAIN s THEN [digits |-> <<>>, e |-> 0]
     ELSE [digits |-> SubSeq(s, Cardinality(first) + 1, Len(s) - Cardinality(last)),
           e |-> e + Cardinality(last)]
TextDenotesDigits ==
  Returned("number") /\ fs.conv # "a" /\ ~UnitsOverwritten =>
    /\ Denotes(Mantissa(res.text), PrintedExp(res.text) - FracLen(res.text))
         = Denotes(run.digits, run.dec)
    /\ fs.conv = "f" => FracLen(res.text) = fs.prec

\* %a prints a number of its nibbles that none is nearer than, and the exponent the
\* number has.  Which of two that are as near is open: the code takes the larger (1568),
\* as tests/conformance.c 1889 has it, where README 345 says the even one.
HexNearest ==
  Returned("number") /\ fs.conv = "a" =>
    /\ 2 * (NumberOf(Mantissa(res.text), 16) * HexUnit - Bin) \in -HexUnit..HexUnit
    /\ FracLen(res.text) = HexDigits /\ PrintedExp(res.text) = HexExponent
=============================================================================
