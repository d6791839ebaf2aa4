----------------------------- MODULE NpfGrammar -----------------------------
(***************************************************************************)
(* What the walk over a format owes its caller, from the text alone: the   *)
(* specifications C11 7.21.6.1 and the README's list define, as a grammar  *)
(* over whole texts, and what each one means.                              *)
(***************************************************************************)
EXTENDS NpfParse, FiniteSets

\* What C11 6.2.5 and 7.20.1 say of the widths, and nanoprintf.h 211-219 and 424-434: the
\* standard types are ordered, those of stdint are standard types, and short of 64 bits
\* a long holds them where it is the widest type of the build.
Standard == {"CHAR", "SHORT", "INT", "LONG", "LL"}
ASSUME StdintAssumption ==
  /\ TMax["CHAR"] <= TMax["SHORT"] /\ TMax["SHORT"] <= TMax["INT"]
  /\ TMax["INT"] <= TMax["LONG"] /\ TMax["LONG"] <= TMax["LL"]
  /\ \A n \in {8, 16, 32, 64} : \E x, y \in Standard : LeastMax[n] = TMax[x] /\ FastMax[n] = TMax[y]
  /\ \A b \in Builds, n \in {8, 16, 32} :
       b["fixed"] /\ ~b["large"] => LeastMax[n] <= TMax["LONG"] /\ FastMax[n] <= TMax["LONG"]

\* t[a+1], ..., t[b].
Part(t, a, b) == SubSeq(t, a + 1, b)
CharsOf(x) == {x[k] : k \in 1..Len(x)}

Number(x) == LET f[k \in 0..Len(x)] == IF k = 0 THEN 0 ELSE 10 * f[k - 1] + DigitVals[x[k]]
             IN f[Len(x)]

-----------------------------------------------------------------------------
(* The parts of a specification. *)

FlagChars == (IF build["width"] THEN {"-", "0"} ELSE {}) \cup {"+", SPACE}
               \cup (IF build["alt"] THEN {"#"} ELSE {})
IsFlags(x) == CharsOf(x) \subseteq FlagChars

\* A leading zero is a flag, never part of the width.
IsWidth(x) == \/ x = <<>>
              \/ build["width"] /\ (\/ x = <<"*">>
                                    \/ CharsOf(x) \subseteq DigitSet /\ x[1] # "0")

\* nanoprintf takes ".-digits", which C leaves undefined, for no precision at all.
IsPrec(x) ==
  \/ x = <<>>
  \/ /\ build["prec"] /\ x[1] = "."
     /\ LET y == Tail(x)
        IN \/ y = <<"*">>
           \/ CharsOf(y) \subseteq DigitSet
           \/ y[1] = "-" /\ CharsOf(Tail(y)) \subseteq DigitSet

\* The modifiers a text may name: those of C, and for wN and wfN every one whose
\* type is as wide as the stdint type of that name.
Holding(max) == {m \in LenMods \ {"L"} : /\ m \in {"h", "hh"} => build["small"]
                                         /\ m \in {"ll", "j", "z", "t"} => build["large"]
                                         /\ TMax[TypeOf(m)] = max}
WTexts == [n \in {8, 16, 32, 64} |-> CASE n = 8 -> <<"w", "8">> [] n = 16 -> <<"w", "1", "6">>
                                       [] n = 32 -> <<"w", "3", "2">> [] OTHER -> <<"w", "6", "4">>]
WfTexts == [n \in {8, 16, 32, 64} |->
  CASE n = 8 -> <<"w", "f", "8">> [] n = 16 -> <<"w", "f", "1", "6">>
    [] n = 32 -> <<"w", "f", "3", "2">> [] OTHER -> <<"w", "f", "6", "4">>]
Carried(n) == n # 64 \/ (Holding(LeastMax[64]) # {} /\ Holding(FastMax[64]) # {})
ModsOf(x) ==
  CASE x = <<>> -> {NONE}
    [] x = <<"h">> /\ build["small"] -> {"h"}
    [] x = <<"h", "h">> /\ build["small"] -> {"hh"}
    [] x = <<"l">> -> {"l"}
    [] x = <<"l", "l">> /\ build["large"] -> {"ll"}
    [] x = <<"L">> /\ build["float"] -> {"L"}
    [] x \in {<<"j">>, <<"z">>, <<"t">>} /\ build["large"] -> {x[1]}
    [] OTHER ->
         UNION {(IF x = WTexts[n] THEN Holding(LeastMax[n]) ELSE {})
                  \cup (IF x = WfTexts[n] THEN Holding(FastMax[n]) ELSE {})
                : n \in {k \in {8, 16, 32, 64} : build["fixed"] /\ Carried(k)}}

-----------------------------------------------------------------------------
(* Texts and meanings. *)

\* The text taken apart: its flags end at a, the width at b, the precision at c, and the
\* modifier before the conversion.
Fits(t, a, b, c) ==
  /\ a <= b /\ b <= c /\ c < Len(t)
  /\ t[1] = "%" /\ IsFlags(Part(t, 1, a)) /\ IsWidth(Part(t, a, b)) /\ IsPrec(Part(t, b, c))
  /\ ModsOf(Part(t, c, Len(t) - 1)) # {} /\ ConvOf(t[Len(t)]) # NONE

\* A precision that is written as a number, digits or none.
IsLiteral(p) == p # <<>> /\ p # <<".", "*">> /\ (Len(p) = 1 \/ p[2] # "-")
Meaning(t, a, b, c) ==
  LET w == Part(t, a, b)
      p == Part(t, b, c)
      n == Len(t)
  IN [flags |-> CharsOf(Part(t, 1, a)),
      star  |-> w = <<"*">>,
      width |-> IF w = <<"*">> THEN 0 ELSE Number(w),
      prec_opt |-> CASE IsLiteral(p) -> LITERAL [] p = <<".", "*">> -> STAR [] OTHER -> NONE,
      prec  |-> IF IsLiteral(p) THEN Number(Tail(p)) ELSE 0,
      mods  |-> ModsOf(Part(t, c, n - 1)),
      conv  |-> ConvOf(t[n]), upper |-> IsUpper(t[n])]

\* What a text means, for each way to take it apart: no text has two.
Meanings(t) ==
  UNION {UNION {{Meaning(t, a, b, c) : c \in {k \in 1..Len(t) : Fits(t, a, b, k)}}
                : b \in 1..Len(t)} : a \in 1..Len(t)}

\* A number is stored as it is up to the digit that reaches the accumulator's ceiling,
\* and from there on as some number that the engine pins.
Stored(v, n) == IF n \div 10 < FmtNumBig THEN v = n ELSE v >= FmtNumBig

\* The struct says what the text means.  The engine reads the number of a width
\* only without a star, and that of a precision only with a literal one.
Says(s, m) ==
  /\ s.left_justified = ("-" \in m.flags) /\ s.leading_zero_pad = ("0" \in m.flags)
  /\ s.alt_form = ("#" \in m.flags)
  /\ s.prepend = (CASE "+" \in m.flags -> "+" [] m.flags \cap {"+", SPACE} = {SPACE} -> SPACE
                    [] OTHER -> NUL)
  /\ s.field_width_opt = (IF m.star THEN STAR ELSE NONE)
  /\ ~m.star => Stored(s.field_width, m.width)
  /\ s.prec_opt = m.prec_opt
  /\ m.prec_opt = LITERAL => Stored(s.prec, m.prec)
  /\ s.length_modifier \in m.mods
  /\ s.conv_spec = m.conv /\ s.case_adjust = (IF m.upper THEN 0 ELSE 32)

-----------------------------------------------------------------------------
(* Properties. *)

Text(item) == SubSeq(fmt, item.at, item.at + item.len - 1)

\* What is parsed is a specification and the struct holds its meaning, though the
\* struct was left in any state by the text before it; and a '%' printed verbatim
\* begins no specification at all (README 216: "%w24d" prints %w24d; README 28: a
\* precision a build leaves out).
ParsesGrammar ==
  LET last == items[Len(items)]
  IN /\ pc = "fetch" /\ items # <<>> /\ last.parsed =>
          /\ Cardinality(Meanings(Text(last))) = 1
          /\ \A m \in Meanings(Text(last)) : Says(last.spec, m)
     /\ pc = "done" =>
          \A k \in 1..Len(items) :
            ~items[k].parsed => \A q \in items[k].at..Len(fmt) :
                                  Meanings(SubSeq(fmt, items[k].at, q)) = {}

\* The items tile the format: a text that fails to parse is neither lost nor
\* printed twice, however far the parser had read into it.
Tiles ==
  LET next(k) == items[k].at + items[k].len
      end == IF items = <<>> THEN 1 ELSE next(Len(items))
  IN /\ \A k \in 1..(Len(items) - 1) : items[k + 1].at = next(k)
     /\ items # <<>> => items[1].at = 1
     /\ end = IF pc \in {"fetch", "done"} THEN cur ELSE start
     /\ pc = "done" => fmt[cur] = NUL

\* No character behind the terminating NUL is read: after the one the cursor stands
\* at there is another, or none was read yet (600-782 advance the cursor at some
\* fifteen places, 675 and 720 before they know the character).
NeverPastNul == cur > Len(fmt) => fmt = <<>> \/ fmt[Len(fmt)] # NUL

\* What the parser hands on is what the engine assumes of a format
\* (FormatAssumption of NpfVpprintf): numbers that are not negative, and nothing
\* that the build left out.
FitsBuild(s) ==
  /\ s.field_width_opt = NONE => s.field_width >= 0
  /\ s.prec >= 0
  /\ ~build["width"] => s.field_width_opt = NONE /\ ~s.left_justified /\ ~s.leading_zero_pad
  /\ ~build["prec"] => s.prec_opt = NONE
  /\ ~build["alt"] => ~s.alt_form
  /\ ~build["binary"] => s.conv_spec # "BINARY"
  /\ ~build["float"] => s.conv_spec \notin FloatConvs /\ s.length_modifier # "L"
  /\ ~build["writeback"] => s.conv_spec # "WRITEBACK"
  /\ ~build["small"] => s.length_modifier \notin {"h", "hh"}
  /\ ~build["large"] => s.length_modifier \notin {"ll", "j", "z", "t"}
HandsOnParsable == \A k \in 1..Len(items) : items[k].parsed => FitsBuild(items[k].spec)

\* Every format is walked to its NUL.
WalksToEnd == <>(pc = "done")
=============================================================================
