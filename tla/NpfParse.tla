------------------------------ MODULE NpfParse ------------------------------
(***************************************************************************)
(* The walk over a format string: the fetch loop of npf_vpprintf and the   *)
(* parser it calls at each '%', a step per character read.  A text that    *)
(* does not parse is printed as it stands, from its '%' on.                *)
(*                                                                         *)
(* The caller's format is fixed character by character, each when it is    *)
(* first read, and ends with the NUL.  Nothing may be read after that.     *)
(*                                                                         *)
(* One fs serves the whole walk: a text that does not parse leaves in it   *)
(* what was stored before the failure.                                     *)
(***************************************************************************)
EXTENDS NpfFormat, Sequences

CONSTANTS
  Builds,      \* the configurations: [Options -> BOOLEAN]
  LeastMax,    \* INT_LEASTn_MAX, for n of 8, 16, 32, 64
  FastMax,     \* INT_FASTn_MAX
  FmtNumBig,   \* the least n for which NPF_FMT_NUM_BIG(n) is true
  Chars,       \* the characters of formats
  Fresh,       \* bound: at each place of the walk, those that may be first read there
  MaxLen,      \* bound: characters of a format, the NUL not counted
  Garbage      \* what the uninitialised fs may hold in an int member

Options == {"width", "prec", "alt", "small", "large", "float", "hex", "sci",
            "shortest", "binary", "writeback", "fixed"}

\* The combinations nanoprintf.h 184-203 lets through.
ASSUME BuildsAssumption ==
  /\ Builds \subseteq [Options -> BOOLEAN]
  /\ \A b \in Builds : /\ b["fixed"] => b["small"]
                       /\ b["hex"] \/ b["sci"] \/ b["shortest"] => b["float"]

ASSUME WidthsAssumption ==
  /\ TMax \in [IntTypes -> Nat]
  /\ LeastMax \in [{8, 16, 32, 64} -> Nat] /\ FastMax \in [{8, 16, 32, 64} -> Nat]
  /\ FmtNumBig \in Nat

Places == {"fetch", "flags", "width", "widthnum", "dot", "prec", "precnum", "lenmod",
           "twice", "fast", "bits", "confirm", "conv", "done"}

ASSUME CharsAssumption ==
  /\ "%" \in Chars /\ NUL \notin Chars
  /\ Fresh \in [Places -> SUBSET Chars]
  /\ MaxLen \in Nat /\ Garbage \subseteq Int

VARIABLES
  build,    \* the configuration
  fmt,      \* the format, as far as it has been read
  pc,       \* where the walk is
  cur,      \* index of the next character
  start,    \* index of the '%' of the specification being parsed
  num,      \* npf_fmt_num's accumulator
  fast,     \* 'wf' rather than 'w'
  second,   \* d2: the second digit of the width after 'w'
  fs,       \* the one npf_format_spec_t
  items     \* history: what the walk has handed on, in order

vars == <<build, fmt, pc, cur, start, num, fast, second, fs, items>>

-----------------------------------------------------------------------------
(* Tables. *)

DigitVals == [d \in {"0", "1", "2", "3", "4", "5", "6", "7", "8", "9"} |->
  CASE d = "0" -> 0 [] d = "1" -> 1 [] d = "2" -> 2 [] d = "3" -> 3 [] d = "4" -> 4
    [] d = "5" -> 5 [] d = "6" -> 6 [] d = "7" -> 7 [] d = "8" -> 8 [] OTHER -> 9]
DigitSet == DOMAIN DigitVals

\* lookup[] after the fold to lower case, and '%'.  "NONE" is the table's zero.
ConvOf(c) ==
  CASE c = "%" -> "PERCENT"
    [] c \in {"c", "C"} -> "CHAR"
    [] c \in {"s", "S"} -> "STRING"
    [] c \in {"d", "D", "i", "I"} -> "SIGNED_INT"
    [] c \in {"o", "O"} -> "OCTAL"
    [] c \in {"u", "U"} -> "UNSIGNED_INT"
    [] c \in {"x", "X"} -> "HEX_INT"
    [] c \in {"p", "P"} -> "POINTER"
    [] c \in {"b", "B"} /\ build["binary"] -> "BINARY"
    [] c \in {"n", "N"} /\ build["writeback"] -> "WRITEBACK"
    [] c \in {"f", "F"} /\ build["float"] -> "FLOAT_DEC"
    [] c \in {"a", "A"} /\ build["hex"] -> "FLOAT_HEX"
    [] c \in {"e", "E"} /\ build["sci"] -> "FLOAT_SCI"
    [] c \in {"g", "G"} /\ build["shortest"] -> "FLOAT_SHORTEST"
    [] OTHER -> NONE

\* Bit 5 of the character: '%' has it too.
IsUpper(c) == c \in {"A", "B", "C", "D", "E", "F", "G", "I", "N", "O", "P", "S", "U", "X"}

\* NPF_LM_OF: the narrowest modifier whose type holds max.
Widest == IF build["large"] THEN "ll" ELSE "l"
LmOf(max) == CASE max <= TMax["CHAR"] -> "hh"
               [] max > TMax["CHAR"] /\ max <= TMax["SHORT"] -> "h"
               [] max > TMax["SHORT"] /\ max <= TMax["INT"] -> NONE
               [] max > TMax["INT"] /\ max <= TMax["LONG"] -> "l"
               [] OTHER -> Widest
LmOfW(n) == LmOf(IF fast THEN FastMax[n] ELSE LeastMax[n])

\* NPF_W_BITS_MAX is 64: some modifier of the build carries 64 bits.
Has64 == build["large"] \/ (LeastMax[64] <= TMax["LONG"] /\ FastMax[64] <= TMax["LONG"])

-----------------------------------------------------------------------------
(* Reading. *)

\* The walk reads the character at cur, and it is c.
Reads(c) ==
  \/ cur <= Len(fmt) /\ fmt[cur] = c /\ UNCHANGED fmt
  \/ /\ cur > Len(fmt)
     /\ c = NUL \/ (c \in Fresh[pc] /\ Len(fmt) < MaxLen)
     /\ fmt' = Append(fmt, c)

Advance == cur' = cur + 1
Goto(l) == pc' = l

\* The characters a step of the parser tells apart.
Readable == Chars \cup {NUL}

Init ==
  /\ build \in Builds
  /\ fmt = <<>> /\ pc = "fetch" /\ cur = 1 /\ start = 1
  /\ num = 0 /\ fast = FALSE /\ second = NUL
  /\ \E g \in Garbage :
       fs = [field_width |-> IF build["width"] THEN g ELSE 0,
             field_width_opt |-> IF build["width"] THEN STAR ELSE NONE,
             left_justified |-> build["width"], leading_zero_pad |-> build["width"],
             prec |-> IF build["prec"] THEN g ELSE 0,
             prec_opt |-> IF build["prec"] THEN STAR ELSE NONE,
             prepend |-> "+", alt_form |-> build["alt"], case_adjust |-> 0,
             length_modifier |-> "l", conv_spec |-> "PERCENT"]
  /\ items = <<>>

Empty == [field_width |-> 0, field_width_opt |-> NONE, left_justified |-> FALSE,
          leading_zero_pad |-> FALSE, prec |-> 0, prec_opt |-> NONE, prepend |-> NUL,
          alt_form |-> FALSE, case_adjust |-> 0, length_modifier |-> NONE,
          conv_spec |-> "PERCENT"]
Verbatim(at) == [at |-> at, len |-> 1, parsed |-> FALSE, spec |-> Empty]

\* A character outside any specification.
FetchChar(c) ==
  /\ pc = "fetch" /\ c \notin {"%", NUL} /\ Reads(c)
  /\ Advance
  /\ items' = Append(items, Verbatim(cur))
  /\ UNCHANGED <<build, pc, start, num, fast, second, fs>>

FetchEnd ==
  /\ pc = "fetch" /\ Reads(NUL)
  /\ Goto("done")
  /\ UNCHANGED <<build, cur, start, num, fast, second, fs, items>>

\* Mutant of Percent: the '#' of one specification is not cleared for the next.
PercentKeepsAlt ==
  /\ pc = "fetch" /\ Reads("%")
  /\ Goto("flags") /\ Advance
  /\ start' = cur
  /\ fs' = [fs EXCEPT !.left_justified = FALSE, !.leading_zero_pad = FALSE,
                      !.prepend = NUL]
  /\ UNCHANGED <<build, num, fast, second, items>>

\* '%': the flags are cleared, and only they.
Percent ==
  /\ pc = "fetch" /\ Reads("%")
  /\ Goto("flags") /\ Advance
  /\ start' = cur
  /\ fs' = [fs EXCEPT !.left_justified = FALSE, !.leading_zero_pad = FALSE,
                      !.prepend = NUL, !.alt_form = FALSE]
  /\ UNCHANGED <<build, num, fast, second, items>>

-----------------------------------------------------------------------------
(* npf_parse_format_spec_end. *)

IsFlag(c) == \/ build["width"] /\ c \in {"-", "0"}
             \/ c \in {"+", SPACE}
             \/ build["alt"] /\ c = "#"

\* '+' is not taken back by a later space.
Flag(c) ==
  /\ pc = "flags" /\ IsFlag(c) /\ Reads(c)
  /\ Advance
  /\ fs' = CASE c = "-" -> [fs EXCEPT !.left_justified = TRUE]
             [] c = "0" -> [fs EXCEPT !.leading_zero_pad = TRUE]
             [] c = "#" -> [fs EXCEPT !.alt_form = TRUE]
             [] OTHER -> IF fs.prepend = "+" THEN fs ELSE [fs EXCEPT !.prepend = c]
  /\ UNCHANGED <<build, pc, start, num, fast, second, items>>

FlagsEnd(c) ==
  /\ pc = "flags" /\ ~IsFlag(c) /\ Reads(c)
  /\ Goto(IF build["width"] THEN "width" ELSE "dot")
  /\ UNCHANGED <<build, cur, start, num, fast, second, fs, items>>

\* A star, or the digits of npf_fmt_num.  With a star field_width keeps whatever
\* it held.
Width(c) ==
  /\ pc = "width" /\ Reads(c)
  /\ fs' = [fs EXCEPT !.field_width_opt = IF c = "*" THEN STAR ELSE NONE]
  /\ IF c = "*" THEN Goto("dot") /\ Advance ELSE Goto("widthnum") /\ UNCHANGED cur
  /\ num' = 0
  /\ UNCHANGED <<build, start, fast, second, items>>

\* Mutant of NumDigit: the cursor stays on the digit.
NumDigitStays(c) ==
  /\ pc \in {"widthnum", "precnum"} /\ c \in DigitSet /\ Reads(c)
  /\ num' = IF num < FmtNumBig THEN num * 10 + DigitVals[c] ELSE num
  /\ UNCHANGED <<build, pc, cur, start, fast, second, fs, items>>

\* npf_fmt_num, for either number.
NumDigit(c) ==
  /\ pc \in {"widthnum", "precnum"} /\ c \in DigitSet /\ Reads(c)
  /\ Advance
  /\ num' = IF num < FmtNumBig THEN num * 10 + DigitVals[c] ELSE num
  /\ UNCHANGED <<build, pc, start, fast, second, fs, items>>

NumEnd(c) ==
  /\ pc \in {"widthnum", "precnum"} /\ c \notin DigitSet /\ Reads(c)
  /\ fs' = IF pc = "widthnum" THEN [fs EXCEPT !.field_width = num]
                              ELSE [fs EXCEPT !.prec = num]
  /\ Goto(IF pc = "widthnum" THEN "dot" ELSE "lenmod")
  /\ UNCHANGED <<build, cur, start, num, fast, second, items>>

\* Mutant of Dot: a precision is parsed in every build.
DotAlways(c) ==
  /\ pc = "dot" /\ Reads(c)
  /\ fs' = [fs EXCEPT !.prec = 0, !.prec_opt = NONE]
  /\ IF c = "." THEN Goto("prec") /\ Advance ELSE Goto("lenmod") /\ UNCHANGED cur
  /\ UNCHANGED <<build, start, num, fast, second, items>>

\* The precision is cleared here, in a build that has one.
Dot(c) ==
  /\ pc = "dot" /\ Reads(c)
  /\ fs' = IF build["prec"] THEN [fs EXCEPT !.prec = 0, !.prec_opt = NONE] ELSE fs
  /\ IF build["prec"] /\ c = "." THEN Goto("prec") /\ Advance
                                 ELSE Goto("lenmod") /\ UNCHANGED cur
  /\ UNCHANGED <<build, start, num, fast, second, items>>

\* A '-' makes the precision as if omitted; its digits are read all the same.
Prec(c) ==
  /\ pc = "prec" /\ Reads(c)
  /\ fs' = [fs EXCEPT !.prec_opt = CASE c = "*" -> STAR [] c = "-" -> @ [] OTHER -> LITERAL]
  /\ Goto(IF c = "*" THEN "lenmod" ELSE "precnum")
  /\ cur' = IF c \in {"*", "-"} THEN cur + 1 ELSE cur
  /\ num' = 0
  /\ UNCHANGED <<build, start, fast, second, items>>

SetMod(m) == fs' = [fs EXCEPT !.length_modifier = m]

LenMod(c) ==
  /\ pc = "lenmod" /\ Reads(c)
  /\ \/ /\ c = "w" /\ build["fixed"]
        /\ Goto("fast") /\ Advance /\ SetMod(NONE)
     \/ /\ c = "h" /\ build["small"]
        /\ Goto("twice") /\ Advance /\ SetMod("h")
     \/ /\ c = "l"
        /\ Goto(IF build["large"] THEN "twice" ELSE "conv") /\ Advance /\ SetMod("l")
     \/ /\ \/ c = "L" /\ build["float"]
           \/ c \in {"j", "z", "t"} /\ build["large"]
        /\ Goto("conv") /\ Advance /\ SetMod(c)
     \/ /\ ~ \/ c = "w" /\ build["fixed"]
             \/ c = "h" /\ build["small"]
             \/ c = "l"
             \/ c = "L" /\ build["float"]
             \/ c \in {"j", "z", "t"} /\ build["large"]
        /\ Goto("conv") /\ SetMod(NONE) /\ UNCHANGED cur
  /\ UNCHANGED <<build, start, num, fast, second, items>>

\* Mutant of Twice: the cursor moves on before the character is compared.
TwiceAdvances(c) ==
  /\ pc = "twice" /\ Reads(c)
  /\ Advance
  /\ IF c = fs.length_modifier THEN SetMod(IF c = "h" THEN "hh" ELSE "ll") ELSE UNCHANGED fs
  /\ Goto("conv")
  /\ UNCHANGED <<build, start, num, fast, second, items>>

\* 'h' or 'l' a second time.
Twice(c) ==
  /\ pc = "twice" /\ Reads(c)
  /\ IF c = fs.length_modifier
     THEN Advance /\ SetMod(IF c = "h" THEN "hh" ELSE "ll")
     ELSE UNCHANGED <<cur, fs>>
  /\ Goto("conv")
  /\ UNCHANGED <<build, start, num, fast, second, items>>

Fast(c) ==
  /\ pc = "fast" /\ Reads(c)
  /\ fast' = (c = "f")
  /\ cur' = IF c = "f" THEN cur + 1 ELSE cur
  /\ Goto("bits")
  /\ UNCHANGED <<build, start, num, second, fs, items>>

\* Mutant of Fail: the walk goes on where the parser stopped.
FailSkips ==
  /\ Goto("fetch")
  /\ cur' = cur
  /\ items' = Append(items, Verbatim(start))

\* A null return: the '%' is printed and the walk goes on behind it.
Fail ==
  /\ Goto("fetch")
  /\ cur' = start + 1
  /\ items' = Append(items, Verbatim(start))

\* The first digit tells the width.
Bits(c) ==
  /\ pc = "bits" /\ Reads(c)
  /\ \/ /\ c = "8" /\ SetMod(LmOfW(8))
        /\ Goto("conv") /\ Advance /\ UNCHANGED <<second, items>>
     \/ /\ c \in {"1", "3"} \/ (c = "6" /\ Has64)
        /\ SetMod(LmOfW(CASE c = "1" -> 16 [] c = "3" -> 32 [] OTHER -> 64))
        /\ second' = (CASE c = "1" -> "6" [] c = "3" -> "2" [] OTHER -> "4")
        /\ Goto("confirm") /\ Advance /\ UNCHANGED items
     \/ /\ c \notin {"8", "1", "3"} /\ ~(c = "6" /\ Has64)
        /\ Fail /\ UNCHANGED <<fs, second>>
  /\ UNCHANGED <<build, start, num, fast>>

\* The second only has to be confirmed.
Confirm(c) ==
  /\ pc = "confirm" /\ Reads(c)
  /\ IF c = second THEN Goto("conv") /\ Advance /\ UNCHANGED items ELSE Fail
  /\ UNCHANGED <<build, start, num, fast, second, fs>>

Conv(c) ==
  /\ pc = "conv" /\ Reads(c)
  /\ IF ConvOf(c) = NONE
     THEN Fail /\ UNCHANGED fs
     ELSE /\ fs' = [fs EXCEPT !.conv_spec = ConvOf(c),
                              !.case_adjust = IF IsUpper(c) THEN 0 ELSE 32]
          /\ items' = Append(items, [at |-> start, len |-> cur + 1 - start,
                                     parsed |-> TRUE, spec |-> fs'])
          /\ Goto("fetch") /\ Advance
  /\ UNCHANGED <<build, start, num, fast, second>>

Done == pc = "done" /\ UNCHANGED vars

Fetch(c) == FetchChar(c) \/ FetchEnd \/ Percent
Parse(c) == \/ Flag(c) \/ FlagsEnd(c) \/ Width(c) \/ NumDigit(c) \/ NumEnd(c)
            \/ Dot(c) \/ Prec(c) \/ LenMod(c) \/ Twice(c) \/ Fast(c)
            \/ Bits(c) \/ Confirm(c) \/ Conv(c)

Next == (\E c \in Readable : Fetch(c) \/ Parse(c)) \/ Done

Spec == Init /\ [][Next]_vars

\* Sequential code that waits for nothing.
FairSpec == Spec /\ WF_vars(Next)
=============================================================================
