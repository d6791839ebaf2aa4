---------------------------- MODULE NpfVpprintf ----------------------------
(***************************************************************************)
(* The formatting engine: one call of npf_vpprintf, from the first         *)
(* character of the format to the returned count.  Each step is a step of  *)
(* the loop body; each call of the user's putc callback is a step of its   *)
(* own, recorded in out.                                                   *)
(*                                                                         *)
(* The format string and the variadic arguments are the environment's: the *)
(* next item of the format and the arguments that go with it are chosen    *)
(* when the engine reaches them.  An item is a character that is printed   *)
(* as it stands (an ordinary one, or one that starts no valid              *)
(* specification) or a parsed specification.                               *)
(*                                                                         *)
(* Every C type is described by its largest signed value, as in limits.h,  *)
(* so that a small instance keeps the relations between the types.         *)
(***************************************************************************)
EXTENDS NpfFormat, Sequences

CONSTANTS
  UseFieldWidth, UsePrecision, UseAltForm, UseBinary,   \* NANOPRINTF_USE_...
  UseWriteback, UseFloat, UseSmall, UseLarge,
  CBUF,        \* NPF_CBUF, cells of the conversion buffer
  FmtNumMax,   \* NPF_FMT_NUM_MAX, the ceiling of a width or a precision
  PtrDigits,   \* hexadecimal digits of a pointer, the default precision of %p
  HexPrec,     \* hexadecimal digits of a double's mantissa
  Specs,       \* the parsed specifications a format may hold
  ArgsOf,      \* for each of them, the argument lists a caller may pass
  Chars,       \* the characters
  Literals,    \* those a format may print as they stand
  Heap,        \* the strings: address -> characters and whether a NUL ends them
  FloatTexts,  \* reversed texts the float conversions may leave in cbuf
  Garbage,     \* what the uninitialised fs may hold in an int member
  MaxItems     \* bound: items in one format

ArgTypes == IntTypes \cup {"PTR", "DOUBLE", "LDOUBLE"}
Arg == [type: ArgTypes, v: Int]

IntMax == TMax["INT"]

ASSUME ConfigAssumption ==
  /\ {UseFieldWidth, UsePrecision, UseAltForm, UseBinary,
      UseWriteback, UseFloat, UseSmall, UseLarge} \subseteq BOOLEAN
  /\ CBUF \in Nat \ {0} /\ FmtNumMax \in Nat
  /\ PtrDigits \in Nat /\ HexPrec \in Nat
  /\ MaxItems \in Nat

ASSUME TypesAssumption ==
  /\ TMax \in [IntTypes \cup {"PTR"} -> Nat]
  /\ TMax["CHAR"] <= TMax["SHORT"] /\ TMax["SHORT"] <= TMax["INT"]
  /\ TMax["INT"] <= TMax["LONG"] /\ TMax["LONG"] <= TMax["LL"]
  /\ \A t \in IntTypes \cup {"PTR"} : TMax[t] <= TMax["INTMAX"]

\* nanoprintf.h 256-264: the cap leaves twice itself plus a conversion buffer
\* inside int.
ASSUME CapAssumption == 2 * FmtNumMax + CBUF <= IntMax

\* What the parser can return: numbers that are not negative, and no star where
\* the build has no widths or no precisions.
ASSUME FormatAssumption ==
  /\ Specs \subseteq FormatSpec
  /\ \A s \in Specs : /\ s.field_width >= 0 /\ s.prec >= 0
                      /\ ~UseFieldWidth => s.field_width_opt = NONE
                      /\ ~UsePrecision => s.prec_opt = NONE
                      /\ ~UseAltForm => ~s.alt_form
                      /\ ~UseBinary => s.conv_spec # "BINARY"
                      /\ ~UseFloat => s.conv_spec \notin FloatConvs
                      /\ ~UseWriteback => s.conv_spec # "WRITEBACK"
                      /\ ~UseSmall => s.length_modifier \notin {"h", "hh"}
                      /\ ~UseLarge => s.length_modifier \notin {"ll", "j", "z", "t"}
  /\ Literals \subseteq Chars
  /\ Garbage \subseteq Int

ASSUME DataAssumption ==
  /\ {"0","1","2","3","4","5","6","7","8","9","A","B","C","D","E","F","a","b","c","d",
      "e","f","x","X","-","+",SPACE,"%",NUL} \subseteq Chars
  /\ \A a \in DOMAIN Heap : /\ Heap[a].chars \in Seq(Chars)
                            /\ Heap[a].term \in BOOLEAN
  /\ \A t \in FloatTexts : /\ t.rev \in Seq(Chars) /\ t.text \in BOOLEAN
                           /\ Len(t.rev) \in 1..CBUF

VARIABLES
  pc,          \* where the loop body is
  fs,          \* npf_format_spec_t fs: one struct for the whole call
  args,        \* va_list: the arguments not yet taken
  npf_n,       \* the tally the call returns
  cbuf,        \* what cbuf points at, as far as it has been written
  cbuf_len, sign_c, need_0x, val, base, v32,
  zero, pad_c, prec_pad, field_pad, spec_len,
  i,           \* index of the string loop
  out,         \* history: the characters handed to pc, in order
  items,       \* history: items of the format consumed
  job,         \* history: the current specification as the format gives it
  wb           \* history: the last %n store

numVars  == <<val, base, v32>>
textVars == <<cbuf, cbuf_len, sign_c, need_0x, zero>>
padVars  == <<pad_c, prec_pad, field_pad, spec_len, i>>
ghosts   == <<items, job, wb>>
vars == <<pc, fs, args, npf_n, numVars, textVars, padVars, out, ghosts>>

-----------------------------------------------------------------------------
(* C arithmetic on the scaled types. *)

Cast(x, t) == LET m == TMax[t] + 1 IN ((x + m) % (2 * m)) - m
UCast(x, t) == x % (2 * (TMax[t] + 1))

\* Signed addition that overflows: undefined in C, two's complement in a build.
IntAdd(x, y) == LET s == x + y IN IF s > IntMax THEN s - 2 * (IntMax + 1) ELSE s

MinOf(x, y) == IF x <= y THEN x ELSE y
MaxOf(x, y) == IF x >= y THEN x ELSE y

\* npf_int_t is as wide as the widest integer a specifier can name.
NpfIntMax == IF UseLarge THEN TMax["INTMAX"] ELSE MaxOf(TMax["LONG"], TMax["PTR"])
ToNpfUint(x) == x % (2 * (NpfIntMax + 1))

Decimals == <<"0", "1", "2", "3", "4", "5", "6", "7", "8", "9">>
Uppers == <<"A", "B", "C", "D", "E", "F">>
Lowers == <<"a", "b", "c", "d", "e", "f">>
DigitChar(d, adj) == IF d < 10 THEN Decimals[d + 1]
                     ELSE IF adj = 0 THEN Uppers[d - 9] ELSE Lowers[d - 9]
Letter(upper, lower) == IF fs.case_adjust = 0 THEN upper ELSE lower

-----------------------------------------------------------------------------
(* The type each va_arg names.  'z' and 't' are folded into int or long      *)
(* when those have the same width.                                           *)

LongIsInt == TMax["LONG"] = TMax["INT"]

\* Mutant of LM_Z: every platform's size_t is taken for a long, wider or not.
LM_Z_AsLong == IF TMax["SIZE"] = TMax["INT"] THEN "INT" ELSE "LONG"

LM_Z == IF TMax["SIZE"] = TMax["INT"] THEN "INT"
        ELSE IF TMax["SIZE"] = TMax["LONG"] /\ ~LongIsInt THEN "LONG" ELSE "SIZE"
LM_T == IF TMax["PTRDIFF"] = TMax["INT"] THEN "INT"
        ELSE IF TMax["PTRDIFF"] = TMax["LONG"] /\ ~LongIsInt THEN "LONG" ELSE "PTRDIFF"

ExtractType(mod) ==
  CASE mod = "l" /\ ~LongIsInt -> "LONG"
    [] mod = "ll" /\ UseLarge -> "LL"
    [] mod = "j"  /\ UseLarge -> "INTMAX"
    [] mod = "z"  /\ UseLarge -> LM_Z
    [] mod = "t"  /\ UseLarge -> LM_T
    [] OTHER -> "INT"

\* The narrowing the int path applies after va_arg.
SignedSmall(x) ==
  CASE UseSmall /\ fs.length_modifier = "h"  -> Cast(x, "SHORT")
    [] UseSmall /\ fs.length_modifier = "hh" -> Cast(x, "CHAR")
    [] OTHER -> x
UnsignedSmall(x) ==
  CASE UseSmall /\ fs.length_modifier = "h"  -> UCast(x, "SHORT")
    [] UseSmall /\ fs.length_modifier = "hh" -> UCast(x, "CHAR")
    [] OTHER -> x

\* The type va_arg names for the value of a conversion.
ReadType(conv, mod) ==
  CASE conv \in FloatConvs -> IF mod = "L" THEN "LDOUBLE" ELSE "DOUBLE"
    [] conv \in IntConvs -> ExtractType(mod)
    [] conv \in {"POINTER", "STRING", "WRITEBACK"} -> "PTR"
    [] OTHER -> "INT"
VaArgType == ReadType(fs.conv_spec, fs.length_modifier)

\* Two types va_arg may take for each other: the same, or integers as wide.
SameRep(t, u) == \/ t = u
                 \/ /\ {t, u} \subseteq IntTypes
                    /\ TMax[t] = TMax[u]

\* What C 7.21.6.1 has the caller pass: an int for each star, then the value, of
\* the type the length modifier names, promoted.
PassType(conv, mod) ==
  CASE conv \in FloatConvs -> IF mod = "L" THEN "LDOUBLE" ELSE "DOUBLE"
    [] conv \in {"POINTER", "STRING", "WRITEBACK"} -> "PTR"
    [] OTHER -> IF conv = "CHAR" \/ mod \in {"h", "hh"} THEN "INT" ELSE TypeOf(mod)
CallerType(s) == PassType(s.conv_spec, s.length_modifier)

StarsOf(s) == (IF s.field_width_opt = STAR THEN 1 ELSE 0)
                + (IF s.prec_opt = STAR THEN 1 ELSE 0)
ArgCount(s) == StarsOf(s) + (IF s.conv_spec = "PERCENT" THEN 0 ELSE 1)

ASSUME ArgsAssumption ==
  /\ DOMAIN ArgsOf = Specs
  /\ \A s \in Specs : \A a \in ArgsOf[s] :
       /\ a \in Seq(Arg) /\ Len(a) = ArgCount(s)
       /\ \A k \in 1..StarsOf(s) : a[k].type = "INT"
       /\ s.conv_spec # "PERCENT" => a[Len(a)].type = CallerType(s)
       /\ s.conv_spec = "STRING" => a[Len(a)].v \in {0} \cup DOMAIN Heap

TakeArg == /\ args # <<>>
           /\ args' = Tail(args)
ArgVal == Head(args).v

Put(c) == out' = Append(out, c)

-----------------------------------------------------------------------------
(* Fetching an item of the format. *)

Init ==
  /\ pc = "fetch" /\ npf_n = 0 /\ out = <<>> /\ args = <<>>
  /\ \E g \in Garbage :
       fs = [field_width |-> g, field_width_opt |-> NONE,
             left_justified |-> FALSE, leading_zero_pad |-> FALSE,
             prec |-> g, prec_opt |-> NONE, prepend |-> NUL, alt_form |-> FALSE,
             case_adjust |-> 0, length_modifier |-> NONE, conv_spec |-> "PERCENT"]
  /\ val = 0 /\ base = 10 /\ v32 = 0
  /\ cbuf = <<>> /\ cbuf_len = 0 /\ sign_c = NUL /\ need_0x = NUL /\ zero = FALSE
  /\ pad_c = NUL /\ prec_pad = 0 /\ field_pad = 0 /\ spec_len = 0 /\ i = 0
  /\ items = 0
  /\ job = [at |-> 0, spec |-> fs, args |-> <<>>]
  /\ wb = [at |-> 0, mod |-> NONE, type |-> "INT", v |-> 0]

\* A character outside any specification: NPF_PUTC, the only tally by one.
Literal(c) ==
  /\ pc = "fetch"
  /\ Put(c) /\ npf_n' = IntAdd(npf_n, 1)
  /\ items' = items + 1
  /\ UNCHANGED <<pc, fs, args, numVars, textVars, padVars, job, wb>>

\* Mutant of Specification: the '-' flag of one specification is not cleared for
\* the next.
SpecificationKeepsMinus(s, a) ==
  /\ pc = "fetch"
  /\ fs' = [s EXCEPT !.field_width = IF s.field_width_opt = STAR
                                      THEN fs.field_width ELSE @,
                     !.left_justified = @ \/ fs.left_justified]
  /\ args' = args \o a
  /\ pc' = "width"
  /\ items' = items + 1
  /\ job' = [at |-> Len(out), spec |-> s, args |-> a]
  /\ UNCHANGED <<npf_n, numVars, textVars, padVars, out, wb>>

\* A specification that parsed.  A '*' width leaves fs.field_width as it was.
Specification(s, a) ==
  /\ pc = "fetch"
  /\ fs' = [s EXCEPT !.field_width = IF s.field_width_opt = STAR
                                      THEN fs.field_width ELSE @]
  /\ args' = args \o a
  /\ pc' = "width"
  /\ items' = items + 1
  /\ job' = [at |-> Len(out), spec |-> s, args |-> a]
  /\ UNCHANGED <<npf_n, numVars, textVars, padVars, out, wb>>

\* The terminating NUL.
Return ==
  /\ pc = "fetch"
  /\ pc' = "done"
  /\ UNCHANGED <<fs, args, npf_n, numVars, textVars, padVars, out, ghosts>>

-----------------------------------------------------------------------------
(* Star arguments, the cap, and the default precision. *)

\* The magnitude of a star width is taken in unsigned; only that of INT_MIN
\* does not fit back into int.
StarWidth(w) ==
  LET mag == IF w < 0 THEN -w ELSE w
  IN IF mag > IntMax THEN FmtNumMax ELSE mag

ResolveWidth ==
  /\ pc = "width"
  /\ IF UseFieldWidth /\ fs.field_width_opt = STAR
     THEN /\ TakeArg
          /\ fs' = [fs EXCEPT !.field_width = MinOf(StarWidth(ArgVal), FmtNumMax),
                              !.left_justified = @ \/ ArgVal < 0]
     ELSE /\ fs' = IF UseFieldWidth
                   THEN [fs EXCEPT !.field_width = MinOf(@, FmtNumMax)] ELSE fs
          /\ UNCHANGED args
  /\ pc' = "prec"
  /\ UNCHANGED <<npf_n, numVars, textVars, padVars, out, ghosts>>

\* Mutant of ResolvePrec: the cap is put on the literal precisions only.
ResolvePrecUncapped ==
  /\ pc = "prec"
  /\ IF UsePrecision /\ fs.prec_opt = STAR
     THEN /\ TakeArg
          /\ fs' = [fs EXCEPT !.prec = ArgVal,
                              !.prec_opt = IF ArgVal < 0 THEN NONE ELSE @]
     ELSE /\ fs' = IF UsePrecision
                   THEN [fs EXCEPT !.prec = MinOf(@, FmtNumMax)] ELSE fs
          /\ UNCHANGED args
  /\ pc' = "default"
  /\ UNCHANGED <<npf_n, numVars, textVars, padVars, out, ghosts>>

ResolvePrec ==
  /\ pc = "prec"
  /\ IF UsePrecision /\ fs.prec_opt = STAR
     THEN /\ TakeArg
          /\ fs' = [fs EXCEPT !.prec = MinOf(ArgVal, FmtNumMax),
                              !.prec_opt = IF ArgVal < 0 THEN NONE ELSE @]
     ELSE /\ fs' = IF UsePrecision
                   THEN [fs EXCEPT !.prec = MinOf(@, FmtNumMax)] ELSE fs
          /\ UNCHANGED args
  /\ pc' = "default"
  /\ UNCHANGED <<npf_n, numVars, textVars, padVars, out, ghosts>>

DefaultPrec ==
  CASE fs.conv_spec = "POINTER"  -> PtrDigits
    [] fs.conv_spec = "FLOAT_HEX" -> HexPrec
    [] fs.conv_spec \in FloatConvs \ {"FLOAT_HEX"} -> 6
    [] OTHER -> 0

\* d i o u x X, but not b, lose the '0' flag to a precision.  The locals of the
\* iteration start here.
Resolve ==
  /\ pc = "default"
  /\ fs' = [fs EXCEPT
       !.prec = IF UsePrecision /\ fs.prec_opt = NONE THEN DefaultPrec ELSE @,
       !.leading_zero_pad = @ /\ ~ (/\ UsePrecision /\ UseFieldWidth
                                    /\ fs.prec_opt # NONE
                                    /\ fs.conv_spec \in IntConvs \ {"BINARY"})]
  /\ cbuf' = <<>> /\ cbuf_len' = 0 /\ sign_c' = NUL /\ need_0x' = NUL /\ zero' = FALSE
  /\ pad_c' = NUL /\ prec_pad' = 0 /\ field_pad' = 0 /\ spec_len' = 0 /\ i' = 0
  /\ pc' = "convert"
  /\ UNCHANGED <<args, npf_n, numVars, out, ghosts>>

-----------------------------------------------------------------------------
(* Taking the value and turning it into text. *)

ConvertSigned ==
  /\ pc = "convert" /\ fs.conv_spec = "SIGNED_INT"
  /\ TakeArg
  /\ LET sval == SignedSmall(Cast(ArgVal, VaArgType))
     IN /\ sign_c' = IF sval < 0 THEN "-" ELSE fs.prepend
        /\ val' = ToNpfUint(IF sval < 0 THEN 0 - ToNpfUint(sval) ELSE sval)
  /\ base' = 10
  /\ pc' = "integer"
  /\ UNCHANGED <<fs, npf_n, v32, cbuf, cbuf_len, need_0x, zero, padVars, out, ghosts>>

ConvertUnsigned ==
  /\ pc = "convert" /\ fs.conv_spec \in (IntConvs \cup {"POINTER"}) \ {"SIGNED_INT"}
  /\ TakeArg
  /\ val' = ToNpfUint(IF fs.conv_spec = "POINTER" THEN ArgVal
                      ELSE UnsignedSmall(UCast(ArgVal, VaArgType)))
  /\ base' = CASE fs.conv_spec \in {"POINTER", "HEX_INT"} -> 16
               [] fs.conv_spec = "OCTAL" -> 8
               [] OTHER -> 10
  /\ pc' = "integer"
  /\ UNCHANGED <<fs, npf_n, v32, textVars, padVars, out, ghosts>>

ConvertString ==
  /\ pc = "convert" /\ fs.conv_spec = "STRING"
  /\ TakeArg
  /\ cbuf' = IF ArgVal = 0 THEN <<>> ELSE Heap[ArgVal].chars
  /\ pc' = IF ArgVal = 0 THEN "layout" ELSE "scan"
  /\ UNCHANGED <<fs, npf_n, numVars, cbuf_len, sign_c, need_0x, zero,
                 padVars, out, ghosts>>

\* Mutant of ScanMore: the precision bounds the characters read before the last.
ScanMoreByOne == \/ ~UsePrecision
                 \/ fs.prec_opt = NONE
                 \/ cbuf_len <= fs.prec

\* The part of the loop condition evaluated before the string is read.
ScanMore == \/ ~UsePrecision
            \/ fs.prec_opt = NONE
            \/ cbuf_len < fs.prec

\* Mutant of Scan: the length is not advanced.
ScanStuck ==
  /\ pc = "scan"
  /\ IF ScanMore /\ cbuf_len < Len(cbuf)
     THEN UNCHANGED <<cbuf_len, pc>>
     ELSE pc' = "layout" /\ UNCHANGED cbuf_len
  /\ UNCHANGED <<fs, args, npf_n, numVars, cbuf, sign_c, need_0x, zero,
                 padVars, out, ghosts>>

Scan ==
  /\ pc = "scan"
  /\ IF ScanMore /\ cbuf_len < Len(cbuf)
     THEN cbuf_len' = cbuf_len + 1 /\ UNCHANGED pc
     ELSE pc' = "layout" /\ UNCHANGED cbuf_len
  /\ UNCHANGED <<fs, args, npf_n, numVars, cbuf, sign_c, need_0x, zero,
                 padVars, out, ghosts>>

CharOf(v) == IF UCast(v, "CHAR") = 0 THEN NUL ELSE "c"

ConvertChar ==
  /\ pc = "convert" /\ fs.conv_spec \in {"CHAR", "PERCENT"}
  /\ IF fs.conv_spec = "CHAR"
     THEN TakeArg /\ cbuf' = <<CharOf(ArgVal)>>
     ELSE UNCHANGED args /\ cbuf' = <<"%">>
  /\ cbuf_len' = 1
  /\ pc' = "layout"
  /\ UNCHANGED <<fs, npf_n, numVars, sign_c, need_0x, zero, padVars, out, ghosts>>

\* Mutant of WritebackType: 'hh' stores as 'h' does.
WritebackTypeNoChar ==
  CASE UseSmall /\ fs.length_modifier \in {"h", "hh"} -> "SHORT"
    [] fs.length_modifier = "l" -> "LONG"
    [] OTHER -> ExtractType(fs.length_modifier)

\* The object %n stores to.  'L' has no case and stores nothing.
WritebackType ==
  CASE UseSmall /\ fs.length_modifier = "h"  -> "SHORT"
    [] UseSmall /\ fs.length_modifier = "hh" -> "CHAR"
    [] fs.length_modifier = "l" -> "LONG"
    [] OTHER -> ExtractType(fs.length_modifier)

\* Mutant of ConvertWriteback: with 'L', which stores nothing, the pointer stays
\* in the list.
ConvertWritebackLeavesArg ==
  /\ UseWriteback
  /\ pc = "convert" /\ fs.conv_spec = "WRITEBACK"
  /\ IF fs.length_modifier = "L" THEN UNCHANGED args ELSE TakeArg
  /\ wb' = IF fs.length_modifier = "L" THEN wb
           ELSE [at |-> Len(out), mod |-> fs.length_modifier,
                 type |-> WritebackType, v |-> Cast(npf_n, WritebackType)]
  /\ pc' = "layout"
  /\ UNCHANGED <<fs, npf_n, numVars, textVars, padVars, out, items, job>>

ConvertWriteback ==
  /\ UseWriteback
  /\ pc = "convert" /\ fs.conv_spec = "WRITEBACK"
  /\ TakeArg
  /\ wb' = IF fs.length_modifier = "L" THEN wb
           ELSE [at |-> Len(out), mod |-> fs.length_modifier,
                 type |-> WritebackType, v |-> Cast(npf_n, WritebackType)]
  /\ pc' = "layout"
  /\ UNCHANGED <<fs, npf_n, numVars, textVars, padVars, out, items, job>>

\* The digits are those of the float conversions; here any text they may leave.
\* Text that is no number (inf, nan, err) comes back with a negated length.
ConvertFloat(t) ==
  /\ UseFloat
  /\ pc = "convert" /\ fs.conv_spec \in FloatConvs
  /\ TakeArg
  /\ sign_c' = IF ArgVal < 0 THEN "-" ELSE fs.prepend
  /\ cbuf' = t.rev /\ cbuf_len' = Len(t.rev)
  /\ need_0x' = IF fs.conv_spec = "FLOAT_HEX" /\ ~t.text THEN Letter("X", "x") ELSE NUL
  /\ fs' = [fs EXCEPT !.leading_zero_pad = @ /\ ~(UseFieldWidth /\ t.text)]
  /\ pc' = "layout"
  /\ UNCHANGED <<npf_n, numVars, zero, padVars, out, ghosts>>

\* A zero under an explicit precision of zero has no digits; '#' with 'o'
\* brings one back.
BlankResult == UsePrecision /\ val = 0 /\ fs.prec_opt # NONE /\ fs.prec = 0

Integer ==
  /\ pc = "integer"
  /\ zero' = (UsePrecision /\ UseFieldWidth /\ val = 0)
  /\ v32' = val
  /\ IF BlankResult
     THEN /\ fs' = IF UseAltForm /\ base = 8 /\ fs.alt_form
                   THEN [fs EXCEPT !.prec = 1] ELSE fs
          /\ pc' = "layout"
     ELSE /\ pc' = IF fs.conv_spec = "BINARY" THEN "binlen" ELSE "utoa"
          /\ UNCHANGED fs
  /\ UNCHANGED <<args, npf_n, val, base, cbuf, cbuf_len, sign_c, need_0x,
                 padVars, out, ghosts>>

\* npf_utoa_rev: least significant digit first.
UtoaDigit ==
  /\ pc = "utoa"
  /\ cbuf' = Append(cbuf, DigitChar(v32 % base, fs.case_adjust))
  /\ cbuf_len' = cbuf_len + 1
  /\ v32' = v32 \div base
  /\ pc' = IF v32' = 0 THEN "alt" ELSE "utoa"
  /\ UNCHANGED <<fs, args, npf_n, val, base, sign_c, need_0x, zero,
                 padVars, out, ghosts>>

\* npf_bin_len: a length of one for zero, else the bits up to the highest set.
BinLen ==
  /\ pc = "binlen"
  /\ cbuf_len' = cbuf_len + 1
  /\ v32' = v32 \div 2
  /\ pc' = IF v32' = 0 THEN "alt" ELSE "binlen"
  /\ UNCHANGED <<fs, args, npf_n, val, base, cbuf, sign_c, need_0x, zero,
                 padVars, out, ghosts>>

\* Mutant of AltForm: the "0x" of a hexadecimal number is put into cbuf.
AltFormInBuffer ==
  /\ pc = "alt"
  /\ IF UseAltForm /\ val # 0 /\ fs.alt_form /\ fs.conv_spec # "BINARY" /\ base # 10
     THEN LET alt == IF base = 8 THEN <<"0">> ELSE <<Letter("X", "x"), "0">>
          IN cbuf' = cbuf \o alt /\ cbuf_len' = cbuf_len + Len(alt)
     ELSE UNCHANGED <<cbuf, cbuf_len>>
  /\ need_0x' = IF UseAltForm /\ val # 0 /\ fs.alt_form /\ fs.conv_spec = "BINARY"
                THEN Letter("B", "b") ELSE need_0x
  /\ pc' = "layout"
  /\ UNCHANGED <<fs, args, npf_n, numVars, sign_c, zero, padVars, out, ghosts>>

AltForm ==
  /\ pc = "alt"
  /\ IF UseAltForm /\ val # 0 /\ fs.alt_form /\ base = 8
     THEN cbuf' = Append(cbuf, "0") /\ cbuf_len' = cbuf_len + 1
     ELSE UNCHANGED <<cbuf, cbuf_len>>
  /\ LET marked == UseAltForm /\ val # 0 /\ fs.alt_form
     IN need_0x' = CASE marked /\ base = 16 -> Letter("X", "x")
                     [] marked /\ base # 16 /\ fs.conv_spec = "BINARY" -> Letter("B", "b")
                     [] OTHER -> need_0x
  /\ pc' = "layout"
  /\ UNCHANGED <<fs, args, npf_n, numVars, sign_c, zero, padVars, out, ghosts>>

-----------------------------------------------------------------------------
(* Layout and emission. *)

\* Mutant of PadChar: '-' does not override '0'.
PadCharKeepsZero ==
  IF /\ fs.leading_zero_pad
     /\ ~(UsePrecision /\ fs.prec_opt # NONE /\ fs.prec = 0 /\ zero)
  THEN "0" ELSE SPACE

PadChar == IF /\ fs.leading_zero_pad /\ ~fs.left_justified
              /\ ~(UsePrecision /\ fs.prec_opt # NONE /\ fs.prec = 0 /\ zero)
           THEN "0" ELSE SPACE
PrecPad == IF UsePrecision /\ fs.conv_spec \notin FloatConvs \cup {"STRING"}
           THEN MaxOf(0, fs.prec - cbuf_len) ELSE 0
\* Mutant of BodyLen: the two characters of "0x" are counted as one.
BodyLenShortPrefix == cbuf_len + (IF sign_c = NUL THEN 0 ELSE 1)
                               + (IF need_0x = NUL THEN 0 ELSE 1) + PrecPad

BodyLen == cbuf_len + (IF sign_c = NUL THEN 0 ELSE 1)
                    + (IF need_0x = NUL THEN 0 ELSE 2) + PrecPad
FieldPad == IF UseFieldWidth THEN MaxOf(0, fs.field_width - BodyLen) ELSE 0

\* Mutants of Layout: the tally is taken before the field is padded; a build
\* without precisions has no early prefix.
LayoutUnpadded ==
  /\ pc = "layout"
  /\ pad_c' = IF UseFieldWidth THEN PadChar ELSE pad_c
  /\ spec_len' = BodyLen
  /\ LET fold == UseFieldWidth /\ UsePrecision /\ PadChar = "0"
     IN /\ prec_pad'  = IF fold THEN PrecPad + FieldPad ELSE PrecPad
        /\ field_pad' = IF fold THEN 0 ELSE FieldPad
  /\ pc' = IF UseFieldWidth /\ ~UsePrecision /\ PadChar = "0" THEN "early_sign" ELSE "padl"
  /\ UNCHANGED <<fs, args, npf_n, numVars, textVars, i, out, ghosts>>
LayoutNoEarlyPrefix ==
  /\ pc = "layout"
  /\ pad_c' = IF UseFieldWidth THEN PadChar ELSE pad_c
  /\ spec_len' = BodyLen + FieldPad
  /\ LET fold == UseFieldWidth /\ UsePrecision /\ PadChar = "0"
     IN /\ prec_pad'  = IF fold THEN PrecPad + FieldPad ELSE PrecPad
        /\ field_pad' = IF fold THEN 0 ELSE FieldPad
  /\ pc' = "padl"
  /\ UNCHANGED <<fs, args, npf_n, numVars, textVars, i, out, ghosts>>

Layout ==
  /\ pc = "layout"
  /\ pad_c' = IF UseFieldWidth THEN PadChar ELSE pad_c
  /\ spec_len' = BodyLen + FieldPad
  /\ LET fold == UseFieldWidth /\ UsePrecision /\ PadChar = "0"
     IN /\ prec_pad'  = IF fold THEN PrecPad + FieldPad ELSE PrecPad
        /\ field_pad' = IF fold THEN 0 ELSE FieldPad
  /\ pc' = IF UseFieldWidth /\ ~UsePrecision /\ PadChar = "0" THEN "early_sign" ELSE "padl"
  /\ UNCHANGED <<fs, args, npf_n, numVars, textVars, i, out, ghosts>>

\* early_sign, early_prefix and early_x are the early prefix of a build without
\* precisions; it clears what it prints, so that the later ones print nothing.
\* After the later ones neither is read again.
PutSign(at, next) ==
  /\ pc = at /\ pc' = next
  /\ IF sign_c = NUL THEN UNCHANGED out ELSE Put(sign_c)
  /\ sign_c' = NUL
  /\ UNCHANGED <<fs, args, npf_n, numVars, cbuf, cbuf_len, need_0x, zero,
                 padVars, ghosts>>

Put0(at, next, skip) ==
  /\ pc = at
  /\ IF need_0x = NUL THEN pc' = skip /\ UNCHANGED out
                     ELSE pc' = next /\ Put("0")
  /\ UNCHANGED <<fs, args, npf_n, numVars, textVars, padVars, ghosts>>

\* Mutant of PutX: the letter is not cleared once it is printed.
PutXKept(at, next) ==
  /\ pc = at /\ pc' = next
  /\ Put(need_0x)
  /\ UNCHANGED <<fs, args, npf_n, numVars, textVars, padVars, ghosts>>

PutX(at, next) ==
  /\ pc = at /\ pc' = next
  /\ Put(need_0x) /\ need_0x' = NUL
  /\ UNCHANGED <<fs, args, npf_n, numVars, cbuf, cbuf_len, sign_c, zero,
                 padVars, ghosts>>

\* while (field_pad-- > 0): leaves the counter below zero.
PadField(at, next) ==
  /\ pc = at
  /\ IF UseFieldWidth /\ (at = "padr" \/ ~fs.left_justified)
     THEN /\ field_pad' = field_pad - 1
          /\ IF field_pad > 0 THEN Put(pad_c) /\ UNCHANGED pc
                              ELSE pc' = next /\ UNCHANGED out
     ELSE pc' = next /\ UNCHANGED <<field_pad, out>>
  /\ UNCHANGED <<fs, args, npf_n, numVars, textVars, pad_c, prec_pad, spec_len, i,
                 ghosts>>

PadPrec ==
  /\ pc = "zeros"
  /\ IF UsePrecision /\ prec_pad > 0 THEN Put("0") /\ UNCHANGED pc
                                     ELSE pc' = "payload" /\ UNCHANGED out
  /\ prec_pad' = IF UsePrecision THEN prec_pad - 1 ELSE prec_pad
  /\ UNCHANGED <<fs, args, npf_n, numVars, textVars, pad_c, field_pad, spec_len, i,
                 ghosts>>

PayloadString ==
  /\ pc = "payload" /\ fs.conv_spec = "STRING"
  /\ IF i < cbuf_len
     THEN Put(cbuf[i + 1]) /\ i' = i + 1 /\ UNCHANGED pc
     ELSE pc' = "padr" /\ UNCHANGED <<out, i>>
  /\ UNCHANGED <<fs, args, npf_n, numVars, textVars, pad_c, prec_pad, field_pad,
                 spec_len, ghosts>>

PayloadBinary ==
  /\ pc = "payload" /\ fs.conv_spec = "BINARY"
  /\ IF cbuf_len > 0
     THEN /\ Put(DigitChar((val \div (2^(cbuf_len - 1))) % 2, 0))
          /\ cbuf_len' = cbuf_len - 1 /\ UNCHANGED pc
     ELSE pc' = "padr" /\ UNCHANGED <<out, cbuf_len>>
  /\ UNCHANGED <<fs, args, npf_n, numVars, cbuf, sign_c, need_0x, zero, padVars, ghosts>>

PayloadReversed ==
  /\ pc = "payload" /\ fs.conv_spec \notin {"STRING", "BINARY"}
  /\ cbuf_len' = cbuf_len - 1
  /\ IF cbuf_len > 0 THEN Put(cbuf[cbuf_len]) /\ UNCHANGED pc
                     ELSE pc' = "padr" /\ UNCHANGED out
  /\ UNCHANGED <<fs, args, npf_n, numVars, cbuf, sign_c, need_0x, zero, padVars, ghosts>>

\* The emissions above do not count; the whole conversion is added here.
Tally ==
  /\ pc = "tally"
  /\ npf_n' = IntAdd(npf_n, spec_len)
  /\ pc' = "fetch"
  /\ UNCHANGED <<fs, args, numVars, textVars, padVars, out, ghosts>>

Done == pc = "done" /\ UNCHANGED vars

Fetch == /\ pc = "fetch" /\ items < MaxItems
         /\ \/ \E c \in Literals : Literal(c)
            \/ \E s \in Specs : \E a \in ArgsOf[s] : Specification(s, a)

Convert == \/ ConvertSigned \/ ConvertUnsigned \/ ConvertString \/ Scan
           \/ ConvertChar \/ ConvertWriteback
           \/ \E t \in FloatTexts : ConvertFloat(t)
           \/ Integer \/ UtoaDigit \/ BinLen \/ AltForm

Emit == \/ PutSign("early_sign", "early_prefix")
        \/ Put0("early_prefix", "early_x", "padl") \/ PutX("early_x", "padl")
        \/ PadField("padl", "sign")
        \/ PutSign("sign", "prefix") \/ Put0("prefix", "x", "zeros") \/ PutX("x", "zeros")
        \/ PadPrec
        \/ PayloadString \/ PayloadBinary \/ PayloadReversed
        \/ PadField("padr", "tally")

Next == \/ Fetch \/ Return
        \/ ResolveWidth \/ ResolvePrec \/ Resolve
        \/ Convert \/ Layout \/ Emit \/ Tally
        \/ Done

Spec == Init /\ [][Next]_vars

\* The engine is sequential code with no blocking call: it keeps running.
FairSpec == Spec /\ WF_vars(Next)

-----------------------------------------------------------------------------
(* Properties of the engine's own state; those of its output are in NpfC11.  *)

Locations == {"fetch", "width", "prec", "default", "convert", "scan", "integer",
              "utoa", "binlen", "alt", "layout", "early_sign", "early_prefix",
              "early_x", "padl", "sign", "prefix", "x", "zeros", "payload", "padr", "tally", "done"}

\* Every variable has its type; what reaches the callback is always a character,
\* never a cell of cbuf that was not written.
TypeOK ==
  /\ pc \in Locations /\ fs \in FormatSpec /\ args \in Seq(Arg) /\ npf_n \in Int
  /\ val \in Nat /\ base \in {8, 10, 16} /\ v32 \in Nat
  /\ cbuf \in Seq(Chars) /\ cbuf_len \in Int
  /\ sign_c \in {NUL, "-", "+", SPACE} /\ need_0x \in {NUL, "x", "X", "b", "B"}
  /\ zero \in BOOLEAN /\ pad_c \in {NUL, SPACE, "0"}
  /\ prec_pad \in Int /\ field_pad \in Int /\ spec_len \in Int /\ i \in Nat
  /\ out \in Seq(Chars) /\ items \in Nat
  /\ job \in [at: Nat, spec: FormatSpec, args: Seq(Arg)]
  /\ wb \in [at: Nat, mod: LenMods, type: IntTypes, v: Int]

\* npf_n is updated once per conversion, from lengths computed before anything is
\* emitted (1692, 2003-2060); as long as the output fits in int, it is exactly the
\* number of characters the callback received.
CountExact ==
  pc \in {"fetch", "done"} /\ Len(out) <= IntMax => npf_n = Len(out)

\* Every va_arg names a type represented as the argument the caller passed at that
\* position, whatever the platform folds 'z', 't' and 'l' into, and an item leaves
\* no argument behind for the next one (1709-1720, 1778-1918, 1963).
NextArgIs(t) == args # <<>> /\ SameRep(Head(args).type, t)
VaListInStep ==
  /\ pc \in {"fetch", "done"} => args = <<>>
  /\ pc = "width" /\ UseFieldWidth /\ fs.field_width_opt = STAR => NextArgIs("INT")
  /\ pc = "prec" /\ UsePrecision /\ job.spec.prec_opt = STAR => NextArgIs("INT")
  /\ pc = "convert" /\ fs.conv_spec # "PERCENT" => NextArgIs(VaArgType)
=============================================================================
