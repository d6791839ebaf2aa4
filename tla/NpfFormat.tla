----------------------------- MODULE NpfFormat -----------------------------
(***************************************************************************)
(* npf_format_spec_t, the struct the parser fills and the engine reads,    *)
(* and the enums its members are of.  A member that a build does not have  *)
(* keeps the value that stands for its absence.                            *)
(***************************************************************************)
EXTENDS Integers

CONSTANT TMax   \* largest signed value of each C integer type

NONE == "NONE"        \* NPF_FMT_SPEC_OPT_NONE, ..._LEN_MOD_NONE
LITERAL == "LITERAL"
STAR == "STAR"
NUL == "NUL"          \* the character of code zero; a char variable's "none"
SPACE == "space"

IntTypes == {"CHAR", "SHORT", "INT", "LONG", "LL", "INTMAX", "SIZE", "PTRDIFF"}
LenMods  == {NONE, "h", "hh", "l", "L", "ll", "j", "z", "t"}

\* The conversions the enum keeps contiguous, in its order.
IntConvs   == {"SIGNED_INT", "BINARY", "OCTAL", "HEX_INT", "UNSIGNED_INT"}
FloatConvs == {"FLOAT_DEC", "FLOAT_HEX", "FLOAT_SCI", "FLOAT_SHORTEST"}
Convs      == {"PERCENT", "CHAR", "STRING", "POINTER", "WRITEBACK"}
                \cup IntConvs \cup FloatConvs

FormatSpec == [field_width: Int, field_width_opt: {NONE, STAR},
               left_justified: BOOLEAN, leading_zero_pad: BOOLEAN,
               prec: Int, prec_opt: {NONE, LITERAL, STAR},
               prepend: {NUL, SPACE, "+"}, alt_form: BOOLEAN,
               case_adjust: {0, 32}, length_modifier: LenMods, conv_spec: Convs]

\* The type each length modifier names in C 7.21.6.1.
TypeOf(mod) ==
  CASE mod = "h" -> "SHORT" [] mod = "hh" -> "CHAR" [] mod = "l" -> "LONG"
    [] mod = "ll" -> "LL" [] mod = "j" -> "INTMAX" [] mod = "z" -> "SIZE"
    [] mod = "t" -> "PTRDIFF" [] OTHER -> "INT"
=============================================================================
