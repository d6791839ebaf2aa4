------------------------------- MODULE NpfC11 -------------------------------
(***************************************************************************)
(* What a call of npf_vpprintf owes its caller, stated from the format and *)
(* the arguments alone: the text C11 7.21.6.1 gives a specification, the   *)
(* returned count, the value %n stores, the arguments taken, the memory    *)
(* read.  Nothing here follows the order in which the engine works.        *)
(***************************************************************************)
EXTENDS NpfVpprintf, SequencesExt

\* n copies of a character.
Times(c, n) == [k \in 1..n |-> c]
AbsOf(x) == IF x < 0 THEN -x ELSE x

\* The precision a specification comes with: its own, or the argument of its star.
GivenPrec(s, a) == IF s.prec_opt = STAR THEN a[StarsOf(s)].v ELSE s.prec

\* A caller may pass %s characters that no NUL ends only with a precision that
\* they reach (7.21.6.1 paragraph 8).
ASSUME StringsAssumption ==
  \A s \in Specs : \A a \in ArgsOf[s] :
    s.conv_spec = "STRING" /\ a[Len(a)].v # 0 /\ ~Heap[a[Len(a)].v].term =>
      /\ UsePrecision /\ s.prec_opt # NONE
      /\ GivenPrec(s, a) \in 0..Len(Heap[a[Len(a)].v].chars)

\* A caller passes a value that its type holds (7.21.6.1 paragraph 9).
ASSUME ValuesAssumption ==
  \A s \in Specs : \A a \in ArgsOf[s] :
    s.conv_spec \in IntConvs \cup {"POINTER"} =>
      LET m == TMax[CallerType(s)]
      IN a[Len(a)].v \in (IF s.conv_spec = "SIGNED_INT" THEN -(m + 1)..m ELSE 0..(2 * m + 1))

\* No text is promised where C leaves the format undefined: a precision on c, p, %
\* or n, and '#' or a length modifier on p (7.21.6.1 paragraphs 4, 6 and 7).
ASSUME DefinedAssumption ==
  \A s \in Specs :
    /\ s.conv_spec \in {"CHAR", "POINTER", "PERCENT", "WRITEBACK"} => s.prec_opt = NONE
    /\ s.conv_spec = "POINTER" => ~s.alt_form /\ s.length_modifier = NONE

\* nanoprintf.h 238-249: the buffer fits the octal form of the widest integer and
\* its leading '0'; what a string or a binary integer adds fits int.
ASSUME SizesAssumption ==
  /\ \E n \in 1..(3 * (CBUF - 1)) : 2 * (NpfIntMax + 1) <= 2 ^ n /\ n + 2 <= IntMax
  /\ 2 <= FmtNumMax /\ PtrDigits \in 1..CBUF
  /\ \A a \in DOMAIN Heap : Len(Heap[a].chars) <= IntMax

-----------------------------------------------------------------------------
(* The current specification, read off its history. *)

S == job.spec
LastArg == job.args[Len(job.args)].v

Width == IF ~UseFieldWidth THEN 0
         ELSE MinOf(FmtNumMax, IF S.field_width_opt = STAR
                               THEN AbsOf(job.args[1].v) ELSE S.field_width)
LeftJustified == S.left_justified \/ (S.field_width_opt = STAR /\ job.args[1].v < 0)

\* The precision given, or -1: a negative star precision is as if omitted.
Precision ==
  LET star == job.args[IF S.field_width_opt = STAR THEN 2 ELSE 1].v
      p == CASE ~UsePrecision \/ S.prec_opt = NONE -> -1
             [] S.prec_opt = STAR -> star
             [] OTHER -> S.prec
  IN IF p < 0 THEN -1 ELSE MinOf(FmtNumMax, p)

\* The numeral of n in a base, most significant digit first.
Numeral(n, b, adj) ==
  LET f[m \in Nat] == IF m < b THEN <<DigitChar(m, adj)>>
                      ELSE Append(f[m \div b], DigitChar(m % b, adj))
  IN f[n]

\* The object of the length modifier's type holds the argument's low bits.
IntegerArg ==
  CASE S.length_modifier = "h" ->
         IF S.conv_spec = "SIGNED_INT" THEN Cast(LastArg, "SHORT") ELSE UCast(LastArg, "SHORT")
    [] S.length_modifier = "hh" ->
         IF S.conv_spec = "SIGNED_INT" THEN Cast(LastArg, "CHAR") ELSE UCast(LastArg, "CHAR")
    [] OTHER -> LastArg

BaseOf == CASE S.conv_spec = "OCTAL" -> 8
            [] S.conv_spec \in {"HEX_INT", "POINTER"} -> 16
            [] S.conv_spec = "BINARY" -> 2
            [] OTHER -> 10

\* At least Precision digits, none for a zero under precision 0; '#' makes the
\* first octal digit a zero.
IntegerDigits ==
  LET n == AbsOf(IntegerArg)
      p == IF S.conv_spec = "POINTER" /\ UsePrecision THEN PtrDigits ELSE Precision
      d == IF n = 0 /\ p = 0 THEN <<>> ELSE Numeral(n, BaseOf, S.case_adjust)
      z == Times("0", MaxOf(0, p - Len(d))) \o d
      octal == S.conv_spec = "OCTAL" /\ S.alt_form /\ (z = <<>> \/ Head(z) # "0")
  IN IF octal THEN <<"0">> \o z ELSE z

Prefix ==
  LET signed == S.conv_spec \in FloatConvs \cup {"SIGNED_INT"}
      negative == IF S.conv_spec \in FloatConvs THEN LastArg < 0 ELSE IntegerArg < 0
      sign == CASE signed /\ negative -> <<"-">>
                [] signed /\ ~negative /\ S.prepend # NUL -> <<S.prepend>>
                [] OTHER -> <<>>
      hex == IF S.conv_spec = "BINARY" THEN (IF S.case_adjust = 0 THEN "B" ELSE "b")
             ELSE (IF S.case_adjust = 0 THEN "X" ELSE "x")
      marked == S.conv_spec \in {"HEX_INT", "BINARY"} /\ S.alt_form /\ IntegerArg # 0
  IN IF marked THEN <<"0", hex>> ELSE sign

\* The bodies a conversion may produce, each with its prefix and whether the
\* '0' flag applies to it.
Bodies ==
  CASE S.conv_spec \in IntConvs \cup {"POINTER"} ->
         {[pre |-> Prefix, body |-> IntegerDigits,
           zeros |-> Precision < 0 \/ (S.conv_spec = "BINARY" /\ IntegerDigits # <<>>)]}
    [] S.conv_spec = "STRING" ->
         LET c == IF LastArg = 0 THEN <<>> ELSE Heap[LastArg].chars
         IN {[pre |-> <<>>, zeros |-> TRUE,
              body |-> IF Precision < 0 THEN c
                       ELSE SubSeq(c, 1, MinOf(Precision, Len(c)))]}
    [] S.conv_spec = "CHAR" -> {[pre |-> <<>>, body |-> <<CharOf(LastArg)>>, zeros |-> TRUE]}
    [] S.conv_spec = "PERCENT" -> {[pre |-> <<>>, body |-> <<"%">>, zeros |-> TRUE]}
    [] S.conv_spec = "WRITEBACK" -> {[pre |-> <<>>, body |-> <<>>, zeros |-> TRUE]}
    [] OTHER ->
         {[pre |-> IF S.conv_spec = "FLOAT_HEX" /\ ~t.text
                   THEN Prefix \o <<"0", IF S.case_adjust = 0 THEN "X" ELSE "x">>
                   ELSE Prefix,
           body |-> Reverse(t.rev), zeros |-> ~t.text] : t \in FloatTexts}

\* The field: spaces on one side, or zeros between the prefix and the body.
Field(b) ==
  LET fill == MaxOf(0, Width - Len(b.pre) - Len(b.body))
  IN CASE LeftJustified -> b.pre \o b.body \o Times(SPACE, fill)
       [] ~LeftJustified /\ S.leading_zero_pad /\ b.zeros ->
            b.pre \o Times("0", fill) \o b.body
       [] OTHER -> Times(SPACE, fill) \o b.pre \o b.body

-----------------------------------------------------------------------------
(* Properties. *)

\* When a specification has been emitted (nanoprintf.h 2060), the characters
\* handed to the callback since it began are the field the C standard defines
\* for it: width, precision, flags, base and argument all taken together.
ConformsToC11 ==
  pc = "tally" => SubSeq(out, job.at + 1, Len(out)) \in {Field(b) : b \in Bodies}

\* nanoprintf.h 70-73: "The npf_ functions do not return negative values".
NeverNegative == pc = "done" => npf_n >= 0

\* %n stores the number of characters emitted before it, converted to the object
\* the length modifier names, and into an object of that size (1814-1840).
WritebackExact ==
  /\ TMax[wb.type] = TMax[TypeOf(wb.mod)]
  /\ wb.at <= IntMax => wb.v = Cast(wb.at, TypeOf(wb.mod))

\* The string of %s is read at no index past its terminator, nor, when a precision
\* bounds it and no NUL does, past the characters it has (1965-1967).
StringReadInBounds ==
  pc = "scan" /\ ScanMore => \/ cbuf_len < Len(cbuf)
                             \/ Heap[LastArg].term /\ cbuf_len = Len(cbuf)

\* No conversion writes past the conversion buffer or emits a cell it did not
\* write; its capacity is the octal form of the widest integer and a '0' (238-249).
CbufInBounds ==
  pc \in {"utoa", "alt", "layout", "payload"} /\ fs.conv_spec # "STRING" =>
    /\ Len(cbuf) <= CBUF
    /\ pc = "payload" /\ fs.conv_spec # "BINARY" => cbuf_len <= Len(cbuf)

\* The length arithmetic stays inside int with every width and precision at the
\* cap (256-271): no sum it forms exceeds INT_MAX.
LengthsFitInt ==
  /\ spec_len \in 0..IntMax
  /\ prec_pad <= spec_len /\ field_pad <= spec_len

\* Every call returns: each loop of the engine ends.
Terminates == <>(pc = "done")
=============================================================================
