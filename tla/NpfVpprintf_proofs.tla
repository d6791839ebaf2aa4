------------------------- MODULE NpfVpprintf_proofs -------------------------
(***************************************************************************)
(* Proofs about the engine, for every data model, every set of             *)
(* specifications and formats of any length.                               *)
(***************************************************************************)
EXTENDS NpfVpprintf, FiniteSets, TLAPS, SequenceTheorems, FiniteSetTheorems

USE DEF NONE, LITERAL, STAR, NUL, SPACE

-----------------------------------------------------------------------------
(* Lemmas about the operators.                                               *)

LEMMA DigitIsChar ==
  ASSUME NEW d \in 0..15, NEW adj
  PROVE  DigitChar(d, adj) \in Chars
<1>1. CASE d < 10
  <2>1. d + 1 \in 1..10 /\ DigitChar(d, adj) = Decimals[d + 1]
    BY <1>1 DEF DigitChar
  <2>2. \A k \in 1..10 : Decimals[k] \in {"0", "1", "2", "3", "4", "5", "6", "7", "8", "9"}
    BY DEF Decimals
  <2> QED
    BY <2>1, <2>2, DataAssumption
<1>2. CASE d >= 10
  <2>1. d - 9 \in 1..6 /\ DigitChar(d, adj) \in {Uppers[d - 9], Lowers[d - 9]}
    BY <1>2 DEF DigitChar
  <2>2. \A k \in 1..6 : /\ Uppers[k] \in {"A", "B", "C", "D", "E", "F"}
                       /\ Lowers[k] \in {"a", "b", "c", "d", "e", "f"}
    BY DEF Uppers, Lowers
  <2> QED
    BY <2>1, <2>2, DataAssumption
<1> QED
  BY <1>1, <1>2

LEMMA CastInt == ASSUME NEW x \in Int, NEW t \in IntTypes PROVE Cast(x, t) \in Int
<1>1. TMax[t] \in Nat
  BY TypesAssumption DEF IntTypes
<1> QED
  BY <1>1 DEF Cast

LEMMA UCastNat == ASSUME NEW x \in Int, NEW t \in IntTypes PROVE UCast(x, t) \in Nat
<1>1. TMax[t] \in Nat
  BY TypesAssumption DEF IntTypes
<1> QED
  BY <1>1 DEF UCast

LEMMA NpfUintNat == ASSUME NEW x \in Int PROVE ToNpfUint(x) \in Nat
<1>1. NpfIntMax \in Nat
  BY TypesAssumption, ConfigAssumption DEF IntTypes, NpfIntMax, MaxOf
<1> QED
  BY <1>1 DEF ToNpfUint

LEMMA IntMaxNat == IntMax \in Nat
BY TypesAssumption DEF IntMax, IntTypes

LEMMA IntAddInt == ASSUME NEW x \in Int, NEW y \in Int PROVE IntAdd(x, y) \in Int
BY IntMaxNat DEF IntAdd

LEMMA ExtractIsInt == ASSUME NEW m PROVE ExtractType(m) \in IntTypes
BY DEF ExtractType, LM_Z, LM_T, IntTypes

LEMMA SignedSmallInt == ASSUME NEW x \in Int PROVE SignedSmall(x) \in Int
BY CastInt DEF SignedSmall, IntTypes

LEMMA UnsignedSmallNat == ASSUME NEW x \in Nat PROVE UnsignedSmall(x) \in Nat
BY UCastNat DEF UnsignedSmall, IntTypes

LEMMA WritebackIsInt == WritebackType \in IntTypes
BY ExtractIsInt DEF WritebackType, IntTypes

\* For every conversion and length modifier a build parses, the type va_arg names
\* is represented as the one C has the caller pass, in every data model.
LEMMA RepMatches ==
  ASSUME NEW c \in Convs, NEW m \in LenMods, c # "PERCENT",
         ~UseSmall => m \notin {"h", "hh"},
         ~UseLarge => m \notin {"ll", "j", "z", "t"}
  PROVE  SameRep(PassType(c, m), ReadType(c, m))
<1>1. CASE c \in FloatConvs
  <2>1. ReadType(c, m) = PassType(c, m)
    BY <1>1 DEF PassType, ReadType, FloatConvs, IntConvs
  <2> QED
    BY <2>1 DEF SameRep
<1>2. CASE c \in {"POINTER", "STRING", "WRITEBACK"}
  <2>1. ReadType(c, m) = "PTR" /\ PassType(c, m) = "PTR"
    BY <1>2 DEF PassType, ReadType, FloatConvs, IntConvs
  <2> QED
    BY <2>1 DEF SameRep
<1>3. CASE c = "CHAR"
  <2>1. ReadType(c, m) = "INT" /\ PassType(c, m) = "INT"
    BY <1>3 DEF PassType, ReadType, FloatConvs, IntConvs
  <2> QED
    BY <2>1 DEF SameRep
<1>4. CASE c \in IntConvs
  <2>1. ReadType(c, m) = ExtractType(m)
    BY <1>4 DEF ReadType, IntConvs, FloatConvs
  <2>2. PassType(c, m) = IF m \in {"h", "hh"} THEN "INT" ELSE TypeOf(m)
    BY <1>4 DEF PassType, IntConvs, FloatConvs
  <2>3. CASE m \in {NONE, "h", "hh", "L"}
    BY <2>1, <2>2, <2>3 DEF SameRep, TypeOf, ExtractType
  <2>4. CASE m \in {"l", "ll", "j"}
    BY <2>1, <2>2, <2>4 DEF SameRep, TypeOf, ExtractType, LongIsInt, IntTypes
  <2>5. CASE m \in {"z", "t"}
    BY <2>1, <2>2, <2>5 DEF SameRep, TypeOf, ExtractType, LM_Z, LM_T, LongIsInt, IntTypes
  <2> QED
    BY <2>3, <2>4, <2>5 DEF LenMods
<1> QED
  BY <1>1, <1>2, <1>3, <1>4 DEF Convs

-----------------------------------------------------------------------------
(* The inductive invariant.                                                  *)

\* The arguments left are those of the current item from position k on.
ArgsFrom(k) == /\ Len(args) = Len(job.args) - k
               /\ \A j \in 1..Len(args) : args[j] = job.args[j + k]
WidthStars == IF job.spec.field_width_opt = STAR THEN 1 ELSE 0

\* Between the parse and the conversion the arguments still to be taken are a
\* suffix of the item's; at any other time there is none.
ArgsInv ==
  /\ pc \in {"width", "prec", "default", "convert"} =>
       /\ job.spec \in Specs /\ job.args \in ArgsOf[job.spec]
       /\ fs.conv_spec = job.spec.conv_spec
       /\ fs.length_modifier = job.spec.length_modifier
  /\ pc = "width" => /\ ArgsFrom(0)
                     /\ fs.field_width_opt = job.spec.field_width_opt
                     /\ fs.prec_opt = job.spec.prec_opt
  /\ pc = "prec" => ArgsFrom(WidthStars) /\ fs.prec_opt = job.spec.prec_opt
  /\ pc \in {"default", "convert"} => ArgsFrom(StarsOf(job.spec))
  /\ pc \notin {"width", "prec", "default", "convert"} => args = <<>>

Early    == {"early_sign", "early_prefix", "early_x"}
Emitting == Early \cup {"padl", "sign", "prefix", "x", "zeros", "payload", "padr"}
Measured == Emitting \cup {"tally"}

\* What the conversion has left in the locals by the time each location is reached.
ShapeInv ==
  /\ pc = "convert" => cbuf = <<>> /\ cbuf_len = 0 /\ sign_c = NUL /\ need_0x = NUL
  /\ pc \in {"convert", "scan", "integer", "utoa", "binlen", "alt", "layout"} =>
       /\ i = 0 /\ prec_pad = 0 /\ field_pad = 0
       /\ cbuf_len >= 0
  /\ pc = "scan" => fs.conv_spec = "STRING"
  /\ pc = "binlen" => fs.conv_spec = "BINARY"
  /\ pc \in {"scan", "integer", "utoa", "alt", "layout"} \cup Emitting
       /\ fs.conv_spec # "BINARY" => cbuf_len <= Len(cbuf)
  /\ pc \in Emitting /\ UseFieldWidth => pad_c \in {SPACE, "0"}
  /\ pc \in {"early_x", "x"} => need_0x # NUL

\* The characters the current conversion still owes the callback: the sign, the
\* 0x prefix, the padding and the body.
SignOwed   == IF sign_c = NUL THEN 0 ELSE 1
PrefixOwed == IF need_0x = NUL THEN 0 ELSE IF pc \in {"early_x", "x"} THEN 1 ELSE 2
PadOwed    == MaxOf(field_pad, 0) + MaxOf(prec_pad, 0)
BodyOwed   == IF fs.conv_spec = "STRING" THEN cbuf_len - i ELSE MaxOf(cbuf_len, 0)
Owed       == SignOwed + PrefixOwed + PadOwed + BodyOwed

\* npf_n agrees with the characters emitted, at the item's start while one is
\* being converted; and what has been emitted since, plus what is owed, is the
\* length that will be added.  Each part of the field is spent once it is passed.
CountInv ==
  /\ pc \in {"fetch", "done"} => (Len(out) <= IntMax => npf_n = Len(out))
  /\ pc \notin {"fetch", "done"} => (job.at <= IntMax => npf_n = job.at)
  /\ pc \notin {"fetch", "done"} \cup Measured => job.at = Len(out)
  /\ pc \in Measured => Len(out) + Owed = job.at + spec_len /\ spec_len >= 0
  /\ pc \in Measured /\ fs.conv_spec = "STRING" => i <= cbuf_len
  /\ pc \in {"prefix", "x", "zeros", "payload", "padr", "tally"} => sign_c = NUL
  /\ pc \in {"zeros", "payload", "padr", "tally"} => need_0x = NUL
  /\ pc \in {"payload", "padr", "tally"} => prec_pad <= 0
  /\ pc \in {"padr", "tally"} =>
       IF fs.conv_spec = "STRING" THEN i = cbuf_len ELSE cbuf_len <= 0
  /\ pc = "tally" => field_pad <= 0
  /\ ~UsePrecision => prec_pad <= 0
  /\ ~UseFieldWidth => field_pad <= 0

IInv == TypeOK /\ ArgsInv /\ ShapeInv /\ CountInv

-----------------------------------------------------------------------------
(* Each action preserves the types.                                          *)

LEMMA CapNat == FmtNumMax \in Nat
BY ConfigAssumption

LEMMA MinOfInt == ASSUME NEW x \in Int, NEW y \in Int PROVE MinOf(x, y) \in Int
BY DEF MinOf

LEMMA StarWidthInt == ASSUME NEW x \in Int PROVE StarWidth(x) \in Int
BY ConfigAssumption DEF StarWidth

LEMMA TakeArgType ==
  ASSUME args \in Seq(Arg), TakeArg
  PROVE  ArgVal \in Int /\ args' \in Seq(Arg)
<1>1. Head(args) \in Arg /\ Tail(args) \in Seq(Arg)
  BY HeadTailProperties DEF TakeArg
<1> QED
  BY <1>1 DEF TakeArg, ArgVal, Arg

LEMMA TypeInit == Init => TypeOK
<1> SUFFICES ASSUME Init PROVE TypeOK
  OBVIOUS
<1>1. fs \in FormatSpec
  BY FormatAssumption DEF Init, FormatSpec, LenMods, Convs
<1>2. job \in [at: Nat, spec: FormatSpec, args: Seq(Arg)]
  BY <1>1 DEF Init
<1>3. wb \in [at: Nat, mod: LenMods, type: IntTypes, v: Int]
  BY DEF Init, LenMods, IntTypes
<1>4. pc \in Locations
  BY DEF Init, Locations
<1>5. zero \in BOOLEAN
  BY DEF Init
<1> QED
  BY <1>1, <1>2, <1>3, <1>4, <1>5, EmptySeq DEF Init, TypeOK

LEMMA TypeLiteral == ASSUME NEW c \in Literals PROVE TypeOK /\ Literal(c) => TypeOK'
BY IntAddInt, FormatAssumption
DEF TypeOK, Literal, Put, numVars, textVars, padVars, ghosts, Locations

LEMMA TypeSpecification ==
  ASSUME NEW s \in Specs, NEW a \in ArgsOf[s] PROVE TypeOK /\ Specification(s, a) => TypeOK'
<1> SUFFICES ASSUME TypeOK, Specification(s, a) PROVE TypeOK'
  OBVIOUS
<1>1. s \in FormatSpec /\ a \in Seq(Arg)
  BY FormatAssumption, ArgsAssumption
<1>2. fs' \in FormatSpec
  <2>1. fs.field_width \in Int
    BY DEF TypeOK, FormatSpec
  <2> QED
    BY <1>1, <2>1 DEF Specification, FormatSpec
<1>3. args' \in Seq(Arg)
  BY <1>1, ConcatProperties DEF Specification, TypeOK
<1>4. job' \in [at: Nat, spec: FormatSpec, args: Seq(Arg)]
  BY <1>1 DEF Specification, TypeOK
<1>5. pc' = "width" /\ items' = items + 1 /\ items \in Nat
  BY DEF TypeOK, Specification
<1>6. pc' \in Locations /\ items' \in Nat
  BY <1>5 DEF Locations
<1> QED
  BY <1>2, <1>3, <1>4, <1>6 DEF TypeOK, Specification, numVars, textVars, padVars

LEMMA TypeReturn == TypeOK /\ Return => TypeOK'
BY DEF TypeOK, Return, numVars, textVars, padVars, ghosts, Locations

LEMMA TypeResolveWidth == TypeOK /\ ResolveWidth => TypeOK'
<1> SUFFICES ASSUME TypeOK, ResolveWidth PROVE TypeOK'
  OBVIOUS
<1>1. fs \in FormatSpec /\ fs.field_width \in Int /\ fs.left_justified \in BOOLEAN
      /\ args \in Seq(Arg)
  BY DEF TypeOK, FormatSpec
<1>2. CASE UseFieldWidth /\ fs.field_width_opt = STAR
  <2>1. ArgVal \in Int /\ args' \in Seq(Arg)
    BY <1>1, <1>2, TakeArgType DEF ResolveWidth
  <2>2. MinOf(StarWidth(ArgVal), FmtNumMax) \in Int
    BY <2>1, StarWidthInt, MinOfInt, CapNat
  <2>3. fs' \in FormatSpec
    BY <1>1, <1>2, <2>2 DEF ResolveWidth, FormatSpec
  <2> QED
    BY <2>1, <2>3 DEF TypeOK, ResolveWidth, numVars, textVars, padVars, ghosts, Locations
<1>3. CASE ~(UseFieldWidth /\ fs.field_width_opt = STAR)
  <2>1. MinOf(fs.field_width, FmtNumMax) \in Int
    BY <1>1, CapNat DEF MinOf
  <2>2. fs' \in FormatSpec
    BY <1>1, <1>3, <2>1 DEF ResolveWidth, FormatSpec
  <2> QED
    BY <1>3, <2>2 DEF TypeOK, ResolveWidth, numVars, textVars, padVars, ghosts, Locations
<1> QED
  BY <1>2, <1>3

LEMMA TypeResolvePrec == TypeOK /\ ResolvePrec => TypeOK'
<1> SUFFICES ASSUME TypeOK, ResolvePrec PROVE TypeOK'
  OBVIOUS
<1>1. fs \in FormatSpec /\ fs.prec \in Int /\ fs.prec_opt \in {NONE, LITERAL, STAR}
      /\ args \in Seq(Arg)
  BY DEF TypeOK, FormatSpec
<1>2. CASE UsePrecision /\ fs.prec_opt = STAR
  <2>1. ArgVal \in Int /\ args' \in Seq(Arg)
    BY <1>1, <1>2, TakeArgType DEF ResolvePrec
  <2>2. MinOf(ArgVal, FmtNumMax) \in Int
    BY <2>1, MinOfInt, CapNat
  <2>3. fs' \in FormatSpec
    BY <1>1, <1>2, <2>2 DEF ResolvePrec, FormatSpec
  <2> QED
    BY <2>1, <2>3 DEF TypeOK, ResolvePrec, numVars, textVars, padVars, ghosts, Locations
<1>3. CASE ~(UsePrecision /\ fs.prec_opt = STAR)
  <2>1. MinOf(fs.prec, FmtNumMax) \in Int
    BY <1>1, CapNat DEF MinOf
  <2>2. fs' \in FormatSpec
    BY <1>1, <1>3, <2>1 DEF ResolvePrec, FormatSpec
  <2> QED
    BY <1>3, <2>2 DEF TypeOK, ResolvePrec, numVars, textVars, padVars, ghosts, Locations
<1> QED
  BY <1>2, <1>3

LEMMA TypeResolve == TypeOK /\ Resolve => TypeOK'
<1> SUFFICES ASSUME TypeOK, Resolve PROVE TypeOK'
  OBVIOUS
<1>1. fs \in FormatSpec /\ fs.prec \in Int /\ fs.leading_zero_pad \in BOOLEAN
  BY DEF TypeOK, FormatSpec
<1>2. DefaultPrec \in Int
  BY ConfigAssumption DEF DefaultPrec, FloatConvs
<1>3. fs' \in FormatSpec
  BY <1>1, <1>2 DEF Resolve, FormatSpec
<1>4. pc' \in Locations
  BY DEF Resolve, Locations
<1>5. zero' \in BOOLEAN
  BY DEF Resolve
<1> QED
  BY <1>3, <1>4, <1>5, EmptySeq DEF TypeOK, Resolve, numVars, ghosts

LEMMA TypeConvertSigned == TypeOK /\ ConvertSigned => TypeOK'
<1> SUFFICES ASSUME TypeOK, ConvertSigned PROVE TypeOK'
  OBVIOUS
<1>1. ArgVal \in Int /\ args' \in Seq(Arg)
  BY TakeArgType DEF TypeOK, ConvertSigned
<1>2. Cast(ArgVal, VaArgType) \in Int
  <2>1. VaArgType = ExtractType(fs.length_modifier)
    BY DEF ConvertSigned, VaArgType, ReadType, FloatConvs, IntConvs
  <2> QED
    BY <1>1, <2>1, ExtractIsInt, CastInt
<1> DEFINE sval == SignedSmall(Cast(ArgVal, VaArgType))
<1>3. sval \in Int
  BY <1>2, SignedSmallInt
<1> HIDE DEF sval
<1>4. ToNpfUint(IF sval < 0 THEN 0 - ToNpfUint(sval) ELSE sval) \in Nat
  <2>1. ToNpfUint(sval) \in Nat
    BY <1>3, NpfUintNat
  <2>2. (IF sval < 0 THEN 0 - ToNpfUint(sval) ELSE sval) \in Int
    BY <1>3, <2>1
  <2> QED
    BY <2>2, NpfUintNat
<1>5. val' \in Nat /\ sign_c' \in {NUL, "-", "+", SPACE}
  BY <1>4 DEF ConvertSigned, sval, TypeOK, FormatSpec
<1> QED
  BY <1>1, <1>5 DEF TypeOK, ConvertSigned, padVars, ghosts, Locations

LEMMA TypeConvertUnsigned == TypeOK /\ ConvertUnsigned => TypeOK'
<1> SUFFICES ASSUME TypeOK, ConvertUnsigned PROVE TypeOK'
  OBVIOUS
<1>1. ArgVal \in Int /\ args' \in Seq(Arg)
  BY TakeArgType DEF TypeOK, ConvertUnsigned
<1>2. val' \in Nat
  <2>1. CASE fs.conv_spec = "POINTER"
    BY <1>1, <2>1, NpfUintNat DEF ConvertUnsigned
  <2>2. CASE fs.conv_spec # "POINTER"
    <3> DEFINE uval == UnsignedSmall(UCast(ArgVal, VaArgType))
    <3>1. VaArgType = ExtractType(fs.length_modifier)
      BY <2>2 DEF ConvertUnsigned, VaArgType, ReadType, FloatConvs, IntConvs
    <3>2. uval \in Nat
      BY <1>1, <3>1, ExtractIsInt, UCastNat, UnsignedSmallNat
    <3>3. val' = ToNpfUint(uval)
      BY <2>2 DEF ConvertUnsigned
    <3> HIDE DEF uval
    <3> QED
      BY <3>2, <3>3, NpfUintNat
  <2> QED
    BY <2>1, <2>2
<1>3. base' \in {8, 10, 16}
  BY DEF ConvertUnsigned
<1> QED
  BY <1>1, <1>2, <1>3 DEF TypeOK, ConvertUnsigned, textVars, padVars, ghosts, Locations

LEMMA AppendChars == \A s \in Seq(Chars), c \in Chars : Append(s, c) \in Seq(Chars)
BY AppendProperties

LEMMA TypeConvertString == TypeOK /\ ArgsInv /\ ConvertString => TypeOK'
<1> SUFFICES ASSUME TypeOK, ArgsInv, ConvertString PROVE TypeOK'
  OBVIOUS
<1>1. args' \in Seq(Arg)
  BY TakeArgType DEF TypeOK, ConvertString
<1>2. ArgVal \in {0} \cup DOMAIN Heap
  <2>1. /\ job.spec \in Specs /\ job.args \in ArgsOf[job.spec]
        /\ job.spec.conv_spec = "STRING"
        /\ ArgsFrom(StarsOf(job.spec)) /\ args # <<>>
    BY DEF ConvertString, ArgsInv, TakeArg
  <2>2. /\ Len(job.args) = StarsOf(job.spec) + 1
        /\ job.args[Len(job.args)].v \in {0} \cup DOMAIN Heap
    BY <2>1, ArgsAssumption DEF ArgCount
  <2>3. Len(args) = 1 /\ args[1] = job.args[1 + StarsOf(job.spec)]
    BY <2>1, <2>2 DEF ArgsFrom, StarsOf, TypeOK
  <2> QED
    BY <2>2, <2>3 DEF ArgVal, StarsOf
<1>3. cbuf' \in Seq(Chars)
  BY <1>2, DataAssumption, EmptySeq DEF ConvertString
<1>4. pc' \in Locations
  BY DEF ConvertString, Locations
<1> QED
  BY <1>1, <1>3, <1>4 DEF TypeOK, ConvertString, numVars, padVars, ghosts

LEMMA TypeScan == TypeOK /\ Scan => TypeOK'
BY DEF TypeOK, Scan, numVars, padVars, ghosts, Locations

LEMMA TypeConvertChar == TypeOK /\ ConvertChar => TypeOK'
<1> SUFFICES ASSUME TypeOK, ConvertChar PROVE TypeOK'
  OBVIOUS
<1>1. args' \in Seq(Arg)
  BY TakeArgType DEF TypeOK, ConvertChar
<1>2. cbuf' \in Seq(Chars)
  <2>1. "%" \in Chars /\ \A v : CharOf(v) \in Chars
    BY DataAssumption, FormatAssumption DEF CharOf
  <2>2. \E c \in Chars : cbuf' = <<c>>
    BY <2>1 DEF ConvertChar
  <2> QED
    BY <2>2
<1>3. pc' \in Locations
  BY DEF ConvertChar, Locations
<1> QED
  BY <1>1, <1>2, <1>3 DEF TypeOK, ConvertChar, numVars, padVars, ghosts

LEMMA TypeConvertWriteback == TypeOK /\ ConvertWriteback => TypeOK'
<1> SUFFICES ASSUME TypeOK, ConvertWriteback PROVE TypeOK'
  OBVIOUS
<1>1. args' \in Seq(Arg)
  BY TakeArgType DEF TypeOK, ConvertWriteback
<1>2. wb' \in [at: Nat, mod: LenMods, type: IntTypes, v: Int]
  <2>1. /\ Len(out) \in Nat /\ fs.length_modifier \in LenMods
        /\ WritebackType \in IntTypes /\ Cast(npf_n, WritebackType) \in Int
    BY WritebackIsInt, CastInt DEF TypeOK, FormatSpec
  <2>2. wb' = wb \/ wb' = [at |-> Len(out), mod |-> fs.length_modifier,
                           type |-> WritebackType, v |-> Cast(npf_n, WritebackType)]
    BY DEF ConvertWriteback
  <2> QED
    BY <2>1, <2>2 DEF TypeOK
<1>3. pc' \in Locations
  BY DEF ConvertWriteback, Locations
<1> QED
  BY <1>1, <1>2, <1>3 DEF TypeOK, ConvertWriteback, numVars, textVars, padVars

LEMMA TypeConvertFloat ==
  ASSUME NEW t \in FloatTexts PROVE TypeOK /\ ConvertFloat(t) => TypeOK'
<1> SUFFICES ASSUME TypeOK, ConvertFloat(t) PROVE TypeOK'
  OBVIOUS
<1>1. args' \in Seq(Arg) /\ ArgVal \in Int
  BY TakeArgType DEF TypeOK, ConvertFloat
<1>2. cbuf' \in Seq(Chars) /\ cbuf_len' \in Int
  BY DataAssumption DEF ConvertFloat
<1>3. fs' \in FormatSpec
  <2>1. fs \in FormatSpec /\ fs.leading_zero_pad \in BOOLEAN
    BY DEF TypeOK, FormatSpec
  <2> QED
    BY <2>1 DEF ConvertFloat, FormatSpec
<1>4. sign_c' \in {NUL, "-", "+", SPACE} /\ need_0x' \in {NUL, "x", "X", "b", "B"}
  BY DEF ConvertFloat, Letter, TypeOK, FormatSpec
<1>5. pc' \in Locations
  BY DEF ConvertFloat, Locations
<1> QED
  BY <1>1, <1>2, <1>3, <1>4, <1>5 DEF TypeOK, ConvertFloat, numVars, padVars, ghosts

LEMMA TypeInteger == TypeOK /\ Integer => TypeOK'
<1> SUFFICES ASSUME TypeOK, Integer PROVE TypeOK'
  OBVIOUS
<1>1. fs' \in FormatSpec
  <2>1. fs \in FormatSpec
    BY DEF TypeOK
  <2>2. fs' = fs \/ fs' = [fs EXCEPT !.prec = 1]
    BY DEF Integer
  <2> QED
    BY <2>1, <2>2 DEF FormatSpec
<1>3. pc' \in Locations
  BY DEF Integer, Locations
<1>2. zero' \in BOOLEAN
  BY DEF Integer
<1> QED
  BY <1>1, <1>2, <1>3 DEF TypeOK, Integer, padVars, ghosts

LEMMA TypeUtoaDigit == TypeOK /\ UtoaDigit => TypeOK'
<1> SUFFICES ASSUME TypeOK, UtoaDigit PROVE TypeOK'
  OBVIOUS
<1>1. v32 % base \in 0..15 /\ v32 \div base \in Nat
  BY DEF TypeOK
<1>2. DigitChar(v32 % base, fs.case_adjust) \in Chars
  BY <1>1, DigitIsChar
<1>3. cbuf' \in Seq(Chars)
  BY <1>2 DEF TypeOK, UtoaDigit
<1>4. v32' \in Nat /\ pc' \in Locations
  BY <1>1 DEF UtoaDigit, Locations
<1> QED
  BY <1>3, <1>4 DEF TypeOK, UtoaDigit, padVars, ghosts

LEMMA TypeBinLen == TypeOK /\ BinLen => TypeOK'
<1> SUFFICES ASSUME TypeOK, BinLen PROVE TypeOK'
  OBVIOUS
<1>1. v32' \in Nat /\ pc' \in Locations
  BY DEF TypeOK, BinLen, Locations
<1> QED
  BY <1>1 DEF TypeOK, BinLen, padVars, ghosts

LEMMA TypeAltForm == TypeOK /\ AltForm => TypeOK'
<1> SUFFICES ASSUME TypeOK, AltForm PROVE TypeOK'
  OBVIOUS
<1>1. cbuf' \in Seq(Chars) /\ cbuf_len' \in Int
  <2>1. "0" \in Chars
    BY DataAssumption
  <2>2. cbuf' \in {cbuf, Append(cbuf, "0")} /\ cbuf_len' \in {cbuf_len, cbuf_len + 1}
    BY DEF AltForm
  <2>3. cbuf \in Seq(Chars) /\ cbuf_len \in Int
    BY DEF TypeOK
  <2>4. Append(cbuf, "0") \in Seq(Chars)
    BY <2>1, <2>3, AppendChars
  <2> QED
    BY <2>2, <2>3, <2>4
<1>2. need_0x' \in {NUL, "x", "X", "b", "B"}
  BY DEF TypeOK, AltForm, Letter
<1>3. pc' \in Locations
  BY DEF AltForm, Locations
<1> QED
  BY <1>1, <1>2, <1>3 DEF TypeOK, AltForm, numVars, padVars, ghosts

LEMMA TypeLayout == TypeOK /\ Layout => TypeOK'
<1> SUFFICES ASSUME TypeOK, Layout PROVE TypeOK'
  OBVIOUS
<1>1. fs.field_width \in Int /\ fs.prec \in Int
  BY DEF TypeOK, FormatSpec
<1>2. PrecPad \in Int /\ BodyLen \in Int
  BY <1>1 DEF TypeOK, PrecPad, BodyLen, MaxOf
<1>3. FieldPad \in Int
  BY <1>1, <1>2 DEF FieldPad, MaxOf
<1>4. prec_pad' \in Int /\ field_pad' \in Int /\ spec_len' \in Int
  BY <1>2, <1>3 DEF Layout
<1>5. pad_c' \in {NUL, SPACE, "0"} /\ pc' \in Locations
  BY DEF TypeOK, Layout, PadChar, Locations
<1> QED
  BY <1>4, <1>5 DEF TypeOK, Layout, numVars, textVars, ghosts

LEMMA TypePutSign ==
  ASSUME NEW at, NEW next \in Locations PROVE TypeOK /\ PutSign(at, next) => TypeOK'
<1> SUFFICES ASSUME TypeOK, PutSign(at, next) PROVE TypeOK'
  OBVIOUS
<1>1. out' \in Seq(Chars)
  <2>1. sign_c \in Chars
    BY DataAssumption DEF TypeOK
  <2> QED
    BY <2>1, AppendChars DEF TypeOK, PutSign, Put
<1> QED
  BY <1>1 DEF TypeOK, PutSign, numVars, padVars, ghosts

LEMMA TypePut0 ==
  ASSUME NEW at, NEW next \in Locations, NEW skip \in Locations
  PROVE  TypeOK /\ Put0(at, next, skip) => TypeOK'
<1> SUFFICES ASSUME TypeOK, Put0(at, next, skip) PROVE TypeOK'
  OBVIOUS
<1>1. out' \in Seq(Chars)
  <2>1. "0" \in Chars
    BY DataAssumption
  <2> QED
    BY <2>1, AppendChars DEF TypeOK, Put0, Put
<1>2. pc' \in Locations
  BY DEF Put0
<1> QED
  BY <1>1, <1>2 DEF TypeOK, Put0, numVars, textVars, padVars, ghosts

LEMMA TypePutX ==
  ASSUME NEW at \in {"early_x", "x"}, NEW next \in Locations
  PROVE  TypeOK /\ ShapeInv /\ PutX(at, next) => TypeOK'
<1> SUFFICES ASSUME TypeOK, ShapeInv, PutX(at, next) PROVE TypeOK'
  OBVIOUS
<1>1. out' \in Seq(Chars)
  <2>1. need_0x \in {"x", "X", "b", "B"}
    BY DEF TypeOK, ShapeInv, PutX
  <2>2. {"x", "X", "b", "B"} \subseteq Chars
    BY DataAssumption
  <2> QED
    BY <2>1, <2>2 DEF TypeOK, PutX, Put
<1> QED
  BY <1>1 DEF TypeOK, PutX, numVars, padVars, ghosts

LEMMA TypePadField ==
  ASSUME NEW at \in {"padl", "padr"}, NEW next \in Locations
  PROVE  TypeOK /\ ShapeInv /\ PadField(at, next) => TypeOK'
<1> SUFFICES ASSUME TypeOK, ShapeInv, PadField(at, next) PROVE TypeOK'
  OBVIOUS
<1>1. out' \in Seq(Chars)
  <2>1. CASE UseFieldWidth
    <3>1. pad_c \in {SPACE, "0"}
      BY <2>1 DEF ShapeInv, PadField, Emitting
    <3>2. pad_c \in Chars
      BY <3>1, DataAssumption
    <3> QED
      BY <3>2, AppendChars DEF TypeOK, PadField, Put
  <2>2. CASE ~UseFieldWidth
    BY <2>2 DEF TypeOK, PadField
  <2> QED
    BY <2>1, <2>2
<1>2. pc' \in Locations /\ field_pad' \in Int
  BY DEF TypeOK, PadField
<1> QED
  BY <1>1, <1>2 DEF TypeOK, PadField, numVars, textVars, ghosts

LEMMA TypePadPrec == TypeOK /\ PadPrec => TypeOK'
<1> SUFFICES ASSUME TypeOK, PadPrec PROVE TypeOK'
  OBVIOUS
<1>1. out' \in Seq(Chars)
  <2>1. "0" \in Chars
    BY DataAssumption
  <2> QED
    BY <2>1, AppendChars DEF TypeOK, PadPrec, Put
<1>2. pc' \in Locations /\ prec_pad' \in Int
  BY DEF TypeOK, PadPrec, Locations
<1> QED
  BY <1>1, <1>2 DEF TypeOK, PadPrec, numVars, textVars, ghosts

LEMMA TypePayloadString == TypeOK /\ ShapeInv /\ PayloadString => TypeOK'
<1> SUFFICES ASSUME TypeOK, ShapeInv, PayloadString PROVE TypeOK'
  OBVIOUS
<1>1. i \in Nat /\ cbuf_len \in Int /\ cbuf \in Seq(Chars) /\ cbuf_len <= Len(cbuf)
  BY DEF TypeOK, ShapeInv, PayloadString, Emitting
<1>2. out' \in Seq(Chars)
  <2>1. CASE i < cbuf_len
    <3>1. cbuf[i + 1] \in Chars
      BY <1>1, <2>1
    <3> QED
      BY <2>1, <3>1, AppendChars DEF TypeOK, PayloadString, Put
  <2>2. CASE ~(i < cbuf_len)
    BY <2>2 DEF TypeOK, PayloadString
  <2> QED
    BY <2>1, <2>2
<1>3. pc' \in Locations /\ i' \in Nat
  BY <1>1 DEF TypeOK, PayloadString, Locations
<1> QED
  BY <1>2, <1>3 DEF TypeOK, PayloadString, numVars, textVars, ghosts

\* A power of two counts the subsets of an interval.
LEMMA PowNat == ASSUME NEW k \in Nat PROVE 2 ^ k \in Nat \ {0}
<1>1. IsFiniteSet(1..k) /\ Cardinality(1..k) = k
  BY FS_Interval
<1>2. IsFiniteSet(SUBSET (1..k)) /\ Cardinality(SUBSET (1..k)) = 2 ^ k
  BY <1>1, FS_SUBSET
<1>3. SUBSET (1..k) # {}
  OBVIOUS
<1> QED
  BY <1>2, <1>3, FS_CardinalityType, FS_EmptySet

LEMMA TypePayloadBinary == TypeOK /\ PayloadBinary => TypeOK'
<1> SUFFICES ASSUME TypeOK, PayloadBinary PROVE TypeOK'
  OBVIOUS
<1>1. cbuf_len \in Int /\ val \in Nat
  BY DEF TypeOK
<1>2. out' \in Seq(Chars)
  <2>1. CASE cbuf_len > 0
    <3>1. cbuf_len - 1 \in Nat
      BY <1>1, <2>1
    <3>2. 2 ^ (cbuf_len - 1) \in Nat \ {0}
      BY <3>1, PowNat
    <3> DEFINE bit == (val \div (2 ^ (cbuf_len - 1))) % 2
    <3>3. bit \in 0..15
      BY <1>1, <3>2
    <3> HIDE DEF bit
    <3>4. DigitChar(bit, 0) \in Chars
      BY <3>3, DigitIsChar
    <3>5. out' = Append(out, DigitChar(bit, 0))
      BY <2>1 DEF PayloadBinary, Put, bit
    <3> QED
      BY <3>4, <3>5 DEF TypeOK
  <2>2. CASE ~(cbuf_len > 0)
    BY <2>2 DEF TypeOK, PayloadBinary
  <2> QED
    BY <2>1, <2>2
<1>3. pc' \in Locations /\ cbuf_len' \in Int
  BY <1>1 DEF TypeOK, PayloadBinary, Locations
<1> QED
  BY <1>2, <1>3 DEF TypeOK, PayloadBinary, numVars, padVars, ghosts

LEMMA TypePayloadReversed == TypeOK /\ ShapeInv /\ PayloadReversed => TypeOK'
<1> SUFFICES ASSUME TypeOK, ShapeInv, PayloadReversed PROVE TypeOK'
  OBVIOUS
<1>1. cbuf_len \in Int /\ cbuf \in Seq(Chars) /\ cbuf_len <= Len(cbuf)
  BY DEF TypeOK, ShapeInv, PayloadReversed, Emitting
<1>2. out' \in Seq(Chars)
  <2>1. CASE cbuf_len > 0
    <3>1. cbuf[cbuf_len] \in Chars
      BY <1>1, <2>1
    <3> QED
      BY <2>1, <3>1, AppendChars DEF TypeOK, PayloadReversed, Put
  <2>2. CASE ~(cbuf_len > 0)
    BY <2>2 DEF TypeOK, PayloadReversed
  <2> QED
    BY <2>1, <2>2
<1>3. pc' \in Locations /\ cbuf_len' \in Int
  BY <1>1 DEF TypeOK, PayloadReversed, Locations
<1> QED
  BY <1>2, <1>3 DEF TypeOK, PayloadReversed, numVars, padVars, ghosts

LEMMA TypeTally == TypeOK /\ Tally => TypeOK'
BY IntAddInt DEF TypeOK, Tally, numVars, textVars, padVars, ghosts, Locations

-----------------------------------------------------------------------------
(* Each action preserves the place in the argument list.                     *)

Taking == {"width", "prec", "default", "convert"}

LEMMA ArgsSpent ==
  ArgsInv /\ pc' \notin Taking /\ args' = <<>> => ArgsInv'
BY DEF ArgsInv, Taking

LEMMA ArgsIdle ==
  ArgsInv /\ pc \notin Taking /\ pc' \notin Taking /\ args' = args => ArgsInv'
BY DEF ArgsInv, Taking

LEMMA ArgsSpecification ==
  ASSUME NEW s \in Specs, NEW a \in ArgsOf[s]
  PROVE  TypeOK /\ ArgsInv /\ Specification(s, a) => ArgsInv'
<1> SUFFICES ASSUME TypeOK, ArgsInv, Specification(s, a) PROVE ArgsInv'
  OBVIOUS
<1>1. s \in FormatSpec /\ a \in Seq(Arg)
  BY FormatAssumption, ArgsAssumption
<1>2. args = <<>> /\ args' = a
  <2>1. args = <<>>
    BY DEF ArgsInv, Specification
  <2> QED
    BY <1>1, <2>1, ConcatEmptySeq DEF Specification
<1>3. pc' = "width" /\ job'.spec = s /\ job'.args = a
  BY DEF Specification
<1>4. /\ fs'.conv_spec = s.conv_spec /\ fs'.length_modifier = s.length_modifier
      /\ fs'.field_width_opt = s.field_width_opt /\ fs'.prec_opt = s.prec_opt
  BY <1>1 DEF Specification, FormatSpec
<1>5. Len(a) = Len(a) - 0 /\ \A j \in 1..Len(a) : a[j] = a[j + 0]
  BY <1>1
<1> QED
  BY <1>2, <1>3, <1>4, <1>5 DEF ArgsInv, ArgsFrom

\* Taking an argument moves the place by one.
LEMMA ArgsNext ==
  ASSUME NEW k \in Nat, args \in Seq(Arg), TakeArg, ArgsFrom(k), job' = job,
         job.args \in Seq(Arg)
  PROVE  ArgsFrom(k + 1)'
<1>1. /\ Len(args') = Len(args) - 1
      /\ \A j \in 1..Len(args') : args'[j] = args[j + 1]
  BY DEF TakeArg
<1>2. \A j \in 1..Len(args') : args[j + 1] = job.args[(j + 1) + k]
  BY <1>1 DEF ArgsFrom, TakeArg
<1>3. Len(args') = Len(job.args) - (k + 1)
  BY <1>1 DEF ArgsFrom
<1>4. \A j \in 1..Len(args') : args'[j] = job.args[j + (k + 1)]
  <2> SUFFICES ASSUME NEW j \in 1..Len(args')
               PROVE  args'[j] = job.args[j + (k + 1)]
    OBVIOUS
  <2>1. (j + 1) + k = j + (k + 1)
    OBVIOUS
  <2> QED
    BY <1>1, <1>2, <2>1
<1>5. job'.args = job.args
  OBVIOUS
<1> QED
  BY <1>3, <1>4, <1>5 DEF ArgsFrom

LEMMA ArgsResolveWidth == TypeOK /\ ArgsInv /\ ResolveWidth => ArgsInv'
<1> SUFFICES ASSUME TypeOK, ArgsInv, ResolveWidth PROVE ArgsInv'
  OBVIOUS
<1>1. /\ pc' = "prec" /\ job' = job
      /\ fs' \in FormatSpec /\ fs \in FormatSpec
      /\ fs'.conv_spec = fs.conv_spec /\ fs'.length_modifier = fs.length_modifier
      /\ fs'.prec_opt = fs.prec_opt
  <2>1. fs \in FormatSpec /\ fs' \in FormatSpec
    BY TypeResolveWidth DEF TypeOK
  <2> QED
    BY <2>1 DEF ResolveWidth, ghosts, FormatSpec
<1>2. /\ job.spec \in Specs /\ job.args \in ArgsOf[job.spec]
      /\ fs.conv_spec = job.spec.conv_spec
      /\ fs.length_modifier = job.spec.length_modifier
      /\ fs.prec_opt = job.spec.prec_opt /\ ArgsFrom(0)
      /\ fs.field_width_opt = job.spec.field_width_opt
  BY DEF ArgsInv, ResolveWidth
<1>3. ArgsFrom(WidthStars)'
  <2>1. CASE fs.field_width_opt = STAR
    <3>1. TakeArg /\ args \in Seq(Arg) /\ job.args \in Seq(Arg)
      BY <1>2, <2>1, FormatAssumption, ArgsAssumption DEF ResolveWidth, TypeOK
    <3>2. ArgsFrom(0 + 1)'
      BY <1>1, <1>2, <3>1, ArgsNext
    <3> QED
      BY <1>1, <1>2, <2>1, <3>2 DEF WidthStars
  <2>2. CASE fs.field_width_opt # STAR
    BY <1>1, <1>2, <2>2 DEF ResolveWidth, WidthStars, ArgsFrom
  <2> QED
    BY <2>1, <2>2
<1> QED
  BY <1>1, <1>2, <1>3 DEF ArgsInv

LEMMA ArgsResolvePrec == TypeOK /\ ArgsInv /\ ResolvePrec => ArgsInv'
<1> SUFFICES ASSUME TypeOK, ArgsInv, ResolvePrec PROVE ArgsInv'
  OBVIOUS
<1>1. /\ pc' = "default" /\ job' = job
      /\ fs'.conv_spec = fs.conv_spec /\ fs'.length_modifier = fs.length_modifier
  <2>1. fs \in FormatSpec /\ fs' \in FormatSpec
    BY TypeResolvePrec DEF TypeOK
  <2> QED
    BY <2>1 DEF ResolvePrec, ghosts, FormatSpec
<1>2. /\ job.spec \in Specs /\ job.args \in ArgsOf[job.spec]
      /\ fs.conv_spec = job.spec.conv_spec
      /\ fs.length_modifier = job.spec.length_modifier
      /\ fs.prec_opt = job.spec.prec_opt /\ ArgsFrom(WidthStars)
  BY DEF ArgsInv, ResolvePrec
<1>3. ArgsFrom(StarsOf(job.spec))'
  <2>1. CASE fs.prec_opt = STAR
    <3>1. TakeArg /\ args \in Seq(Arg) /\ job.args \in Seq(Arg)
      BY <1>2, <2>1, FormatAssumption, ArgsAssumption DEF ResolvePrec, TypeOK
    <3>2. ArgsFrom(WidthStars + 1)'
      BY <1>1, <1>2, <3>1, ArgsNext DEF WidthStars
    <3>3. StarsOf(job.spec) = WidthStars + 1
      BY <1>2, <2>1 DEF StarsOf, WidthStars
    <3> QED
      BY <1>1, <3>2, <3>3 DEF ArgsFrom, WidthStars
  <2>2. CASE fs.prec_opt # STAR
    <3>1. args' = args /\ StarsOf(job.spec) = WidthStars
      BY <1>2, <2>2 DEF ResolvePrec, StarsOf, WidthStars
    <3> QED
      BY <1>1, <1>2, <3>1 DEF ArgsFrom
  <2> QED
    BY <2>1, <2>2
<1> QED
  BY <1>1, <1>2, <1>3 DEF ArgsInv

LEMMA ArgsResolve == TypeOK /\ ArgsInv /\ Resolve => ArgsInv'
<1> SUFFICES ASSUME TypeOK, ArgsInv, Resolve PROVE ArgsInv'
  OBVIOUS
<1>1. /\ pc' = "convert" /\ job' = job /\ args' = args
      /\ fs'.conv_spec = fs.conv_spec /\ fs'.length_modifier = fs.length_modifier
  BY DEF Resolve, ghosts, FormatSpec, TypeOK
<1>2. /\ job.spec \in Specs /\ job.args \in ArgsOf[job.spec]
      /\ fs.conv_spec = job.spec.conv_spec
      /\ fs.length_modifier = job.spec.length_modifier
      /\ ArgsFrom(StarsOf(job.spec))
  BY DEF ArgsInv, Resolve
<1>3. ArgsFrom(StarsOf(job.spec))'
  BY <1>1, <1>2 DEF ArgsFrom
<1> QED
  BY <1>1, <1>2, <1>3 DEF ArgsInv

\* When the conversion starts the value is the only argument left.
LEMMA ArgsAtConvert ==
  ASSUME TypeOK, ArgsInv, pc = "convert"
  PROVE  IF fs.conv_spec = "PERCENT" THEN args = <<>>
         ELSE /\ Len(args) = 1 /\ Tail(args) = <<>>
              /\ args[1].type = PassType(fs.conv_spec, fs.length_modifier)
<1>1. /\ job.spec \in Specs /\ job.args \in ArgsOf[job.spec]
      /\ fs.conv_spec = job.spec.conv_spec
      /\ fs.length_modifier = job.spec.length_modifier
      /\ ArgsFrom(StarsOf(job.spec)) /\ args \in Seq(Arg)
  BY DEF ArgsInv, TypeOK
<1>2. /\ Len(job.args) = ArgCount(job.spec)
      /\ fs.conv_spec # "PERCENT" =>
            job.args[Len(job.args)].type = PassType(fs.conv_spec, fs.length_modifier)
  BY <1>1, ArgsAssumption DEF CallerType
<1>3. StarsOf(job.spec) \in Nat
  BY DEF StarsOf
<1>4. CASE fs.conv_spec = "PERCENT"
  <2>1. Len(args) = 0
    BY <1>1, <1>2, <1>3, <1>4 DEF ArgsFrom, ArgCount
  <2> QED
    BY <1>1, <1>4, <2>1, EmptySeq
<1>5. CASE fs.conv_spec # "PERCENT"
  <2>1. Len(args) = 1 /\ args[1] = job.args[1 + StarsOf(job.spec)]
    BY <1>1, <1>2, <1>3, <1>5 DEF ArgsFrom, ArgCount
  <2>2. Tail(args) = <<>>
    <3>1. args # <<>>
      BY <2>1
    <3>2. Tail(args) \in Seq(Arg) /\ Len(Tail(args)) = 0
      BY <1>1, <2>1, <3>1, HeadTailProperties
    <3> QED
      BY <3>2, EmptySeq
  <2>3. Len(job.args) = 1 + StarsOf(job.spec)
    BY <1>1, <1>2, <1>3, <1>5 DEF ArgCount
  <2> QED
    BY <1>2, <1>5, <2>1, <2>2, <2>3
<1> QED
  BY <1>4, <1>5

LEMMA ArgsConvert ==
  ASSUME TypeOK, ArgsInv, pc = "convert", pc' \notin Taking,
         IF fs.conv_spec = "PERCENT" THEN args' = args ELSE TakeArg
  PROVE  ArgsInv'
<1>1. args' = <<>>
  BY ArgsAtConvert DEF TakeArg
<1> QED
  BY <1>1, ArgsSpent

LEMMA ArgsConverted ==
  ASSUME TypeOK, ArgsInv,
         \/ ConvertSigned \/ ConvertUnsigned \/ ConvertString \/ ConvertChar
         \/ ConvertWriteback \/ \E t \in FloatTexts : ConvertFloat(t)
  PROVE  ArgsInv'
<1>1. /\ pc = "convert" /\ pc' \notin Taking
      /\ IF fs.conv_spec = "PERCENT" THEN args' = args ELSE TakeArg
  <2>1. CASE ConvertSigned
    BY <2>1 DEF ConvertSigned, Taking
  <2>2. CASE ConvertUnsigned
    BY <2>2 DEF ConvertUnsigned, IntConvs, Taking
  <2>3. CASE ConvertString
    BY <2>3 DEF ConvertString, Taking
  <2>4. CASE ConvertChar
    BY <2>4 DEF ConvertChar, Taking
  <2>5. CASE ConvertWriteback
    BY <2>5 DEF ConvertWriteback, Taking
  <2>6. CASE \E t \in FloatTexts : ConvertFloat(t)
    BY <2>6 DEF ConvertFloat, FloatConvs, Taking
  <2> QED
    BY <2>1, <2>2, <2>3, <2>4, <2>5, <2>6
<1> QED
  BY <1>1, ArgsConvert

LEMMA ArgsAfter ==
  ASSUME ArgsInv,
         Scan \/ Integer \/ UtoaDigit \/ BinLen \/ AltForm \/ Layout \/ Emit \/ Tally
  PROVE  ArgsInv'
<1>1. pc \notin Taking /\ pc' \notin Taking /\ args' = args
  <2>1. CASE Scan
    BY <2>1 DEF Scan, Taking
  <2>2. CASE Integer \/ UtoaDigit \/ BinLen \/ AltForm
    BY <2>2 DEF Integer, UtoaDigit, BinLen, AltForm, Taking
  <2>3. CASE Layout
    BY <2>3 DEF Layout, Taking
  <2>4. CASE Emit
    BY <2>4 DEF Emit, PutSign, Put0, PutX, PadField, PadPrec, PayloadString,
                PayloadBinary, PayloadReversed, Taking
  <2>5. CASE Tally
    BY <2>5 DEF Tally, Taking
  <2> QED
    BY <2>1, <2>2, <2>3, <2>4, <2>5
<1> QED
  BY <1>1, ArgsIdle

LEMMA ArgsStep == TypeOK /\ ArgsInv /\ [Next]_vars => ArgsInv'
<1> SUFFICES ASSUME TypeOK, ArgsInv, [Next]_vars PROVE ArgsInv'
  OBVIOUS
<1>1. CASE Fetch
  <2>1. CASE \E c \in Literals : Literal(c)
    BY <2>1, ArgsIdle DEF Literal, Taking
  <2>2. CASE \E s \in Specs : \E a \in ArgsOf[s] : Specification(s, a)
    BY <2>2, ArgsSpecification
  <2> QED
    BY <1>1, <2>1, <2>2 DEF Fetch
<1>2. CASE Return
  BY <1>2, ArgsIdle DEF Return, Taking
<1>3. CASE ResolveWidth \/ ResolvePrec \/ Resolve
  BY <1>3, ArgsResolveWidth, ArgsResolvePrec, ArgsResolve
<1>4. CASE Convert
  BY <1>4, ArgsConverted, ArgsAfter DEF Convert
<1>5. CASE Layout \/ Emit \/ Tally
  BY <1>5, ArgsAfter
<1>6. CASE Done \/ UNCHANGED vars
  BY <1>6 DEF Done, vars, ghosts, ArgsInv, ArgsFrom, WidthStars
<1> QED
  BY <1>1, <1>2, <1>3, <1>4, <1>5, <1>6 DEF Next

-----------------------------------------------------------------------------
(* What the locals hold at each location is preserved.                       *)

LEMMA PadCharType == PadChar \in {SPACE, "0"}
BY DEF PadChar

LEMMA ShapeConvertChar == ASSUME TypeOK, ShapeInv, ConvertChar PROVE ShapeInv'
<1>1. /\ cbuf_len' = 1 /\ Len(cbuf') = 1 /\ pc' = "layout"
      /\ UNCHANGED <<i, prec_pad, field_pad>>
  BY DEF ConvertChar, padVars
<1>2. i = 0 /\ prec_pad = 0 /\ field_pad = 0
  BY DEF ShapeInv, ConvertChar
<1> QED
  BY <1>1, <1>2 DEF ShapeInv, Emitting, Early

LEMMA ShapeAltForm == ASSUME TypeOK, ShapeInv, AltForm PROVE ShapeInv'
<1>1. pc = "alt" /\ pc' = "layout" /\ UNCHANGED <<fs, i, prec_pad, field_pad>>
  BY DEF AltForm, padVars
<1>2. \/ UNCHANGED <<cbuf, cbuf_len>>
      \/ Len(cbuf') = Len(cbuf) + 1 /\ cbuf_len' = cbuf_len + 1
  BY DEF AltForm, TypeOK
<1>3. cbuf_len \in Int /\ Len(cbuf) \in Nat
  BY DEF TypeOK
<1> QED
  BY <1>1, <1>2, <1>3 DEF ShapeInv, Emitting, Early

LEMMA ShapeLayout == ASSUME TypeOK, ShapeInv, Layout PROVE ShapeInv'
<1>1. /\ pc = "layout" /\ pc' \in {"early_sign", "padl"} /\ UNCHANGED <<fs, cbuf, cbuf_len>>
      /\ UseFieldWidth => pad_c' \in {SPACE, "0"}
  BY PadCharType DEF Layout, textVars
<1> QED
  BY <1>1 DEF ShapeInv, Emitting, Early

LEMMA ShapeStep == TypeOK /\ ShapeInv /\ [Next]_vars => ShapeInv'
<1> SUFFICES ASSUME TypeOK, ShapeInv, [Next]_vars PROVE ShapeInv'
  OBVIOUS
<1>1. CASE \E c \in Literals : Literal(c)
  BY <1>1 DEF ShapeInv, Emitting, Early, Literal
<1>2. CASE \E s \in Specs : \E a \in ArgsOf[s] : Specification(s, a)
  BY <1>2 DEF ShapeInv, Emitting, Early, Specification
<1>3. CASE Return \/ ResolveWidth \/ ResolvePrec
  BY <1>3 DEF ShapeInv, Emitting, Early, Return, ResolveWidth, ResolvePrec
<1>4. CASE Resolve
  BY <1>4 DEF ShapeInv, Emitting, Early, Resolve
<1>5. CASE ConvertSigned
  BY <1>5 DEF ShapeInv, Emitting, Early, ConvertSigned, padVars
<1>6. CASE ConvertUnsigned
  BY <1>6 DEF ShapeInv, Emitting, Early, ConvertUnsigned, textVars, padVars
<1>7. CASE ConvertString
  BY <1>7 DEF ShapeInv, Emitting, Early, TypeOK, ConvertString, padVars
<1>8. CASE Scan
  BY <1>8 DEF ShapeInv, Emitting, Early, TypeOK, Scan, padVars
<1>9. CASE ConvertChar
  BY <1>9, ShapeConvertChar
<1>10. CASE ConvertWriteback
  BY <1>10 DEF ShapeInv, Emitting, Early, ConvertWriteback, textVars, padVars
<1>11. CASE \E t \in FloatTexts : ConvertFloat(t)
  BY <1>11, DataAssumption DEF ShapeInv, Emitting, Early, ConvertFloat, padVars
<1>12. CASE Integer
  BY <1>12 DEF ShapeInv, Emitting, Early, TypeOK, FormatSpec, Integer, padVars
<1>13. CASE UtoaDigit
  BY <1>13 DEF ShapeInv, Emitting, Early, TypeOK, UtoaDigit, padVars
<1>14. CASE BinLen
  BY <1>14 DEF ShapeInv, Emitting, Early, TypeOK, BinLen, padVars
<1>15. CASE AltForm
  BY <1>15, ShapeAltForm
<1>16. CASE Layout
  BY <1>16, ShapeLayout
<1>17. CASE PutSign("early_sign", "early_prefix") \/ PutSign("sign", "prefix")
  BY <1>17 DEF ShapeInv, Emitting, Early, PutSign, padVars
<1>18. CASE Put0("early_prefix", "early_x", "padl") \/ Put0("prefix", "x", "zeros")
  BY <1>18 DEF ShapeInv, Emitting, Early, Put0, textVars, padVars
<1>19. CASE PutX("early_x", "padl") \/ PutX("x", "zeros")
  BY <1>19 DEF ShapeInv, Emitting, Early, PutX, padVars
<1>20. CASE PadField("padl", "sign") \/ PadField("padr", "tally")
  BY <1>20 DEF ShapeInv, Emitting, Early, PadField, textVars
<1>21. CASE PadPrec
  BY <1>21 DEF ShapeInv, Emitting, Early, PadPrec, textVars
<1>22. CASE PayloadString
  BY <1>22 DEF ShapeInv, Emitting, Early, PayloadString, textVars
<1>23. CASE PayloadBinary
  BY <1>23 DEF ShapeInv, Emitting, Early, TypeOK, PayloadBinary, padVars
<1>24. CASE PayloadReversed
  BY <1>24 DEF ShapeInv, Emitting, Early, TypeOK, PayloadReversed, padVars
<1>25. CASE Tally
  BY <1>25 DEF ShapeInv, Emitting, Early, Tally
<1>26. CASE Done \/ UNCHANGED vars
  BY <1>26 DEF ShapeInv, Emitting, Early, Done, vars, textVars, padVars
<1> QED
  BY <1>1, <1>2, <1>3, <1>4, <1>5, <1>6, <1>7, <1>8, <1>9, <1>10,
     <1>11, <1>12, <1>13, <1>14, <1>15, <1>16, <1>17, <1>18, <1>19, <1>20,
     <1>21, <1>22, <1>23, <1>24, <1>25, <1>26
  DEF Next, Fetch, Convert, Emit

-----------------------------------------------------------------------------
(* The count is preserved.                                                   *)

\* What is spent of one part is spent of the sum.
LEMMA Rest ==
  ASSUME NEW l \in Int, NEW m \in Int, NEW x \in Int, NEW y \in Int, NEW r \in Int,
         m + y = l + x
  PROVE  m + (r + y) = l + (r + x) /\ r + x \in Int /\ r + y \in Int
OBVIOUS

LEMMA CountLiteral == ASSUME  NEW c, TypeOK, CountInv, Literal(c) PROVE CountInv'
<1>1. pc = "fetch" /\ pc' = pc /\ Len(out') = Len(out) + 1 /\ npf_n' = IntAdd(npf_n, 1)
      /\ prec_pad' = prec_pad /\ field_pad' = field_pad
  BY DEF Literal, Put, TypeOK, padVars
<1>2. Len(out) \in Nat /\ npf_n \in Int
  BY DEF TypeOK
<1>3. Len(out') <= IntMax => npf_n' = Len(out')
  BY <1>1, <1>2, IntMaxNat DEF CountInv, IntAdd
<1> QED
  BY <1>1, <1>3 DEF CountInv, Measured, Emitting, Early

LEMMA CountTally == ASSUME TypeOK, CountInv, Tally PROVE CountInv'
<1>1. /\ pc = "tally" /\ pc' = "fetch" /\ npf_n' = IntAdd(npf_n, spec_len)
      /\ UNCHANGED <<out, prec_pad, field_pad>>
  BY DEF Tally, padVars
<1>2. /\ Len(out) \in Nat /\ job.at \in Nat /\ spec_len \in Int /\ npf_n \in Int
      /\ cbuf_len \in Int /\ i \in Nat /\ field_pad \in Int /\ prec_pad \in Int
  BY DEF TypeOK
<1>3. Len(out) = job.at + spec_len /\ spec_len >= 0 /\ (job.at <= IntMax => npf_n = job.at)
  <2>1. Len(out) + Owed = job.at + spec_len /\ spec_len >= 0
        /\ (job.at <= IntMax => npf_n = job.at)
    BY <1>1 DEF CountInv, Measured
  <2>2. Owed = 0
    BY <1>1, <1>2 DEF CountInv, Owed, SignOwed, PrefixOwed, PadOwed, BodyOwed, MaxOf
  <2> QED
    BY <1>2, <2>1, <2>2
<1>4. Len(out) <= IntMax => npf_n' = Len(out)
  BY <1>1, <1>2, <1>3, IntMaxNat DEF IntAdd
<1> QED
  BY <1>1, <1>4 DEF CountInv, Measured, Emitting, Early

LEMMA CountPutX ==
  ASSUME NEW at \in {"early_x", "x"}, NEW next \in {"padl", "zeros"}, TypeOK, ShapeInv, CountInv,
         PutX(at, next), at = "x" <=> next = "zeros"
  PROVE  CountInv'
<1>1. /\ pc = at /\ pc' = next /\ need_0x' = NUL /\ need_0x # NUL /\ Len(out') = Len(out) + 1
      /\ UNCHANGED <<fs, npf_n, cbuf_len, sign_c, prec_pad, field_pad, spec_len, i, job>>
  BY DEF PutX, Put, TypeOK, ShapeInv, padVars, ghosts
<1>2. /\ Len(out) \in Nat /\ job.at \in Nat /\ spec_len \in Int
      /\ cbuf_len \in Int /\ i \in Nat /\ field_pad \in Int /\ prec_pad \in Int
  BY DEF TypeOK
<1>3. PrefixOwed = 1 /\ PrefixOwed' = 0 /\ SignOwed' = SignOwed /\ SignOwed \in {0, 1}
  BY <1>1 DEF PrefixOwed, SignOwed
<1>4. BodyOwed' = BodyOwed /\ PadOwed' = PadOwed /\ BodyOwed \in Int /\ PadOwed \in Int
  BY <1>1, <1>2 DEF BodyOwed, PadOwed, MaxOf
<1>5. Owed' = Owed - 1 /\ Owed \in Int
  BY <1>3, <1>4 DEF Owed, SignOwed, PrefixOwed, PadOwed, BodyOwed, MaxOf
<1> QED
  BY <1>1, <1>2, <1>5 DEF CountInv, Measured, Emitting, Early

LEMMA CountPutSign ==
  ASSUME NEW at \in {"early_sign", "sign"}, NEW next \in {"early_prefix", "prefix"}, TypeOK, CountInv,
         PutSign(at, next), at = "sign" <=> next = "prefix"
  PROVE  CountInv'
<1>1. /\ pc = at /\ pc' = next /\ sign_c' = NUL
      /\ Len(out') = Len(out) + (IF sign_c = NUL THEN 0 ELSE 1)
      /\ UNCHANGED <<fs, npf_n, cbuf_len, need_0x, prec_pad, field_pad, spec_len, i, job>>
  BY DEF PutSign, Put, TypeOK, padVars, ghosts
<1>2. /\ Len(out) \in Nat /\ job.at \in Nat /\ spec_len \in Int
      /\ cbuf_len \in Int /\ i \in Nat /\ field_pad \in Int /\ prec_pad \in Int
  BY DEF TypeOK
<1>3. SignOwed = (IF sign_c = NUL THEN 0 ELSE 1) /\ SignOwed' = 0
      /\ PrefixOwed' = PrefixOwed /\ PrefixOwed \in {0, 1, 2}
  BY <1>1 DEF PrefixOwed, SignOwed
<1>4. BodyOwed' = BodyOwed /\ PadOwed' = PadOwed /\ BodyOwed \in Int /\ PadOwed \in Int
  BY <1>1, <1>2 DEF BodyOwed, PadOwed, MaxOf
<1>5. Owed' = Owed - (IF sign_c = NUL THEN 0 ELSE 1) /\ Owed \in Int
  BY <1>3, <1>4 DEF Owed, SignOwed, PrefixOwed, PadOwed, BodyOwed, MaxOf
<1> QED
  BY <1>1, <1>2, <1>5 DEF CountInv, Measured, Emitting, Early

LEMMA CountPut0 ==
  ASSUME NEW at \in {"early_prefix", "prefix"}, NEW next \in {"early_x", "x"},
         NEW skip \in {"padl", "zeros"}, TypeOK, CountInv, Put0(at, next, skip),
         at = "prefix" <=> next = "x", at = "prefix" <=> skip = "zeros"
  PROVE  CountInv'
<1>1. /\ pc = at /\ need_0x' = need_0x
      /\ \/ need_0x = NUL /\ pc' = skip /\ out' = out
         \/ need_0x # NUL /\ pc' = next /\ Len(out') = Len(out) + 1
      /\ UNCHANGED <<fs, npf_n, cbuf_len, sign_c, prec_pad, field_pad, spec_len, i, job>>
  BY DEF Put0, Put, TypeOK, textVars, padVars, ghosts
<1>2. /\ Len(out) \in Nat /\ job.at \in Nat /\ spec_len \in Int
      /\ cbuf_len \in Int /\ i \in Nat /\ field_pad \in Int /\ prec_pad \in Int
  BY DEF TypeOK
<1>3. /\ Len(out') + PrefixOwed' = Len(out) + PrefixOwed
      /\ PrefixOwed \in {0, 1, 2} /\ PrefixOwed' \in {0, 1, 2}
  BY <1>1, <1>2 DEF PrefixOwed
<1>4. /\ SignOwed' = SignOwed /\ SignOwed \in {0, 1}
      /\ BodyOwed' = BodyOwed /\ PadOwed' = PadOwed
      /\ BodyOwed \in Int /\ PadOwed \in Int
  BY <1>1, <1>2 DEF SignOwed, BodyOwed, PadOwed, MaxOf
<1> DEFINE rest == SignOwed + (PadOwed + BodyOwed)
<1>5. Owed = rest + PrefixOwed /\ Owed' = rest + PrefixOwed'
  BY <1>3, <1>4 DEF Owed
<1>6. rest \in Int
  BY <1>4
<1>7. Len(out') \in Int /\ Len(out) \in Int
  BY <1>1, <1>2
<1> HIDE DEF rest
<1>8. rest \in Int /\ PrefixOwed \in Int /\ PrefixOwed' \in Int
  BY <1>3, <1>6
<1>9. Len(out') + (rest + PrefixOwed') = Len(out) + (rest + PrefixOwed)
  BY <1>3, <1>7, <1>8, Rest
<1> QED
  BY <1>1, <1>2, <1>5, <1>9 DEF CountInv, Measured, Emitting, Early

LEMMA CountLayout == ASSUME TypeOK, ShapeInv, CountInv, Layout PROVE CountInv'
<1>1. /\ cbuf_len \in Nat /\ i = 0 /\ fs.prec \in Int /\ fs.field_width \in Int
      /\ sign_c' = sign_c /\ need_0x' = need_0x /\ cbuf_len' = cbuf_len /\ fs' = fs
      /\ i' = i /\ out' = out /\ npf_n' = npf_n /\ job' = job
      /\ pc = "layout" /\ pc' \in {"early_sign", "padl"}
  BY DEF Layout, ShapeInv, TypeOK, FormatSpec, textVars, ghosts
<1>2. PrecPad \in Nat /\ BodyLen \in Nat /\ (~UsePrecision => PrecPad = 0)
      /\ BodyLen = cbuf_len + (IF sign_c = NUL THEN 0 ELSE 1)
                     + (IF need_0x = NUL THEN 0 ELSE 2) + PrecPad
  BY <1>1 DEF PrecPad, BodyLen, MaxOf
<1>3. FieldPad \in Nat /\ (~UseFieldWidth => FieldPad = 0)
  BY <1>1, <1>2 DEF FieldPad, MaxOf
<1>4. /\ spec_len' = BodyLen + FieldPad
      /\ \/ prec_pad' = PrecPad /\ field_pad' = FieldPad
         \/ prec_pad' = PrecPad + FieldPad /\ field_pad' = 0 /\ UsePrecision
  BY DEF Layout
<1>5. Owed' = spec_len' /\ spec_len' >= 0
  BY <1>1, <1>2, <1>3, <1>4 DEF Owed, SignOwed, PrefixOwed, PadOwed, BodyOwed, MaxOf
<1>6. job.at = Len(out) /\ (job.at <= IntMax => npf_n = job.at) /\ Len(out) \in Nat
  BY <1>1 DEF CountInv, TypeOK, Measured, Emitting, Early
<1> QED
  BY <1>1, <1>2, <1>3, <1>4, <1>5, <1>6 DEF CountInv, Measured, Emitting, Early

LEMMA CountInteger == ASSUME TypeOK, CountInv, Integer PROVE CountInv'
<1>1. /\ pc = "integer" /\ pc' \in {"layout", "binlen", "utoa"}
      /\ UNCHANGED <<npf_n, prec_pad, field_pad, out, job>>
  BY DEF Integer, padVars, ghosts
<1> QED
  BY <1>1 DEF CountInv, Measured, Emitting, Early

LEMMA CountPadField ==
  ASSUME NEW at \in {"padl", "padr"}, NEW next \in {"sign", "tally"},
         at = "padr" <=> next = "tally",
         TypeOK, ShapeInv, CountInv, PadField(at, next)
  PROVE  CountInv'
<1>1. /\ pc = at /\ pc' \in {at, next} /\ field_pad' \in {field_pad, field_pad - 1}
      /\ UNCHANGED <<fs, npf_n, cbuf_len, sign_c, need_0x, prec_pad, spec_len, i, job>>
  BY DEF PadField, textVars, ghosts
<1>2. /\ Len(out) \in Nat /\ job.at \in Nat /\ spec_len \in Int
      /\ cbuf_len \in Int /\ i \in Nat /\ field_pad \in Int /\ prec_pad \in Int
  BY DEF TypeOK
<1>3. /\ ~UseFieldWidth => field_pad <= 0
      /\ Len(out) + Owed = job.at + spec_len
  BY <1>1 DEF CountInv, Measured, Emitting, Early
<1>4. \/ /\ field_pad > 0 /\ field_pad' = field_pad - 1 /\ pc' = at
         /\ Len(out') = Len(out) + 1
      \/ field_pad <= 0 /\ field_pad' \in {field_pad, field_pad - 1} /\ out' = out
      \/ at = "padl" /\ pc' = next /\ field_pad' = field_pad /\ out' = out
  BY <1>1, <1>2, <1>3 DEF PadField, Put, TypeOK
<1>5. /\ SignOwed' = SignOwed /\ SignOwed \in {0, 1}
      /\ PrefixOwed' = PrefixOwed /\ PrefixOwed \in {0, 1, 2}
      /\ BodyOwed' = BodyOwed /\ BodyOwed \in Int
  BY <1>1, <1>2 DEF SignOwed, PrefixOwed, BodyOwed, MaxOf
<1>6. Len(out') + PadOwed' = Len(out) + PadOwed /\ PadOwed \in Int /\ PadOwed' \in Int
  <2> DEFINE f == MaxOf(field_pad, 0)
             g == MaxOf(field_pad', 0)
             r == MaxOf(prec_pad, 0)
  <2>1. PadOwed = r + f /\ PadOwed' = r + g /\ f \in Int /\ g \in Int /\ r \in Int
    BY <1>1, <1>2 DEF PadOwed, MaxOf
  <2>2. Len(out') + g = Len(out) + f /\ Len(out') \in Int /\ Len(out) \in Int
    BY <1>2, <1>4 DEF MaxOf
  <2> HIDE DEF f, g, r
  <2> QED
    BY <2>1, <2>2, Rest
<1>7. Len(out') + Owed' = job'.at + spec_len' /\ Len(out') \in Nat
  BY <1>1, <1>2, <1>3, <1>4, <1>5, <1>6 DEF Owed
<1>8. pc' = "tally" => field_pad' <= 0
  BY <1>1, <1>2, <1>3, <1>4
<1>9. ~UseFieldWidth => field_pad' <= 0
  BY <1>2, <1>3, <1>4
<1> QED
  BY <1>1, <1>2, <1>7, <1>8, <1>9 DEF CountInv, Measured, Emitting, Early

\* A character of the payload leaves one fewer owed by the body.
LEMMA CountPayload ==
  ASSUME TypeOK, ShapeInv, CountInv, pc = "payload",
         PayloadString \/ PayloadBinary \/ PayloadReversed
  PROVE  CountInv'
<1>1. /\ pc' \in {"payload", "padr"}
      /\ UNCHANGED <<fs, npf_n, sign_c, need_0x, prec_pad, field_pad, spec_len, job>>
  BY DEF PayloadString, PayloadBinary, PayloadReversed, textVars, padVars, ghosts
<1>2. /\ Len(out) \in Nat /\ job.at \in Nat /\ spec_len \in Int
      /\ cbuf_len \in Int /\ i \in Nat /\ field_pad \in Int /\ prec_pad \in Int
  BY DEF TypeOK
<1>3. /\ sign_c = NUL /\ need_0x = NUL /\ prec_pad <= 0
      /\ fs.conv_spec = "STRING" => i <= cbuf_len
      /\ Len(out) + Owed = job.at + spec_len
  BY DEF CountInv, Measured, Emitting, Early
<1>4. CASE PayloadString
  <2>1. /\ fs.conv_spec = "STRING" /\ cbuf_len' = cbuf_len
        /\ \/ i < cbuf_len /\ i' = i + 1 /\ Len(out') = Len(out) + 1 /\ pc' = "payload"
           \/ i >= cbuf_len /\ i' = i /\ out' = out /\ pc' = "padr"
    BY <1>2, <1>4 DEF PayloadString, Put, TypeOK, textVars
  <2>2. Len(out') + BodyOwed' = Len(out) + BodyOwed /\ i' <= cbuf_len'
        /\ BodyOwed \in Int /\ BodyOwed' \in Int /\ Len(out') \in Nat
        /\ (pc' = "padr" => i' = cbuf_len')
    BY <1>1, <1>2, <1>3, <2>1 DEF BodyOwed
  <2>3. SignOwed' = 0 /\ SignOwed = 0 /\ PrefixOwed' = 0 /\ PrefixOwed = 0
        /\ PadOwed' = PadOwed /\ PadOwed \in Int
    BY <1>1, <1>2, <1>3 DEF SignOwed, PrefixOwed, PadOwed, MaxOf
  <2>4. Owed = PadOwed + BodyOwed /\ Owed' = PadOwed + BodyOwed'
    BY <2>2, <2>3 DEF Owed
  <2>5. Len(out') + (PadOwed + BodyOwed') = Len(out) + (PadOwed + BodyOwed)
    BY <1>2, <2>2, <2>3, Rest
  <2>6. job' = job /\ spec_len' = spec_len
    BY <1>1
  <2> QED
    BY <1>1, <1>2, <1>3, <2>1, <2>2, <2>4, <2>5, <2>6 DEF CountInv, Measured, Emitting, Early
<1>5. CASE PayloadBinary \/ PayloadReversed
  <2>1. /\ fs.conv_spec # "STRING"
        /\ \/ cbuf_len > 0 /\ cbuf_len' = cbuf_len - 1 /\ Len(out') = Len(out) + 1
              /\ pc' = "payload"
           \/ cbuf_len <= 0 /\ cbuf_len' \in {cbuf_len, cbuf_len - 1} /\ out' = out
    BY <1>2, <1>5 DEF PayloadBinary, PayloadReversed, Put, TypeOK
  <2>2. Len(out') + BodyOwed' = Len(out) + BodyOwed
        /\ BodyOwed \in Int /\ BodyOwed' \in Int /\ Len(out') \in Nat
        /\ (pc' = "padr" => cbuf_len' <= 0)
    BY <1>1, <1>2, <2>1 DEF BodyOwed, MaxOf
  <2>3. SignOwed' = 0 /\ SignOwed = 0 /\ PrefixOwed' = 0 /\ PrefixOwed = 0
        /\ PadOwed' = PadOwed /\ PadOwed \in Int
    BY <1>1, <1>2, <1>3 DEF SignOwed, PrefixOwed, PadOwed, MaxOf
  <2>4. Owed = PadOwed + BodyOwed /\ Owed' = PadOwed + BodyOwed'
    BY <2>2, <2>3 DEF Owed
  <2>5. Len(out') + (PadOwed + BodyOwed') = Len(out) + (PadOwed + BodyOwed)
    BY <1>2, <2>2, <2>3, Rest
  <2>6. job' = job /\ spec_len' = spec_len
    BY <1>1
  <2> QED
    BY <1>1, <1>2, <1>3, <2>1, <2>2, <2>4, <2>5, <2>6 DEF CountInv, Measured, Emitting, Early
<1> QED
  BY <1>4, <1>5

LEMMA CountStep == TypeOK /\ ShapeInv /\ CountInv /\ [Next]_vars => CountInv'
<1> SUFFICES ASSUME TypeOK, ShapeInv, CountInv, [Next]_vars PROVE CountInv'
  OBVIOUS
<1>1. CASE \E c \in Literals : Literal(c)
  BY <1>1, CountLiteral
<1>2. CASE \E s \in Specs : \E a \in ArgsOf[s] : Specification(s, a)
  BY <1>2 DEF CountInv, Measured, Emitting, Early, Specification, padVars
<1>3. CASE Return
  BY <1>3 DEF CountInv, Measured, Emitting, Early, Return, padVars
<1>4. CASE ResolveWidth
  BY <1>4 DEF CountInv, Measured, Emitting, Early, ResolveWidth, padVars, ghosts
<1>5. CASE ResolvePrec
  BY <1>5 DEF CountInv, Measured, Emitting, Early, ResolvePrec, padVars, ghosts
<1>6. CASE Resolve
  BY <1>6 DEF CountInv, Measured, Emitting, Early, Resolve, ghosts
<1>7. CASE ConvertSigned
  BY <1>7 DEF CountInv, Measured, Emitting, Early, ConvertSigned, padVars, ghosts
<1>8. CASE ConvertUnsigned
  BY <1>8 DEF CountInv, Measured, Emitting, Early, ConvertUnsigned, padVars, ghosts
<1>9. CASE ConvertString
  BY <1>9 DEF CountInv, Measured, Emitting, Early, ConvertString, padVars, ghosts
<1>10. CASE Scan
  BY <1>10 DEF CountInv, Measured, Emitting, Early, Scan, padVars, ghosts
<1>11. CASE ConvertChar
  BY <1>11 DEF CountInv, Measured, Emitting, Early, ConvertChar, padVars, ghosts
<1>12. CASE ConvertWriteback
  BY <1>12 DEF CountInv, Measured, Emitting, Early, ConvertWriteback, padVars
<1>13. CASE \E t \in FloatTexts : ConvertFloat(t)
  BY <1>13 DEF CountInv, Measured, Emitting, Early, ConvertFloat, padVars, ghosts
<1>14. CASE Integer
  BY <1>14, CountInteger
<1>15. CASE UtoaDigit
  BY <1>15 DEF CountInv, Measured, Emitting, Early, UtoaDigit, padVars, ghosts
<1>16. CASE BinLen
  BY <1>16 DEF CountInv, Measured, Emitting, Early, BinLen, padVars, ghosts
<1>17. CASE AltForm
  BY <1>17 DEF CountInv, Measured, Emitting, Early, AltForm, padVars, ghosts
<1>18. CASE Layout
  BY <1>18, CountLayout
<1>19. CASE PutSign("early_sign", "early_prefix") \/ PutSign("sign", "prefix")
  BY <1>19, CountPutSign
<1>20. CASE Put0("early_prefix", "early_x", "padl")
  BY <1>20, CountPut0
<1>21. CASE Put0("prefix", "x", "zeros")
  BY <1>21, CountPut0
<1>22. CASE PutX("early_x", "padl") \/ PutX("x", "zeros")
  BY <1>22, CountPutX
<1>23. CASE PadField("padl", "sign") \/ PadField("padr", "tally")
  BY <1>23, CountPadField
<1>24. CASE PadPrec
  BY <1>24 DEF TypeOK, CountInv, Measured, Emitting, Early, Owed, SignOwed, PrefixOwed, PadOwed, BodyOwed, MaxOf, PadPrec, Put, textVars, ghosts
<1>25. CASE PayloadString \/ PayloadBinary \/ PayloadReversed
  BY <1>25, CountPayload DEF PayloadString, PayloadBinary, PayloadReversed
<1>26. CASE Tally
  BY <1>26, CountTally
<1>27. CASE Done \/ UNCHANGED vars
  BY <1>27 DEF CountInv, Measured, Emitting, Early, Owed, SignOwed, PrefixOwed, PadOwed, BodyOwed, Done, vars, textVars, padVars, ghosts
<1> QED
  BY <1>1, <1>2, <1>3, <1>4, <1>5, <1>6, <1>7, <1>8, <1>9, <1>10,
     <1>11, <1>12, <1>13, <1>14, <1>15, <1>16, <1>17, <1>18, <1>19, <1>20,
     <1>21, <1>22, <1>23, <1>24, <1>25, <1>26, <1>27
  DEF Next, Fetch, Convert, Emit

-----------------------------------------------------------------------------
(* The theorems.                                                             *)

LEMMA TypeStep == TypeOK /\ ArgsInv /\ ShapeInv /\ [Next]_vars => TypeOK'
<1> SUFFICES ASSUME TypeOK, ArgsInv, ShapeInv, [Next]_vars PROVE TypeOK'
  OBVIOUS
<1>1. CASE Fetch
  BY <1>1, TypeLiteral, TypeSpecification DEF Fetch
<1>2. CASE Return
  BY <1>2, TypeReturn
<1>3. CASE ResolveWidth \/ ResolvePrec \/ Resolve
  BY <1>3, TypeResolveWidth, TypeResolvePrec, TypeResolve
<1>4. CASE Convert
  BY <1>4, TypeConvertSigned, TypeConvertUnsigned, TypeConvertString, TypeScan,
     TypeConvertChar, TypeConvertWriteback, TypeConvertFloat, TypeInteger,
     TypeUtoaDigit, TypeBinLen, TypeAltForm DEF Convert
<1>5. CASE Layout
  BY <1>5, TypeLayout
<1>6. CASE Emit
  BY <1>6, TypePutSign, TypePut0, TypePutX, TypePadField, TypePadPrec,
     TypePayloadString, TypePayloadBinary, TypePayloadReversed DEF Emit, Locations
<1>7. CASE Tally
  BY <1>7, TypeTally
<1>8. CASE Done \/ UNCHANGED vars
  BY <1>8 DEF TypeOK, Done, vars, numVars, textVars, padVars, ghosts
<1> QED
  BY <1>1, <1>2, <1>3, <1>4, <1>5, <1>6, <1>7, <1>8
  DEF Next

LEMMA IInvInit == Init => IInv
<1> SUFFICES ASSUME Init PROVE IInv
  OBVIOUS
<1>1. TypeOK
  BY TypeInit
<1>2. pc = "fetch" /\ args = <<>> /\ npf_n = 0 /\ Len(out) = 0
      /\ prec_pad = 0 /\ field_pad = 0
  BY DEF Init
<1>3. ArgsInv
  BY <1>2 DEF ArgsInv
<1>4. ShapeInv
  BY <1>2 DEF ShapeInv, Emitting, Early
<1>5. CountInv
  BY <1>2 DEF CountInv, Measured, Emitting, Early
<1> QED
  BY <1>1, <1>3, <1>4, <1>5 DEF IInv

\* IInv is inductive: it holds at first and every step keeps it.
THEOREM Invariant == Spec => []IInv
<1>1. Init => IInv
  BY IInvInit
<1>2. IInv /\ [Next]_vars => IInv'
  BY TypeStep, ArgsStep, ShapeStep, CountStep DEF IInv
<1> QED
  BY <1>1, <1>2, PTL DEF Spec

\* Every variable keeps its type in every build and data model; in particular each
\* character handed to putc is a character (1646-1647).
THEOREM TypeCorrect == Spec => []TypeOK
<1>1. IInv => TypeOK
  BY DEF IInv
<1> QED
  BY <1>1, Invariant, PTL

\* The value returned is the number of characters emitted, while that fits in int
\* (2003-2060).
THEOREM Counted == Spec => []CountExact
<1>1. IInv => CountExact
  BY DEF IInv, CountInv, CountExact
<1> QED
  BY <1>1, Invariant, PTL

\* Every va_arg names a type represented as the argument at that position, and no
\* item leaves an argument behind (1703-1722, 1850-1921).
THEOREM InStep == Spec => []VaListInStep
<1>1. IInv => VaListInStep
  <2> SUFFICES ASSUME IInv PROVE VaListInStep
    OBVIOUS
  <2>1. TypeOK /\ ArgsInv
    BY DEF IInv
  <2>2. pc \in {"fetch", "done"} => args = <<>>
    BY <2>1 DEF ArgsInv
  <2>3. ASSUME pc = "width", fs.field_width_opt = STAR PROVE NextArgIs("INT")
    <3>1. /\ job.spec \in Specs /\ job.args \in ArgsOf[job.spec]
          /\ job.spec.field_width_opt = STAR /\ ArgsFrom(0)
      BY <2>1, <2>3 DEF ArgsInv
    <3>2. /\ Len(job.args) = ArgCount(job.spec)
          /\ \A k \in 1..StarsOf(job.spec) : job.args[k].type = "INT"
      BY <3>1, ArgsAssumption
    <3>3. StarsOf(job.spec) >= 1 /\ ArgCount(job.spec) >= 1 /\ StarsOf(job.spec) \in Nat
          /\ ArgCount(job.spec) \in Nat
      BY <3>1 DEF StarsOf, ArgCount
    <3>4. Len(args) >= 1 /\ args[1] = job.args[1]
      BY <3>1, <3>2, <3>3 DEF ArgsFrom
    <3>5. args # <<>> /\ Head(args).type = "INT"
      BY <3>2, <3>3, <3>4
    <3> QED
      BY <3>5 DEF NextArgIs, SameRep
  <2>4. ASSUME pc = "prec", job.spec.prec_opt = STAR PROVE NextArgIs("INT")
    <3>1. /\ job.spec \in Specs /\ job.args \in ArgsOf[job.spec]
          /\ ArgsFrom(WidthStars)
      BY <2>1, <2>4 DEF ArgsInv
    <3>2. /\ Len(job.args) = ArgCount(job.spec)
          /\ \A k \in 1..StarsOf(job.spec) : job.args[k].type = "INT"
      BY <3>1, ArgsAssumption
    <3>3. /\ StarsOf(job.spec) = WidthStars + 1 /\ WidthStars \in {0, 1}
          /\ ArgCount(job.spec) >= WidthStars + 1 /\ ArgCount(job.spec) \in Nat
      BY <2>4 DEF StarsOf, ArgCount, WidthStars
    <3>4. Len(args) >= 1 /\ args[1] = job.args[1 + WidthStars]
      BY <3>1, <3>2, <3>3 DEF ArgsFrom
    <3>5. args # <<>> /\ Head(args).type = "INT"
      BY <3>2, <3>3, <3>4
    <3> QED
      BY <3>5 DEF NextArgIs, SameRep
  <2>5. ASSUME pc = "convert", fs.conv_spec # "PERCENT" PROVE NextArgIs(VaArgType)
    <3>1. /\ Len(args) = 1
          /\ args[1].type = PassType(fs.conv_spec, fs.length_modifier)
      BY <2>1, <2>5, ArgsAtConvert
    <3>2. /\ fs.conv_spec \in Convs /\ fs.length_modifier \in LenMods
          /\ ~UseSmall => fs.length_modifier \notin {"h", "hh"}
          /\ ~UseLarge => fs.length_modifier \notin {"ll", "j", "z", "t"}
      <4>1. fs.conv_spec \in Convs /\ fs.length_modifier \in LenMods
        BY <2>1 DEF TypeOK, FormatSpec
      <4>2. job.spec \in Specs /\ fs.length_modifier = job.spec.length_modifier
        BY <2>1, <2>5 DEF ArgsInv
      <4> QED
        BY <4>1, <4>2, FormatAssumption
    <3>3. SameRep(PassType(fs.conv_spec, fs.length_modifier), VaArgType)
      BY <2>5, <3>2, RepMatches DEF VaArgType
    <3>4. args # <<>> /\ Head(args) = args[1]
      BY <3>1
    <3> QED
      BY <3>1, <3>3, <3>4 DEF NextArgIs
  <2> QED
    BY <2>2, <2>3, <2>4, <2>5 DEF VaListInStep
<1> QED
  BY <1>1, Invariant, PTL
=============================================================================
