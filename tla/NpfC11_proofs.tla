---------------------------- MODULE NpfC11_proofs ----------------------------
(***************************************************************************)
(* What a call owes its caller, for every build, data model, format and    *)
(* argument list: the objects %n stores and the strings %s reads, then the *)
(* text of every conversion, then the sizes of the conversion buffer and   *)
(* of the lengths.                                                         *)
(*                                                                         *)
(* The text rests on three invariants.  SpecInv says what the fields of fs *)
(* are to the specification and its stars; TextInv what has been made of   *)
(* the value, up to the layout; FieldInv, during the emission, that what   *)
(* was handed to the callback and what is still to be handed make up the   *)
(* field.  SizeInv bounds what the conversions put in the buffer.          *)
(***************************************************************************)
EXTENDS NpfC11, NpfVpprintf_proofs, NpfInduction

USE DEF NONE, LITERAL, STAR, NUL, SPACE

\* Types as wide hold the same values.
LEMMA CastByWidth ==
  ASSUME NEW x \in Int, NEW t, NEW u, TMax[t] = TMax[u]
  PROVE  Cast(x, t) = Cast(x, u)
  BY DEF Cast

\* Zero is zero in every type.
LEMMA CastZero ==
  ASSUME NEW t \in IntTypes
  PROVE  Cast(0, t) = 0
<1>1. TMax[t] \in Nat
  BY TypesAssumption DEF IntTypes
<1> QED BY <1>1 DEF Cast

\* The object a build stores to is as wide as the one the length modifier names.
LEMMA WritebackAsWide ==
  ASSUME NEW s \in Specs, fs.length_modifier = s.length_modifier, s.length_modifier # "L"
  PROVE  TMax[WritebackType] = TMax[TypeOf(s.length_modifier)]
<1> DEFINE m == s.length_modifier
<1>1. m \in LenMods
  BY FormatAssumption DEF FormatSpec
<1>2. /\ ~UseSmall => m \notin {"h", "hh"}
      /\ ~UseLarge => m \notin {"ll", "j", "z", "t"}
  BY FormatAssumption
<1>3. CASE m = NONE
  <2>1. TypeOf(m) = "INT" /\ ExtractType(m) = "INT"
    BY <1>3 DEF TypeOf, ExtractType
  <2>2. WritebackType = ExtractType(m)
    BY <1>3 DEF WritebackType
  <2> QED BY <2>1, <2>2
<1>8. CASE m = "l"
  <2>1. WritebackType = "LONG" /\ TypeOf(m) = "LONG"
    BY <1>8 DEF WritebackType, TypeOf
  <2> QED BY <2>1
<1>7. CASE m \in {"h", "hh"}
  <2>1. WritebackType = TypeOf(m)
    BY <1>2, <1>7 DEF WritebackType, TypeOf
  <2> QED BY <2>1
<1>4. CASE m \in {"ll", "j"}
  BY <1>2, <1>4 DEF WritebackType, TypeOf, ExtractType
<1>5. CASE m = "z"
  BY <1>2, <1>5 DEF WritebackType, TypeOf, ExtractType, LM_Z
<1>6. CASE m = "t"
  BY <1>2, <1>6 DEF WritebackType, TypeOf, ExtractType, LM_T
<1> QED BY <1>1, <1>3, <1>4, <1>5, <1>6, <1>7, <1>8 DEF LenMods

\* 1814-1840: the store itself; the tally is the position while int holds it.
LEMMA StoreExact ==
  ASSUME IInv, WritebackExact, ConvertWriteback
  PROVE  WritebackExact'
<1>1. CASE fs.length_modifier = "L"
  BY <1>1, Zenon DEF ConvertWriteback, WritebackExact, Cast
<1>2. CASE fs.length_modifier # "L"
  <2>1. /\ pc = "convert"
        /\ wb' = [at |-> Len(out), mod |-> fs.length_modifier,
                  type |-> WritebackType, v |-> Cast(npf_n, WritebackType)]
    BY <1>2 DEF ConvertWriteback
  <2>2. /\ job.spec \in Specs /\ fs.length_modifier = job.spec.length_modifier
        /\ job.at = Len(out) /\ (job.at <= IntMax => npf_n = job.at) /\ npf_n \in Int
    BY <2>1 DEF IInv, ArgsInv, CountInv, TypeOK, Measured, Emitting, Early
  <2>3. TMax[WritebackType] = TMax[TypeOf(fs.length_modifier)]
    BY <1>2, <2>2, WritebackAsWide
  <2>4. Cast(npf_n, WritebackType) = Cast(npf_n, TypeOf(fs.length_modifier))
    BY <2>2, <2>3, CastByWidth
  <2>5. wb'.at = Len(out) /\ wb'.mod = fs.length_modifier /\ wb'.type = WritebackType
        /\ wb'.v = Cast(npf_n, WritebackType)
    BY <2>1
  <2>6. Len(out) <= IntMax => npf_n = Len(out)
    BY <2>2
  <2> QED BY <2>3, <2>4, <2>5, <2>6, Zenon DEF WritebackExact
<1> QED BY <1>1, <1>2

\* Nothing else stores.
LEMMA StoredOnce ==
  ASSUME Next, ~ConvertWriteback
  PROVE  wb' = wb
<1>1. CASE \E c \in Literals : Literal(c)
  BY <1>1, Zenon DEF Literal
<1>2. CASE \E s \in Specs : \E a \in ArgsOf[s] : Specification(s, a)
  BY <1>2, Zenon DEF Specification
<1>3. CASE Return \/ ResolveWidth \/ ResolvePrec \/ Resolve \/ Layout \/ Tally
  BY <1>3 DEF Return, ResolveWidth, ResolvePrec, Resolve, Layout, Tally, ghosts
<1>4. CASE \E t \in FloatTexts : ConvertFloat(t)
  BY <1>4, Zenon DEF ConvertFloat, ghosts
<1>5. CASE \/ ConvertSigned \/ ConvertUnsigned \/ ConvertString \/ Scan \/ ConvertChar
           \/ Integer \/ UtoaDigit \/ BinLen \/ AltForm
  BY <1>5 DEF ConvertSigned, ConvertUnsigned, ConvertString, Scan, ConvertChar,
     Integer, UtoaDigit, BinLen, AltForm, ghosts
<1>6. CASE Emit
  BY <1>6 DEF Emit, PutSign, Put0, PutX, PadField, PadPrec, PayloadString, PayloadBinary,
     PayloadReversed, ghosts
<1>7. CASE Done
  BY <1>7 DEF Done, vars, ghosts
<1> QED BY <1>1, <1>2, <1>3, <1>4, <1>5, <1>6, <1>7, Zenon DEF Next, Fetch, Convert

\* %n stores the number of characters emitted before it, in an object of the width
\* its length modifier names, in every data model (1814-1840).
THEOREM StoresExact == Spec => []WritebackExact
<1>1. Init => WritebackExact
  <2> SUFFICES ASSUME Init PROVE WritebackExact
    OBVIOUS
  <2>0. wb = [at |-> 0, mod |-> NONE, type |-> "INT", v |-> 0]
    BY DEF Init
  <2>1. wb.at = 0 /\ wb.type = "INT" /\ wb.v = 0 /\ wb.mod = NONE
    BY <2>0
  <2>3. TypeOf(NONE) = "INT"
    BY DEF TypeOf
  <2>2. Cast(0, "INT") = 0
    BY CastZero DEF IntTypes
  <2> QED BY <2>1, <2>2, <2>3 DEF WritebackExact
<1>2. IInv /\ WritebackExact /\ [Next]_vars => WritebackExact'
  <2> SUFFICES ASSUME IInv, WritebackExact, [Next]_vars PROVE WritebackExact'
    OBVIOUS
  <2>1. CASE ConvertWriteback
    BY <2>1, StoreExact
  <2>2. CASE Next /\ ~ConvertWriteback
    BY <2>2, StoredOnce, Zenon DEF WritebackExact, Cast
  <2>3. CASE UNCHANGED vars
    <3>1. wb' = wb
      BY <2>3 DEF vars, ghosts
    <3> QED BY <3>1, Zenon DEF WritebackExact, Cast
  <2> QED BY <2>1, <2>2, <2>3
<1> QED BY <1>1, <1>2, Invariant, PTL DEF Spec

-----------------------------------------------------------------------------
(* The string of %s.                                                         *)

\* What stops the loop at the end of characters that no NUL ends.
Stopped ==
  LastArg # 0 /\ ~Heap[LastArg].term =>
    /\ UsePrecision /\ fs.prec_opt # NONE
    /\ fs.prec <= Len(Heap[LastArg].chars)

\* The precision comes from the specification or its star, capped, and a default
\* does not replace it; then the loop has the string it belongs to.
StringInv ==
  /\ pc \in {"width", "prec"} => /\ fs.prec = job.spec.prec
                                  /\ fs.prec_opt = job.spec.prec_opt
  /\ pc \in {"default", "convert"} /\ fs.conv_spec = "STRING" => Stopped
  /\ pc = "scan" => LastArg # 0 /\ Stopped /\ cbuf = Heap[LastArg].chars

\* The value is the last argument, and the stars come before it.
LEMMA ValueIsLast ==
  ASSUME IInv, pc = "convert", fs.conv_spec # "PERCENT"
  PROVE  ArgVal = LastArg
<1>1. /\ job.spec \in Specs /\ job.args \in ArgsOf[job.spec]
      /\ job.spec.conv_spec # "PERCENT" /\ ArgsFrom(StarsOf(job.spec))
  BY DEF IInv, ArgsInv
<1>2. Len(job.args) = StarsOf(job.spec) + 1 /\ StarsOf(job.spec) \in Nat
  BY <1>1, ArgsAssumption DEF ArgCount, StarsOf
<1>3. Len(args) = 1 /\ args[1] = job.args[Len(job.args)]
  BY <1>1, <1>2 DEF ArgsFrom
<1> QED BY <1>3 DEF ArgVal, LastArg

\* 1703-1722: a star takes the argument after the width's, and the cap lowers it.
LEMMA PrecisionStops ==
  ASSUME IInv, StringInv, ResolvePrec, fs.conv_spec = "STRING"
  PROVE  Stopped'
<1>1. /\ job.spec \in Specs /\ job.args \in ArgsOf[job.spec]
      /\ job.spec.conv_spec = "STRING" /\ fs.prec_opt = job.spec.prec_opt
      /\ fs.prec = job.spec.prec /\ ArgsFrom(WidthStars) /\ job' = job
  BY DEF IInv, ArgsInv, StringInv, ResolvePrec, ghosts
<1>2. fs \in FormatSpec /\ FmtNumMax \in Nat /\ LastArg' = LastArg
  BY <1>1, CapNat DEF IInv, TypeOK, LastArg
<1> SUFFICES ASSUME LastArg # 0, ~Heap[LastArg].term
             PROVE  /\ UsePrecision /\ fs'.prec_opt # NONE
                    /\ fs'.prec <= Len(Heap[LastArg].chars)
  BY <1>2 DEF Stopped
<1>3. /\ UsePrecision /\ fs.prec_opt # NONE
      /\ GivenPrec(job.spec, job.args) \in 0..Len(Heap[LastArg].chars)
  BY <1>1, StringsAssumption DEF LastArg
<1> DEFINE n == Len(Heap[LastArg].chars)
<1>4. n \in Nat
  <2>1. LastArg \in DOMAIN Heap
    BY <1>1, ArgsAssumption DEF LastArg
  <2> QED BY <2>1, DataAssumption
<1> HIDE DEF n
<1>5. CASE fs.prec_opt = STAR
  <2>1. args # <<>> /\ args \in Seq(Arg) /\ StarsOf(job.spec) = WidthStars + 1
        /\ WidthStars \in Nat
    BY <1>1, <1>3, <1>5 DEF ResolvePrec, TakeArg, StarsOf, WidthStars, IInv, TypeOK
  <2>2. ArgVal = job.args[StarsOf(job.spec)].v
    BY <1>1, <2>1 DEF ArgVal, ArgsFrom
  <2>3. ArgVal \in 0..n
    BY <1>1, <1>3, <1>5, <2>2 DEF GivenPrec, n
  <2>4. fs' = [fs EXCEPT !.prec = MinOf(ArgVal, FmtNumMax),
                         !.prec_opt = IF ArgVal < 0 THEN NONE ELSE @]
    BY <1>3, <1>5 DEF ResolvePrec
  <2>5. fs'.prec = MinOf(ArgVal, FmtNumMax) /\ fs'.prec_opt = IF ArgVal < 0 THEN NONE ELSE STAR
    BY <1>2, <1>5, <2>4 DEF FormatSpec
  <2>6. MinOf(ArgVal, FmtNumMax) <= n /\ ~(ArgVal < 0)
    BY <1>2, <1>4, <2>3 DEF MinOf
  <2> QED BY <1>3, <2>5, <2>6 DEF n, STAR
<1>6. CASE fs.prec_opt # STAR
  <2>1. fs' = [fs EXCEPT !.prec = MinOf(@, FmtNumMax)]
    BY <1>3, <1>6 DEF ResolvePrec
  <2>2. fs'.prec = MinOf(fs.prec, FmtNumMax) /\ fs'.prec_opt = fs.prec_opt
    BY <1>2, <2>1 DEF FormatSpec
  <2>3. fs.prec \in 0..n
    BY <1>1, <1>3, <1>6 DEF GivenPrec, n
  <2>4. MinOf(fs.prec, FmtNumMax) <= n
    BY <1>2, <1>4, <2>3 DEF MinOf
  <2> QED BY <1>3, <2>2, <2>4 DEF n
<1> QED BY <1>5, <1>6

LEMMA StringStep == IInv /\ StringInv /\ [Next]_vars => StringInv'
<1> SUFFICES ASSUME IInv, StringInv, [Next]_vars PROVE StringInv'
  OBVIOUS
<1>1. CASE \E c \in Literals : Literal(c)
  <2>1. pc' = "fetch"
    BY <1>1 DEF Literal
  <2> QED BY <2>1 DEF StringInv
<1>2. CASE \E s \in Specs : \E a \in ArgsOf[s] : Specification(s, a)
  <2>1. PICK s \in Specs : \E a \in ArgsOf[s] : Specification(s, a)
    BY <1>2
  <2>2. s \in FormatSpec
    BY FormatAssumption
  <2>3. /\ pc' = "width" /\ job'.spec = s
        /\ fs' = [s EXCEPT !.field_width = IF s.field_width_opt = STAR THEN fs.field_width ELSE @]
    BY <2>1 DEF Specification
  <2>4. fs'.prec = s.prec /\ fs'.prec_opt = s.prec_opt
    BY <2>2, <2>3 DEF FormatSpec
  <2> QED BY <2>3, <2>4 DEF StringInv
<1>3. CASE ResolveWidth
  <2>1. pc = "width" /\ pc' = "prec" /\ job' = job /\ fs \in FormatSpec
    BY <1>3 DEF ResolveWidth, ghosts, IInv, TypeOK
  <2>2. fs'.prec = fs.prec /\ fs'.prec_opt = fs.prec_opt
    BY <1>3, <2>1 DEF ResolveWidth, FormatSpec
  <2> QED BY <2>1, <2>2 DEF StringInv
<1>4. CASE ResolvePrec
  <2>1. pc' = "default" /\ fs'.conv_spec = fs.conv_spec
    BY <1>4 DEF ResolvePrec, IInv, TypeOK, FormatSpec
  <2>2. fs.conv_spec = "STRING" => Stopped'
    BY <1>4, PrecisionStops
  <2> QED BY <2>1, <2>2 DEF StringInv
<1>5. CASE Resolve
  <2>1. pc = "default" /\ pc' = "convert" /\ job' = job /\ LastArg' = LastArg /\ fs \in FormatSpec
    BY <1>5 DEF Resolve, ghosts, IInv, TypeOK, LastArg
  <2>2. fs'.conv_spec = fs.conv_spec /\ fs'.prec_opt = fs.prec_opt
        /\ (fs.prec_opt # NONE => fs'.prec = fs.prec)
    BY <1>5, <2>1 DEF Resolve, FormatSpec
  <2>3. Stopped => Stopped'
    BY <2>1, <2>2 DEF Stopped
  <2> QED BY <2>1, <2>2, <2>3 DEF StringInv
<1>6. CASE ConvertString
  <2>1. /\ pc = "convert" /\ fs.conv_spec = "STRING" /\ fs' = fs /\ job' = job
        /\ pc' = (IF ArgVal = 0 THEN "layout" ELSE "scan")
        /\ cbuf' = (IF ArgVal = 0 THEN <<>> ELSE Heap[ArgVal].chars)
    BY <1>6 DEF ConvertString, ghosts
  <2>2. ArgVal = LastArg /\ LastArg' = LastArg
    BY <2>1, ValueIsLast DEF LastArg
  <2>3. Stopped'
    BY <2>1, <2>2 DEF StringInv, Stopped
  <2> QED BY <2>1, <2>2, <2>3 DEF StringInv
<1>7. CASE Scan
  <2>1. pc = "scan" /\ pc' \in {"scan", "layout"} /\ UNCHANGED <<fs, job, cbuf>> /\ LastArg' = LastArg
    BY <1>7 DEF Scan, ghosts, LastArg
  <2>2. Stopped'
    BY <2>1 DEF StringInv, Stopped
  <2> QED BY <2>1, <2>2 DEF StringInv
<1>8. CASE \/ ConvertSigned \/ ConvertUnsigned \/ ConvertChar \/ ConvertWriteback
           \/ Integer \/ UtoaDigit \/ BinLen \/ AltForm \/ Layout \/ Tally \/ Return
           \/ (\E t \in FloatTexts : ConvertFloat(t))
  <2>1. pc' \notin {"width", "prec", "default", "convert", "scan"}
    BY <1>8 DEF ConvertSigned, ConvertUnsigned, ConvertChar, ConvertWriteback, Integer,
       UtoaDigit, BinLen, AltForm, Layout, Tally, Return, ConvertFloat
  <2> QED BY <2>1 DEF StringInv
<1>9. CASE Emit
  <2>1. pc' \notin {"width", "prec", "default", "convert", "scan"}
    BY <1>9 DEF Emit, PutSign, Put0, PutX, PadField, PadPrec, PayloadString, PayloadBinary,
       PayloadReversed
  <2> QED BY <2>1 DEF StringInv
<1>10. CASE Done \/ UNCHANGED vars
  <2>1. UNCHANGED <<pc, fs, cbuf, job>> /\ LastArg' = LastArg
    BY <1>10 DEF Done, vars, textVars, ghosts, LastArg
  <2>2. Stopped' <=> Stopped
    BY <2>1 DEF Stopped
  <2> QED BY <2>1, <2>2 DEF StringInv
<1> QED BY <1>1, <1>2, <1>3, <1>4, <1>5, <1>6, <1>7, <1>8, <1>9, <1>10, Zenon
        DEF Next, Fetch, Convert

\* The loop over a string stops before it reads past its NUL, or past the characters
\* it has where a precision ends it, capped or from a star (1703-1722, 1965-1967).
THEOREM StringsInBounds == Spec => []StringReadInBounds
<1>1. Init => StringInv
  BY DEF Init, StringInv
<1>2. IInv /\ StringInv /\ [Next]_vars => StringInv'
  BY StringStep
<1>3. IInv /\ StringInv => StringReadInBounds
  <2> SUFFICES ASSUME IInv, StringInv, pc = "scan", ScanMore
               PROVE  cbuf_len < Len(cbuf) \/ (Heap[LastArg].term /\ cbuf_len = Len(cbuf))
    BY DEF StringReadInBounds
  <2>1. /\ fs.conv_spec = "STRING" /\ cbuf_len \in Int /\ Len(cbuf) \in Nat
        /\ fs.prec \in Int
    BY DEF IInv, ShapeInv, TypeOK, FormatSpec
  <2>2. cbuf_len <= Len(cbuf)
    BY <2>1 DEF IInv, ShapeInv
  <2>3. ~Heap[LastArg].term => fs.prec <= Len(cbuf) /\ cbuf_len < fs.prec
    BY DEF StringInv, Stopped, ScanMore
  <2> QED BY <2>1, <2>2, <2>3
<1> QED BY <1>1, <1>2, <1>3, Invariant, PTL DEF Spec

-----------------------------------------------------------------------------
(* Texts: copies of a character, numerals, reversed cells, bits.             *)

LEMMA TimesType ==
  ASSUME NEW c \in Chars, NEW n \in Int
  PROVE  /\ Times(c, n) \in Seq(Chars) /\ Len(Times(c, n)) = MaxOf(0, n)
         /\ \A k \in 1..n : Times(c, n)[k] = c
         /\ n <= 0 => Times(c, n) = <<>>
<1>1. CASE n <= 0
  <2>1. Times(c, n) = <<>>
    <3>1. 1..n = {}
      BY <1>1
    <3> QED BY <3>1 DEF Times
  <2> QED BY <1>1, <2>1 DEF MaxOf
<1>2. CASE n > 0
  <2>1. n \in Nat
    BY <1>2
  <2> QED BY <1>2, <2>1 DEF MaxOf, Times
<1> QED BY <1>1, <1>2

LEMMA TimesSum ==
  ASSUME NEW c \in Chars, NEW m \in Nat, NEW n \in Nat
  PROVE  Times(c, m + n) = Times(c, m) \o Times(c, n)
<1> DEFINE s == Times(c, m + n)
           t == Times(c, m) \o Times(c, n)
<1>1. /\ s \in Seq(Chars) /\ Len(s) = m + n /\ \A k \in 1..(m + n) : s[k] = c
  BY TimesType DEF MaxOf
<1>2. /\ t \in Seq(Chars) /\ Len(t) = m + n /\ \A k \in 1..(m + n) : t[k] = c
  <2>1. /\ Times(c, m) \in Seq(Chars) /\ Len(Times(c, m)) = m /\ \A k \in 1..m : Times(c, m)[k] = c
        /\ Times(c, n) \in Seq(Chars) /\ Len(Times(c, n)) = n /\ \A k \in 1..n : Times(c, n)[k] = c
    BY TimesType DEF MaxOf
  <2> DEFINE u == Times(c, m)
             v == Times(c, n)
  <2> HIDE DEF u, v
  <2>2. /\ u \o v \in Seq(Chars) /\ Len(u \o v) = m + n
        /\ \A k \in 1..(m + n) : (u \o v)[k] = IF k <= m THEN u[k] ELSE v[k - m]
    <3>1. u \in Seq(Chars) /\ v \in Seq(Chars) /\ Len(u) = m /\ Len(v) = n
      BY <2>1 DEF u, v
    <3> QED BY <3>1, ConcatProperties, Zenon
  <2>3. \A k \in 1..(m + n) : (u \o v)[k] = c
    BY <2>1, <2>2 DEF u, v
  <2> QED BY <2>2, <2>3 DEF u, v
<1> HIDE DEF s, t
<1>3. s = t
  BY <1>1, <1>2, SeqEqual
<1> QED BY <1>3 DEF s, t

LEMMA TimesFirst ==
  ASSUME NEW c \in Chars, NEW n \in Nat \ {0}
  PROVE  Times(c, n) = <<c>> \o Times(c, n - 1)
<1>1. Times(c, 1) = <<c>>
  BY DEF Times
<1>2. n - 1 \in Nat /\ 1 + (n - 1) = n /\ 1 \in Nat
  OBVIOUS
<1>3. Times(c, 1 + (n - 1)) = Times(c, 1) \o Times(c, n - 1)
  BY <1>2, TimesSum
<1> QED BY <1>1, <1>2, <1>3

LEMMA NumeralRec ==
  ASSUME NEW n \in Nat, NEW b \in {2, 8, 10, 16}, NEW adj
  PROVE  /\ Numeral(n, b, adj) \in Seq(Chars)
         /\ n < b => Numeral(n, b, adj) = <<DigitChar(n, adj)>>
         /\ n >= b => Numeral(n, b, adj) = Append(Numeral(n \div b, b, adj), DigitChar(n % b, adj))
<1> DEFINE T == Seq(Chars)
           E(g, m) == IF m < b THEN <<DigitChar(m, adj)>>
                      ELSE Append(g[m \div b], DigitChar(m % b, adj))
           Step == [g \in [Nat -> T] |-> [m \in Nat |-> E(g, m)]]
           F == CHOOSE f : f = [m \in Nat |-> E(f, m)]
<1>1. \A m \in Nat : m \div b \in Nat /\ m % b \in 0..15 /\ (m < b => m \in 0..15)
                     /\ (m >= b => m \div b \in 0..(m - 1))
  OBVIOUS
<1>2. \A m \in 0..15 : DigitChar(m, adj) \in Chars
  BY DigitIsChar
<1>3. ASSUME NEW g \in [Nat -> T], NEW m \in Nat PROVE E(g, m) \in T
  <2>1. CASE m < b
    <3>1. DigitChar(m, adj) \in Chars
      BY <1>1, <1>2, <2>1
    <3>2. <<DigitChar(m, adj)>> \in Seq(Chars)
      BY <3>1
    <3> QED BY <3>2, <2>1, Zenon
  <2>2. CASE m >= b
    <3>1. g[m \div b] \in Seq(Chars) /\ DigitChar(m % b, adj) \in Chars
      BY <1>1, <1>2
    <3> QED BY <3>1, <2>2, AppendProperties
  <2> QED BY <2>1, <2>2
<1>4. Recursive(Step, T)
  <2>1. Step \in [[Nat -> T] -> [Nat -> T]]
    <3> HIDE DEF E, T
    <3> QED BY <1>3
  <2>2. ASSUME NEW g \in [Nat -> T], NEW h \in [Nat -> T], NEW m \in Nat,
               \A k \in 0..(m - 1) : g[k] = h[k]
        PROVE  Step[g][m] = Step[h][m]
    <3>1. E(g, m) = E(h, m)
      <4>1. m < b \/ m >= b
        OBVIOUS
      <4>2. CASE m < b
        BY <4>2, Zenon
      <4>3. CASE m >= b
        <5>1. g[m \div b] = h[m \div b]
          BY <1>1, <2>2, <4>3
        <5> QED BY <5>1, Zenon
      <4> QED BY <4>1, <4>2, <4>3
    <3> HIDE DEF E, T
    <3> QED BY <3>1
  <2> HIDE DEF Step, T
  <2> QED BY <2>1, <2>2 DEF Recursive
<1>5. T # {}
  BY EmptySeq
<1>6. PICK f \in [Nat -> T] : f = Step[f]
  <2> HIDE DEF Step, T
  <2> QED BY <1>4, <1>5, Recursion
<1>7. f = [m \in Nat |-> E(f, m)]
  <2> HIDE DEF E, T
  <2> QED BY <1>6
<1>8. F = [m \in Nat |-> E(F, m)]
  <2> HIDE DEF E
  <2> QED BY <1>7
<1>9. \A m \in Nat : Numeral(m, b, adj) = F[m]
  BY DEF Numeral
<1>10. \A m \in Nat : F[m] = E(F, m)
  <2> HIDE DEF E, F
  <2> QED BY <1>8
<1>11. F \in [Nat -> T]
  <2> DEFINE G == {m \in Nat : F[m] \in T}
  <2>1. \A m \in Nat : 0..(m - 1) \subseteq G => m \in G
    <3> SUFFICES ASSUME NEW m \in Nat, 0..(m - 1) \subseteq G PROVE F[m] \in T
      OBVIOUS
    <3>1. F[m] = E(F, m)
      BY <1>10
    <3> HIDE DEF F
    <3>2. CASE m < b
      <4>1. DigitChar(m, adj) \in Chars
        BY <1>1, <1>2, <3>2
      <4>2. <<DigitChar(m, adj)>> \in Seq(Chars)
        BY <4>1
      <4> QED BY <4>2, <3>1, <3>2, Zenon
    <3>3. CASE m >= b
      <4>1. F[m \div b] \in Seq(Chars) /\ DigitChar(m % b, adj) \in Chars
        BY <1>1, <1>2, <3>3
      <4>2. Append(F[m \div b], DigitChar(m % b, adj)) \in Seq(Chars)
        BY <4>1, AppendProperties
      <4>3. ~(m < b)
        BY <3>3
      <4> QED BY <4>2, <4>3, <3>1, Zenon
    <3> QED BY <3>2, <3>3
  <2>2. Nat \subseteq G
    <3> HIDE DEF G
    <3> QED BY <2>1, StrongInduction
  <2> HIDE DEF F, E, T
  <2> QED BY <2>2, <1>8
<1> HIDE DEF F
<1>12. n \div b \in Nat /\ Numeral(n, b, adj) = F[n] /\ F[n] = E(F, n)
  BY <1>1, <1>9, <1>10
<1>13. Numeral(n \div b, b, adj) = F[n \div b]
  BY <1>9, <1>12
<1>14. n >= b => ~(n < b)
  OBVIOUS
<1>15. Numeral(n, b, adj) \in Seq(Chars)
  BY <1>11, <1>12
<1> QED BY <1>12, <1>13, <1>14, <1>15, Zenon

\* A set with one element more has twice the subsets.
LEMMA PowDoubles == ASSUME NEW k \in Nat PROVE 2 ^ (k + 1) = 2 * 2 ^ k
<1> DEFINE A == SUBSET (1..k)
           B == {s \cup {k + 1} : s \in A}
<1>1. /\ IsFiniteSet(1..k) /\ Cardinality(1..k) = k
      /\ IsFiniteSet(1..(k + 1)) /\ Cardinality(1..(k + 1)) = k + 1
  BY FS_Interval
<1>2. /\ IsFiniteSet(A) /\ Cardinality(A) = 2 ^ k
      /\ Cardinality(SUBSET (1..(k + 1))) = 2 ^ (k + 1)
  BY <1>1, FS_SUBSET
<1>3. IsFiniteSet(B) /\ Cardinality(B) = Cardinality(A)
  <2> DEFINE f == [s \in A |-> s \cup {k + 1}]
  <2>1. f \in Bijection(A, B)
    <3>1. f \in [A -> B] /\ \A t \in B : \E s \in A : f[s] = t
      OBVIOUS
    <3>2. \A s, t \in A : f[s] = f[t] => s = t
      <4> SUFFICES ASSUME NEW s \in A, NEW t \in A, s \cup {k + 1} = t \cup {k + 1} PROVE s = t
        OBVIOUS
      <4>1. k + 1 \notin s /\ k + 1 \notin t
        OBVIOUS
      <4> QED BY <4>1
    <3> HIDE DEF f, A, B
    <3> QED BY <3>1, <3>2 DEF Bijection, Injection, Surjection, IsInjective
  <2>2. ExistsBijection(A, B)
    <3> HIDE DEF f, A, B
    <3> QED BY <2>1 DEF ExistsBijection
  <2> HIDE DEF A, B
  <2> QED BY <2>2, <1>2, FS_Bijection
<1>4. SUBSET (1..(k + 1)) = A \cup B
  <2>1. ASSUME NEW s \in SUBSET (1..(k + 1)) PROVE s \in A \cup B
    <3>1. CASE k + 1 \in s
      <4>1. s \ {k + 1} \in A /\ s = (s \ {k + 1}) \cup {k + 1}
        BY <3>1
      <4> QED BY <4>1
    <3>2. CASE k + 1 \notin s
      BY <3>2
    <3> QED BY <3>1, <3>2
  <2>2. ASSUME NEW s \in A \cup B PROVE s \in SUBSET (1..(k + 1))
    OBVIOUS
  <2> QED BY <2>1, <2>2
<1>5. A \cap B = {}
  OBVIOUS
<1>6. Cardinality(A \cup B) = Cardinality(A) + Cardinality(B) - Cardinality(A \cap B)
  <2> HIDE DEF A, B
  <2> QED BY <1>2, <1>3, FS_Union
<1>7. Cardinality(A \cap B) = 0
  BY <1>5, FS_EmptySet
<1> HIDE DEF A, B
<1>8. Cardinality(A) \in Nat
  BY <1>2, FS_CardinalityType
<1>9. Cardinality(A \cup B) = Cardinality(A) + Cardinality(A) - 0
  BY <1>3, <1>6, <1>7
<1>10. Cardinality(A \cup B) = 2 ^ (k + 1)
  BY <1>2, <1>4
<1>11. Cardinality(A) + Cardinality(A) - 0 = 2 * Cardinality(A)
  BY <1>8
<1> QED BY <1>2, <1>9, <1>10, <1>11

\* The text of a number and the text left of it once its first character is taken.
LEMMA FirstThenRest ==
  ASSUME NEW s \in Seq(Chars), NEW t \in Seq(Chars), NEW c \in Chars,
         Len(s) = Len(t) + 1, s[1] = c, \A k \in 1..Len(t) : s[k + 1] = t[k]
  PROVE  s = <<c>> \o t
<1> DEFINE u == <<c>>
           v == u \o t
<1>1. u \in Seq(Chars) /\ Len(u) = 1 /\ u[1] = c
  OBVIOUS
<1> HIDE DEF u
<1>2. /\ v \in Seq(Chars) /\ Len(v) = Len(t) + 1
      /\ \A k \in 1..(Len(t) + 1) : v[k] = IF k <= 1 THEN u[k] ELSE t[k - 1]
  <2>1. u \in Seq(Chars) /\ t \in Seq(Chars) /\ Len(u) + Len(t) = Len(t) + 1
    BY <1>1
  <2>2. /\ v \in Seq(Chars) /\ Len(v) = Len(u) + Len(t)
        /\ \A k \in 1..(Len(u) + Len(t)) : v[k] = IF k <= Len(u) THEN u[k] ELSE t[k - Len(u)]
    BY <2>1, ConcatProperties, Zenon
  <2> HIDE DEF v
  <2> QED BY <1>1, <2>1, <2>2, Zenon
<1> HIDE DEF v
<1>3. \A k \in 1..Len(s) : s[k] = v[k]
  <2> SUFFICES ASSUME NEW k \in 1..Len(s) PROVE s[k] = v[k]
    OBVIOUS
  <2>0. Len(t) \in Nat
    OBVIOUS
  <2>1. CASE k = 1
    BY <1>1, <1>2, <2>0, <2>1
  <2>2. CASE k # 1
    <3>1. k - 1 \in 1..Len(t) /\ (k - 1) + 1 = k /\ ~(k <= 1) /\ k \in 1..(Len(t) + 1)
      BY <2>0, <2>2
    <3>2. s[k] = t[k - 1]
      BY <3>1
    <3>3. v[k] = t[k - 1]
      BY <1>2, <3>1
    <3> QED BY <3>2, <3>3
  <2> QED BY <2>1, <2>2
<1>4. s = v
  BY <1>2, <1>3, SeqEqual
<1> QED BY <1>4 DEF v, u

LEMMA One == ASSUME NEW c \in Chars PROVE <<c>> \in Seq(Chars)
  OBVIOUS

\* A character in front of a text in front of another.
LEMMA ConsText ==
  ASSUME NEW c \in Chars, NEW s \in Seq(Chars), NEW t \in Seq(Chars)
  PROVE  /\ <<c>> \o s \in Seq(Chars)
         /\ (<<c>> \o s) \o t = <<c>> \o (s \o t)
<1>1. <<c>> \in Seq(Chars)
  BY One
<1> QED BY <1>1, ConcatAssociative, ConcatProperties

LEMMA Nil ==
  ASSUME NEW s \in Seq(Chars)
  PROVE  <<>> \o s = s /\ s \o <<>> = s
  BY ConcatEmptySeq

LEMMA Joined ==
  ASSUME NEW s \in Seq(Chars), NEW t \in Seq(Chars)
  PROVE  s \o t \in Seq(Chars) /\ Len(s \o t) = Len(s) + Len(t)
  BY ConcatProperties

\* What has been handed over when one character more has been.
LEMMA Handed ==
  ASSUME NEW s \in Seq(Chars), NEW at \in Nat, at <= Len(s), NEW c \in Chars, NEW r \in Seq(Chars)
  PROVE  SubSeq(Append(s, c), at + 1, Len(s) + 1) \o r = SubSeq(s, at + 1, Len(s)) \o (<<c>> \o r)
<1> DEFINE a == Append(s, c)
           n == Len(s)
<1>1. /\ a \in Seq(Chars) /\ n \in Nat /\ Len(a) = n + 1
      /\ \A k \in 1..n : a[k] = s[k]
      /\ a[n + 1] = c
  BY AppendProperties
<1> HIDE DEF a, n
<1>2. SubSeq(a, at + 1, n + 1) = SubSeq(a, at + 1, n) \o <<c>>
  <2>1. at + 1 \in 1..Len(a) /\ n + 1 \in (at + 1)..Len(a) /\ (n + 1) - 1 = n
    BY <1>1 DEF n
  <2> QED BY <1>1, <2>1, SubSeqRecursiveSecond
<1>3. SubSeq(a, at + 1, n) = SubSeq(s, at + 1, n) /\ SubSeq(s, at + 1, n) \in Seq(Chars)
  <2> DEFINE x == SubSeq(a, at + 1, n)
             y == SubSeq(s, at + 1, n)
  <2>0. at + 1 \in Int /\ n \in Int
    BY <1>1
  <2>1. \A k \in (at + 1)..n : a[k] = s[k] /\ a[k] \in Chars /\ s[k] \in Chars
    <3> SUFFICES ASSUME NEW k \in (at + 1)..n PROVE a[k] = s[k] /\ s[k] \in Chars
      OBVIOUS
    <3>1. k \in 1..n
      BY <1>1
    <3> QED BY <1>1, <3>1 DEF n
  <2>2. /\ x \in Seq(Chars) /\ Len(x) = IF at + 1 <= n THEN n - (at + 1) + 1 ELSE 0
        /\ \A k \in 1..(n - (at + 1) + 1) : x[k] = a[at + 1 + k - 1]
    BY <2>0, <2>1, SubSeqProperties
  <2>3. /\ y \in Seq(Chars) /\ Len(y) = IF at + 1 <= n THEN n - (at + 1) + 1 ELSE 0
        /\ \A k \in 1..(n - (at + 1) + 1) : y[k] = s[at + 1 + k - 1]
    BY <2>0, <2>1, SubSeqProperties
  <2> HIDE DEF x, y
  <2>4. \A k \in 1..Len(x) : x[k] = y[k]
    <3> SUFFICES ASSUME NEW k \in 1..Len(x) PROVE x[k] = y[k]
      OBVIOUS
    <3>1. k \in 1..(n - (at + 1) + 1) /\ at + 1 + k - 1 \in (at + 1)..n
      BY <1>1, <2>2
    <3> QED BY <2>1, <2>2, <2>3, <3>1
  <2>5. x = y
    BY <2>2, <2>3, <2>4, SeqEqual
  <2> QED BY <2>3, <2>5 DEF x, y
<1>4. (SubSeq(s, at + 1, n) \o <<c>>) \o r = SubSeq(s, at + 1, n) \o (<<c>> \o r)
  <2> DEFINE x == SubSeq(s, at + 1, n)
  <2>1. x \in Seq(Chars) /\ <<c>> \in Seq(Chars)
    BY <1>3, One
  <2> HIDE DEF x
  <2>2. (x \o <<c>>) \o r = x \o (<<c>> \o r)
    BY <2>1, ConcatAssociative
  <2> QED BY <2>2 DEF x
<1> QED BY <1>2, <1>3, <1>4, Zenon DEF a, n

LEMMA Grouped ==
  ASSUME NEW s \in Seq(Chars), NEW t \in Seq(Chars), NEW u \in Seq(Chars)
  PROVE  (s \o t) \o u = s \o (t \o u)
  BY ConcatAssociative

\* The characters of a sequence from the n-th to the first.
Mirror(s, n) == [k \in 1..MaxOf(0, n) |-> s[n - k + 1]]

LEMMA MirrorType ==
  ASSUME NEW s \in Seq(Chars), NEW n \in Int, n <= Len(s)
  PROVE  /\ Mirror(s, n) \in Seq(Chars) /\ Len(Mirror(s, n)) = MaxOf(0, n)
         /\ \A k \in 1..n : Mirror(s, n)[k] = s[n - k + 1]
         /\ n <= 0 => Mirror(s, n) = <<>>
<1>1. CASE n <= 0
  <2>1. 1..n = {} /\ 1..MaxOf(0, n) = {}
    BY <1>1 DEF MaxOf
  <2>2. Mirror(s, n) = <<>>
    BY <2>1 DEF Mirror
  <2> QED BY <1>1, <2>1, <2>2 DEF MaxOf
<1>2. CASE n > 0
  <2>1. MaxOf(0, n) = n /\ n \in Nat
    BY <1>2 DEF MaxOf
  <2>2. \A k \in 1..n : s[n - k + 1] \in Chars
    <3> SUFFICES ASSUME NEW k \in 1..n PROVE s[n - k + 1] \in Chars
      OBVIOUS
    <3>1. n - k + 1 \in 1..Len(s)
      BY <2>1
    <3> QED BY <3>1
  <2> QED BY <1>2, <2>1, <2>2 DEF Mirror
<1> QED BY <1>1, <1>2

LEMMA MirrorFirst ==
  ASSUME NEW s \in Seq(Chars), NEW n \in 1..Len(s)
  PROVE  Mirror(s, n) = <<s[n]>> \o Mirror(s, n - 1)
<1> DEFINE a == Mirror(s, n)
           t == Mirror(s, n - 1)
<1>1. n \in Nat /\ n - 1 \in Nat /\ n - 1 <= Len(s) /\ n <= Len(s) /\ s[n] \in Chars
  OBVIOUS
<1>2. /\ a \in Seq(Chars) /\ Len(a) = n /\ \A k \in 1..n : a[k] = s[n - k + 1]
  BY <1>1, MirrorType DEF MaxOf
<1>3. /\ t \in Seq(Chars) /\ Len(t) = n - 1 /\ \A k \in 1..(n - 1) : t[k] = s[(n - 1) - k + 1]
  <2>1. n - 1 \in Int /\ MaxOf(0, n - 1) = n - 1
    BY <1>1 DEF MaxOf
  <2> QED BY <1>1, <2>1, MirrorType
<1> HIDE DEF a, t
<1>4. a[1] = s[n]
  <2>1. n - 1 + 1 = n /\ 1 \in 1..n
    OBVIOUS
  <2> QED BY <1>2, <2>1
<1>5. \A k \in 1..Len(t) : a[k + 1] = t[k]
  <2> SUFFICES ASSUME NEW k \in 1..(n - 1) PROVE a[k + 1] = t[k]
    BY <1>3
  <2>1. k + 1 \in 1..n /\ n - (k + 1) + 1 = (n - 1) - k + 1
    OBVIOUS
  <2> QED BY <1>2, <1>3, <2>1
<1>6. Len(a) = Len(t) + 1
  BY <1>2, <1>3
<1>7. a = <<s[n]>> \o t
  BY <1>1, <1>2, <1>3, <1>4, <1>5, <1>6, FirstThenRest
<1> QED BY <1>7 DEF a, t

\* What is appended comes first in the mirror.
LEMMA MirrorAppend ==
  ASSUME NEW s \in Seq(Chars), NEW c \in Chars
  PROVE  Mirror(Append(s, c), Len(s) + 1) = <<c>> \o Mirror(s, Len(s))
<1> DEFINE a == Append(s, c)
           n == Len(s)
<1>1. /\ a \in Seq(Chars) /\ Len(a) = n + 1 /\ a[n + 1] = c /\ n \in Nat
      /\ \A k \in 1..n : a[k] = s[k]
  BY AppendProperties
<1> HIDE DEF a
<1>2. n + 1 \in 1..Len(a) /\ (n + 1) - 1 = n
  BY <1>1
<1>3. Mirror(a, n + 1) = <<c>> \o Mirror(a, n)
  BY <1>1, <1>2, MirrorFirst
<1>4. Mirror(a, n) = Mirror(s, n)
  <2>1. \A k \in 1..MaxOf(0, n) : a[n - k + 1] = s[n - k + 1]
    <3> SUFFICES ASSUME NEW k \in 1..MaxOf(0, n) PROVE a[n - k + 1] = s[n - k + 1]
      OBVIOUS
    <3>1. n - k + 1 \in 1..n
      BY <1>1 DEF MaxOf
    <3> QED BY <1>1, <3>1
  <2> QED BY <2>1 DEF Mirror
<1> QED BY <1>3, <1>4 DEF a

LEMMA MirrorAll ==
  ASSUME NEW s \in Seq(Chars)
  PROVE  Mirror(s, Len(s)) = Reverse(s)
<1>1. MaxOf(0, Len(s)) = Len(s)
  BY DEF MaxOf
<1> QED BY <1>1 DEF Mirror, Reverse

\* The low bits of n, the highest of them first.
Bits(n, len) == [k \in 1..MaxOf(0, len) |-> DigitChar((n \div 2 ^ (len - k)) % 2, 0)]

LEMMA BitIsDigit ==
  ASSUME NEW n \in Nat, NEW k \in Nat
  PROVE  (n \div 2 ^ k) % 2 \in 0..1 /\ DigitChar((n \div 2 ^ k) % 2, 0) \in Chars
<1>1. 2 ^ k \in Nat \ {0}
  BY PowNat
<1> DEFINE p == 2 ^ k
           d == (n \div p) % 2
<1>2. d \in 0..1
  <2> HIDE DEF p
  <2>1. p \in Nat \ {0}
    BY <1>1 DEF p
  <2> QED BY <2>1
<1> HIDE DEF d
<1>3. DigitChar(d, 0) \in Chars
  <2>1. d \in 0..15
    BY <1>2
  <2> QED BY <2>1, DigitIsChar
<1> QED BY <1>2, <1>3 DEF d

LEMMA BitsType ==
  ASSUME NEW n \in Nat, NEW len \in Int
  PROVE  /\ Bits(n, len) \in Seq(Chars) /\ Len(Bits(n, len)) = MaxOf(0, len)
         /\ \A k \in 1..len : Bits(n, len)[k] = DigitChar((n \div 2 ^ (len - k)) % 2, 0)
         /\ len <= 0 => Bits(n, len) = <<>>
<1>1. CASE len <= 0
  <2>1. 1..len = {} /\ 1..MaxOf(0, len) = {}
    BY <1>1 DEF MaxOf
  <2>2. Bits(n, len) = <<>>
    BY <2>1 DEF Bits
  <2> QED BY <1>1, <2>1, <2>2 DEF MaxOf
<1>2. CASE len > 0
  <2>1. MaxOf(0, len) = len /\ len \in Nat
    BY <1>2 DEF MaxOf
  <2> DEFINE f(k) == DigitChar((n \div 2 ^ (len - k)) % 2, 0)
  <2>2. \A k \in 1..len : f(k) \in Chars
    <3> SUFFICES ASSUME NEW k \in 1..len PROVE f(k) \in Chars
      OBVIOUS
    <3>1. len - k \in Nat
      OBVIOUS
    <3> QED BY <3>1, BitIsDigit
  <2>3. Bits(n, len) = [k \in 1..len |-> f(k)]
    BY <2>1 DEF Bits
  <2> HIDE DEF f
  <2>4. Bits(n, len) \in Seq(Chars) /\ Len(Bits(n, len)) = len
        /\ \A k \in 1..len : Bits(n, len)[k] = f(k)
    BY <2>1, <2>2, <2>3
  <2> QED BY <1>2, <2>1, <2>4 DEF f
<1> QED BY <1>1, <1>2

LEMMA BitsFirst ==
  ASSUME NEW n \in Nat, NEW len \in Nat \ {0}
  PROVE  Bits(n, len) = <<DigitChar((n \div 2 ^ (len - 1)) % 2, 0)>> \o Bits(n, len - 1)
<1> DEFINE f(k) == DigitChar((n \div 2 ^ k) % 2, 0)
           a == Bits(n, len)
           t == Bits(n, len - 1)
<1>0. len - 1 \in Nat /\ MaxOf(0, len) = len /\ MaxOf(0, len - 1) = len - 1
  BY DEF MaxOf
<1>1. f(len - 1) \in Chars
  BY <1>0, BitIsDigit
<1>2. a \in Seq(Chars) /\ Len(a) = len /\ \A k \in 1..len : a[k] = f(len - k)
  <2>0. len \in Int
    OBVIOUS
  <2>1. a \in Seq(Chars) /\ Len(a) = MaxOf(0, len)
        /\ \A k \in 1..len : a[k] = DigitChar((n \div 2 ^ (len - k)) % 2, 0)
    BY <2>0, BitsType, Zenon
  <2> HIDE DEF a
  <2> QED BY <1>0, <2>1, Zenon
<1>3. t \in Seq(Chars) /\ Len(t) = len - 1 /\ \A k \in 1..(len - 1) : t[k] = f((len - 1) - k)
  <2>0. len - 1 \in Int
    OBVIOUS
  <2>1. t \in Seq(Chars) /\ Len(t) = MaxOf(0, len - 1)
        /\ \A k \in 1..(len - 1) : t[k] = DigitChar((n \div 2 ^ ((len - 1) - k)) % 2, 0)
    BY <2>0, BitsType, Zenon
  <2> HIDE DEF a, t
  <2> QED BY <1>0, <2>1, Zenon
<1> HIDE DEF a, t, f
<1>4. a[1] = f(len - 1)
  BY <1>2
<1>5. \A k \in 1..Len(t) : a[k + 1] = t[k]
  <2> SUFFICES ASSUME NEW k \in 1..(len - 1) PROVE a[k + 1] = t[k]
    BY <1>3
  <2>1. k + 1 \in 1..len /\ len - (k + 1) = (len - 1) - k
    OBVIOUS
  <2> QED BY <1>2, <1>3, <2>1
<1>6. a = <<f(len - 1)>> \o t
  <2>1. Len(a) = Len(t) + 1
    BY <1>2, <1>3
  <2> QED BY <1>1, <1>2, <1>3, <1>4, <1>5, <2>1, FirstThenRest
<1> QED BY <1>6 DEF a, t, f

-----------------------------------------------------------------------------
(* The value of an argument.                                                 *)

\* A type holds the values between its bounds as they are.
LEMMA CastFits ==
  ASSUME NEW t \in IntTypes \cup {"PTR"}, NEW x \in Int, -(TMax[t] + 1) <= x, x <= TMax[t]
  PROVE  Cast(x, t) = x
<1> DEFINE m == TMax[t] + 1
           d == 2 * m
<1>1. TMax[t] \in Nat
  BY TypesAssumption
<1>2. m \in Nat \ {0} /\ -m <= x /\ x < m /\ d = 2 * m
  BY <1>1
<1>3. Cast(x, t) = ((x + m) % d) - m
  BY DEF Cast
<1> HIDE DEF m, d
<1>4. x + m \in Nat /\ x + m < d /\ d \in Nat \ {0}
  BY <1>2
<1>5. (x + m) % d = x + m
  BY <1>4, FitsBelow
<1> QED BY <1>2, <1>3, <1>5

LEMMA UCastFits ==
  ASSUME NEW t \in IntTypes \cup {"PTR"}, NEW x \in Nat, x <= 2 * TMax[t] + 1
  PROVE  UCast(x, t) = x
<1> DEFINE d == 2 * (TMax[t] + 1)
<1>1. TMax[t] \in Nat
  BY TypesAssumption
<1>2. d \in Nat \ {0} /\ x < d
  BY <1>1
<1>3. UCast(x, t) = x % d
  BY DEF UCast
<1> HIDE DEF d
<1> QED BY <1>2, <1>3, FitsBelow

\* What a cast gives is between the type's bounds.
LEMMA CastBounds ==
  ASSUME NEW t \in IntTypes, NEW x \in Int
  PROVE  Cast(x, t) \in Int /\ -(TMax[t] + 1) <= Cast(x, t) /\ Cast(x, t) <= TMax[t]
<1> DEFINE m == TMax[t] + 1
           d == 2 * m
<1>1. TMax[t] \in Nat
  BY TypesAssumption
<1>2. m \in Nat \ {0} /\ d = 2 * m /\ d \in Nat \ {0} /\ m = TMax[t] + 1
  BY <1>1
<1>3. Cast(x, t) = ((x + m) % d) - m
  BY DEF Cast
<1> HIDE DEF m, d
<1>4. (x + m) % d \in Nat /\ (x + m) % d < d
  BY <1>2, Division
<1> QED BY <1>1, <1>2, <1>3, <1>4

LEMMA UCastBounds ==
  ASSUME NEW t \in IntTypes, NEW x \in Int
  PROVE  UCast(x, t) \in Nat /\ UCast(x, t) <= 2 * TMax[t] + 1
<1> DEFINE d == 2 * (TMax[t] + 1)
<1>1. TMax[t] \in Nat
  BY TypesAssumption
<1>2. d \in Nat \ {0} /\ d = 2 * (TMax[t] + 1)
  BY <1>1
<1>3. UCast(x, t) = x % d
  BY DEF UCast
<1> HIDE DEF d
<1>4. x % d \in Nat /\ x % d < d
  BY <1>2, Division
<1> QED BY <1>1, <1>2, <1>3, <1>4

LEMMA NpfIntMaxNat == NpfIntMax \in Nat
BY TypesAssumption, ConfigAssumption DEF IntTypes, NpfIntMax, MaxOf

\* npf_uint_t holds a number it is wide enough for, and the two negations of 1782
\* give the magnitude of a negative one, the least included.
LEMMA UintFits ==
  ASSUME NEW x \in Nat, x <= 2 * NpfIntMax + 1
  PROVE  ToNpfUint(x) = x
<1> DEFINE d == 2 * (NpfIntMax + 1)
<1>1. d \in Nat \ {0} /\ x < d
  BY NpfIntMaxNat
<1>2. ToNpfUint(x) = x % d
  BY DEF ToNpfUint
<1> HIDE DEF d
<1> QED BY <1>1, <1>2, FitsBelow

LEMMA Magnitude ==
  ASSUME NEW x \in Int, -(NpfIntMax + 1) <= x, x <= NpfIntMax
  PROVE  ToNpfUint(IF x < 0 THEN 0 - ToNpfUint(x) ELSE x) = AbsOf(x)
<1> DEFINE d == 2 * (NpfIntMax + 1)
<1>1. d \in Nat \ {0} /\ 0 <= x + d /\ x < d /\ -x < d
  BY NpfIntMaxNat
<1>2. \A y \in Int : ToNpfUint(y) = y % d
  BY DEF ToNpfUint
<1> HIDE DEF d
<1>3. CASE x < 0
  <2>1. d * (-1) = -d /\ x + d \in Nat /\ x + d < d
    BY <1>1, <1>3
  <2>2. x = d * (-1) + (x + d)
    BY <1>1, <2>1
  <2>3. x % d = x + d
    BY <1>1, <2>1, <2>2, DivisionUnique
  <2>4. 0 - (x + d) = d * (-1) + (-x) /\ -x \in Nat /\ 0 - (x + d) \in Int
    BY <1>1, <1>3, <2>1
  <2>5. (0 - (x + d)) % d = -x
    BY <1>1, <2>4, DivisionUnique
  <2>6. ToNpfUint(x) = x + d /\ ToNpfUint(0 - (x + d)) = -x
    BY <1>2, <2>3, <2>4, <2>5
  <2> QED BY <1>3, <2>6 DEF AbsOf
<1>4. CASE x >= 0
  <2>1. x % d = x
    BY <1>1, <1>4, FitsBelow
  <2>2. ToNpfUint(x) = x
    BY <1>2, <2>1
  <2>3. ~(x < 0)
    BY <1>4
  <2> QED BY <2>2, <2>3 DEF AbsOf
<1> QED BY <1>3, <1>4

\* The integer types a build reads are no wider than npf_int_t (266-322).
LEMMA ReadsFit ==
  ASSUME NEW s \in Specs, s.conv_spec \in IntConvs \cup {"POINTER"}
  PROVE  /\ CallerType(s) \in IntTypes \cup {"PTR"}
         /\ TMax[CallerType(s)] \in Nat /\ TMax[CallerType(s)] <= NpfIntMax
<1>1. /\ s \in FormatSpec
      /\ ~UseLarge => s.length_modifier \notin {"ll", "j", "z", "t"}
  BY FormatAssumption
<1>2. TMax["LONG"] \in Nat /\ TMax["PTR"] \in Nat /\ TMax["INT"] \in Nat
      /\ TMax["INT"] <= TMax["LONG"]
  BY TypesAssumption DEF IntTypes
<1>3. CASE s.conv_spec = "POINTER"
  <2>1. CallerType(s) = "PTR"
    BY <1>3 DEF CallerType, PassType, FloatConvs, IntConvs
  <2> QED BY <1>2, <2>1, TypesAssumption DEF NpfIntMax, MaxOf
<1>4. CASE s.conv_spec \in IntConvs
  <2>1. CallerType(s) = IF s.length_modifier \in {"h", "hh"} THEN "INT"
                        ELSE TypeOf(s.length_modifier)
    BY <1>4 DEF CallerType, PassType, FloatConvs, IntConvs
  <2>2. s.length_modifier \in LenMods
    BY <1>1 DEF FormatSpec
  <2>3. CallerType(s) \in IntTypes
    BY <2>1, <2>2 DEF TypeOf, IntTypes, LenMods
  <2>4. CASE UseLarge
    BY <2>3, <2>4, TypesAssumption DEF NpfIntMax
  <2>5. CASE ~UseLarge
    <3>1. CallerType(s) \in {"INT", "LONG"}
      BY <1>1, <2>1, <2>2, <2>5 DEF TypeOf, LenMods
    <3>2. TMax["LONG"] <= NpfIntMax /\ NpfIntMax \in Int
      BY <1>2, <2>5 DEF NpfIntMax, MaxOf
    <3> QED BY <1>2, <2>3, <3>1, <3>2
  <2> QED BY <2>4, <2>5
<1> QED BY <1>3, <1>4

\* The types the build reads and the caller passed have the same width.
LEMMA ReadAsWide ==
  ASSUME NEW s \in Specs, s.conv_spec \in IntConvs
  PROVE  TMax[ReadType(s.conv_spec, s.length_modifier)] = TMax[CallerType(s)]
<1>1. /\ s \in FormatSpec /\ s.conv_spec \in Convs /\ s.length_modifier \in LenMods
      /\ s.conv_spec # "PERCENT"
      /\ ~UseSmall => s.length_modifier \notin {"h", "hh"}
      /\ ~UseLarge => s.length_modifier \notin {"ll", "j", "z", "t"}
  BY FormatAssumption DEF FormatSpec, IntConvs
<1>2. SameRep(CallerType(s), ReadType(s.conv_spec, s.length_modifier))
  BY <1>1, RepMatches DEF CallerType
<1> QED BY <1>2 DEF SameRep

-----------------------------------------------------------------------------
(* What a specification asks for depends on the specification alone.         *)

LEMMA SameJob ==
  ASSUME job' = job
  PROVE  /\ S' = S /\ LastArg' = LastArg /\ Width' = Width /\ LeftJustified' = LeftJustified
         /\ Precision' = Precision /\ IntegerArg' = IntegerArg /\ BaseOf' = BaseOf
         /\ IntegerDigits' = IntegerDigits /\ Prefix' = Prefix /\ Bodies' = Bodies
         /\ \A b : Field(b)' = Field(b)
<1>1. S' = S /\ LastArg' = LastArg
  BY DEF S, LastArg
<1>2. Width' = Width /\ LeftJustified' = LeftJustified
  BY <1>1, Zenon DEF Width, LeftJustified
<1>3. Precision' = Precision
  BY <1>1 DEF Precision
<1>4. IntegerArg' = IntegerArg
  BY <1>1, Zenon DEF IntegerArg
<1>5. BaseOf' = BaseOf
  BY <1>1, Zenon DEF BaseOf
<1>6. IntegerDigits' = IntegerDigits
  BY <1>1, <1>3, <1>4, <1>5, Zenon DEF IntegerDigits
<1>7. Prefix' = Prefix
  BY <1>1, <1>4 DEF Prefix
<1>8. Bodies' = Bodies
  BY <1>1, <1>3, <1>6, <1>7, Zenon DEF Bodies
<1>9. \A b : Field(b)' = Field(b)
  BY <1>1, <1>2, Zenon DEF Field
<1> QED BY <1>1, <1>2, <1>3, <1>4, <1>5, <1>6, <1>7, <1>8, <1>9, Zenon

-----------------------------------------------------------------------------
(* The inductive invariant, in two parts.  The first says what the fields of *)
(* fs are to the specification and its star arguments at each location.      *)

FlagsKept ==
  /\ fs.conv_spec = S.conv_spec /\ fs.length_modifier = S.length_modifier
  /\ fs.prepend = S.prepend /\ fs.alt_form = S.alt_form /\ fs.case_adjust = S.case_adjust
WidthKnown == /\ fs.left_justified = LeftJustified
              /\ UseFieldWidth => fs.field_width = Width
PrecisionKnown == UsePrecision => /\ fs.prec_opt = NONE <=> Precision < 0
                                  /\ Precision >= 0 => fs.prec = Precision
DefaultKnown ==
  UsePrecision /\ Precision < 0 /\ S.conv_spec \notin FloatConvs =>
    fs.prec = IF S.conv_spec = "POINTER" THEN PtrDigits ELSE 0
ZerosKnown ==
  fs.leading_zero_pad <=>
    /\ S.leading_zero_pad
    /\ ~(UsePrecision /\ UseFieldWidth /\ Precision >= 0 /\ S.conv_spec \in IntConvs \ {"BINARY"})

Converting == {"convert", "scan", "integer", "utoa", "binlen", "alt"}
Reading == {"width", "prec", "default", "layout"} \cup Converting

SpecInv ==
  /\ pc \in Reading => job.spec \in Specs /\ job.args \in ArgsOf[job.spec] /\ FlagsKept
  /\ pc = "width" => /\ fs.left_justified = S.left_justified
                     /\ fs.field_width_opt = S.field_width_opt
                     /\ S.field_width_opt # STAR => fs.field_width = S.field_width
  /\ pc \in {"width", "prec"} => fs.prec = S.prec /\ fs.prec_opt = S.prec_opt
  /\ pc \in {"width", "prec", "default"} => fs.leading_zero_pad = S.leading_zero_pad
  /\ pc \in Reading \ {"width"} => WidthKnown
  /\ pc \in Converting \cup {"default"} => PrecisionKnown
  /\ pc \in Converting => DefaultKnown /\ ZerosKnown

\* The facts about the specification itself.
LEMMA SpecFacts ==
  ASSUME job.spec \in Specs, job.args \in ArgsOf[job.spec]
  PROVE  /\ S \in Specs /\ S \in FormatSpec /\ S.field_width >= 0 /\ S.prec >= 0
         /\ S.field_width \in Int /\ S.prec \in Int /\ S.conv_spec \in Convs
         /\ S.prec_opt \in {NONE, LITERAL, STAR} /\ S.field_width_opt \in {NONE, STAR}
         /\ S.leading_zero_pad \in BOOLEAN /\ S.left_justified \in BOOLEAN
         /\ ~UseFieldWidth => S.field_width_opt = NONE
         /\ ~UsePrecision => S.prec_opt = NONE
         /\ job.args \in Seq(Arg) /\ Len(job.args) = ArgCount(S)
  BY FormatAssumption, ArgsAssumption DEF S, FormatSpec

\* A star takes the argument at its own position.
LEMMA StarArgs ==
  ASSUME job.spec \in Specs, job.args \in ArgsOf[job.spec]
  PROVE  /\ S.field_width_opt = STAR => job.args[1].v \in Int /\ WidthStars = 1
         /\ S.field_width_opt # STAR => WidthStars = 0
         /\ S.prec_opt = STAR => /\ job.args[IF S.field_width_opt = STAR THEN 2 ELSE 1].v \in Int
                                 /\ WidthStars + 1 = IF S.field_width_opt = STAR THEN 2 ELSE 1
                                 /\ WidthStars + 1 \in 1..Len(job.args)
         /\ S.conv_spec # "PERCENT" => LastArg \in Int
<1>1. job.args \in Seq(Arg) /\ Len(job.args) = ArgCount(S)
  BY SpecFacts
<1>2. \A k \in 1..Len(job.args) : job.args[k].v \in Int
  <2>1. \A k \in 1..Len(job.args) : job.args[k] \in Arg
    BY <1>1
  <2> QED BY <2>1 DEF Arg
<1>3. WidthStars = IF S.field_width_opt = STAR THEN 1 ELSE 0
  BY DEF WidthStars, S
<1>4. Len(job.args) = (IF S.field_width_opt = STAR THEN 1 ELSE 0)
          + (IF S.prec_opt = STAR THEN 1 ELSE 0) + (IF S.conv_spec = "PERCENT" THEN 0 ELSE 1)
  BY <1>1 DEF ArgCount, StarsOf
<1>5. S.field_width_opt = STAR => 1 \in 1..Len(job.args)
  BY <1>4
<1>6. S.prec_opt = STAR => (IF S.field_width_opt = STAR THEN 2 ELSE 1) \in 1..Len(job.args)
  BY <1>4
<1>7. S.conv_spec # "PERCENT" => Len(job.args) \in 1..Len(job.args)
  BY <1>4
<1> QED BY <1>2, <1>3, <1>5, <1>6, <1>7 DEF LastArg

LEMMA Precise ==
  ASSUME job.spec \in Specs, job.args \in ArgsOf[job.spec]
  PROVE  /\ Precision \in Int /\ Precision >= -1
         /\ ~UsePrecision \/ S.prec_opt = NONE => Precision = -1
         /\ UsePrecision /\ S.prec_opt = LITERAL => Precision = MinOf(FmtNumMax, S.prec)
         /\ UsePrecision /\ S.prec_opt = STAR =>
              Precision = LET p == job.args[IF S.field_width_opt = STAR THEN 2 ELSE 1].v
                          IN IF p < 0 THEN -1 ELSE MinOf(FmtNumMax, p)
         /\ Precision >= 0 => UsePrecision /\ Precision <= FmtNumMax
<1> DEFINE star == job.args[IF S.field_width_opt = STAR THEN 2 ELSE 1].v
<1>1. /\ S.prec \in Int /\ S.prec >= 0 /\ S.prec_opt \in {NONE, LITERAL, STAR}
      /\ S.prec_opt = STAR => star \in Int
  BY SpecFacts, StarArgs
<1>2. Precision = LET p == CASE ~UsePrecision \/ S.prec_opt = NONE -> -1
                             [] S.prec_opt = STAR -> star
                             [] OTHER -> S.prec
                  IN IF p < 0 THEN -1 ELSE MinOf(FmtNumMax, p)
  BY DEF Precision
<1> HIDE DEF star
<1>3. CASE ~UsePrecision \/ S.prec_opt = NONE
  <2>1. S.prec_opt = NONE
    BY <1>3, SpecFacts
  <2>2. Precision = -1
    BY <1>2, <1>3, <2>1
  <2> QED BY <2>1, <2>2
<1>4. CASE UsePrecision /\ S.prec_opt = STAR
  <2>1. Precision = IF star < 0 THEN -1 ELSE MinOf(FmtNumMax, star)
    BY <1>2, <1>4
  <2> QED BY <1>1, <1>4, <2>1, CapNat DEF star, MinOf
<1>5. CASE UsePrecision /\ S.prec_opt = LITERAL
  <2>1. Precision = MinOf(FmtNumMax, S.prec)
    BY <1>1, <1>2, <1>5
  <2> QED BY <1>1, <1>5, <2>1, CapNat DEF MinOf
<1> QED BY <1>1, <1>3, <1>4, <1>5

LEMMA SpecSpecification ==
  ASSUME IInv, NEW s \in Specs, NEW a \in ArgsOf[s], Specification(s, a)
  PROVE  SpecInv'
<1>1. s \in FormatSpec
  BY FormatAssumption
<1>2. /\ pc' = "width" /\ job'.spec = s /\ job'.args = a
      /\ fs' = [s EXCEPT !.field_width = IF s.field_width_opt = STAR THEN fs.field_width ELSE @]
  BY DEF Specification
<1>3. /\ fs'.conv_spec = s.conv_spec /\ fs'.length_modifier = s.length_modifier
      /\ fs'.prepend = s.prepend /\ fs'.alt_form = s.alt_form
      /\ fs'.case_adjust = s.case_adjust /\ fs'.left_justified = s.left_justified
      /\ fs'.field_width_opt = s.field_width_opt /\ fs'.prec = s.prec
      /\ fs'.prec_opt = s.prec_opt /\ fs'.leading_zero_pad = s.leading_zero_pad
      /\ s.field_width_opt # STAR => fs'.field_width = s.field_width
  BY <1>1, <1>2 DEF FormatSpec
<1>4. S' = s
  BY <1>2 DEF S
<1> QED BY <1>2, <1>3, <1>4 DEF SpecInv, FlagsKept, Reading, Converting

LEMMA SpecResolveWidth == ASSUME IInv, SpecInv, ResolveWidth PROVE SpecInv'
<1>1. /\ pc = "width" /\ pc' = "prec" /\ job' = job /\ fs \in FormatSpec /\ ArgsFrom(0)
      /\ job.spec \in Specs /\ job.args \in ArgsOf[job.spec] /\ FlagsKept
      /\ fs.left_justified = S.left_justified /\ fs.field_width_opt = S.field_width_opt
      /\ S.field_width_opt # STAR => fs.field_width = S.field_width
      /\ fs.prec = S.prec /\ fs.prec_opt = S.prec_opt
      /\ fs.leading_zero_pad = S.leading_zero_pad
  BY DEF ResolveWidth, ghosts, IInv, TypeOK, ArgsInv, SpecInv, Reading
<1>2. /\ fs'.conv_spec = fs.conv_spec /\ fs'.length_modifier = fs.length_modifier
      /\ fs'.prepend = fs.prepend /\ fs'.alt_form = fs.alt_form
      /\ fs'.case_adjust = fs.case_adjust /\ fs'.prec = fs.prec
      /\ fs'.prec_opt = fs.prec_opt /\ fs'.leading_zero_pad = fs.leading_zero_pad
  BY <1>1 DEF ResolveWidth, FormatSpec
<1>3. WidthKnown'
  <2>1. LeftJustified' = LeftJustified /\ Width' = Width
    BY <1>1, SameJob
  <2>2. fs'.left_justified = LeftJustified /\ (UseFieldWidth => fs'.field_width = Width)
    <3>1. CASE S.field_width_opt = STAR
      <4>1. UseFieldWidth /\ job.args[1].v \in Int /\ args # <<>>
        BY <1>1, <3>1, SpecFacts, StarArgs DEF ResolveWidth, TakeArg
      <4>2. args \in Seq(Arg) /\ Len(args) \in Nat /\ Len(args) # 0
        BY <4>1 DEF IInv, TypeOK
      <4>3. ArgVal = job.args[1].v
        <5>1. 1 \in 1..Len(args) /\ 1 + 0 = 1
          BY <4>2
        <5>2. args[1] = job.args[1]
          BY <1>1, <5>1 DEF ArgsFrom
        <5> QED BY <5>2 DEF ArgVal
      <4> DEFINE w == job.args[1].v
      <4>4. /\ fs'.field_width = MinOf(StarWidth(w), FmtNumMax)
            /\ fs'.left_justified = (fs.left_justified \/ w < 0)
        BY <1>1, <3>1, <4>1, <4>3 DEF ResolveWidth, FormatSpec
      <4> HIDE DEF w
      <4>5. w \in Int
        BY <4>1 DEF w
      <4>6. MinOf(StarWidth(w), FmtNumMax) = MinOf(FmtNumMax, AbsOf(w))
        <5>1. FmtNumMax \in Nat /\ FmtNumMax <= IntMax /\ IntMax \in Nat
          BY CapNat, CapAssumption, IntMaxNat, ConfigAssumption
        <5> QED BY <4>5, <5>1 DEF StarWidth, MinOf, AbsOf
      <4>7. Width = MinOf(FmtNumMax, AbsOf(w)) /\ LeftJustified = (S.left_justified \/ w < 0)
        BY <3>1, <4>1 DEF Width, LeftJustified, w
      <4> QED BY <1>1, <4>4, <4>6, <4>7
    <3>2. CASE S.field_width_opt # STAR
      <4>1. LeftJustified = S.left_justified
        BY <1>1, <3>2, SpecFacts DEF LeftJustified
      <4>2. fs'.left_justified = fs.left_justified
            /\ (UseFieldWidth => fs'.field_width = MinOf(fs.field_width, FmtNumMax))
        BY <1>1, <3>2 DEF ResolveWidth, FormatSpec
      <4>3. UseFieldWidth => Width = MinOf(FmtNumMax, S.field_width)
        BY <3>2 DEF Width
      <4>4. MinOf(S.field_width, FmtNumMax) = MinOf(FmtNumMax, S.field_width)
        BY <1>1, SpecFacts, CapNat DEF MinOf
      <4> QED BY <1>1, <3>2, <4>1, <4>2, <4>3, <4>4
    <3> QED BY <3>1, <3>2
  <2> QED BY <2>1, <2>2 DEF WidthKnown
<1>4. S' = S
  BY <1>1, SameJob
<1> QED BY <1>1, <1>2, <1>3, <1>4 DEF SpecInv, FlagsKept, Reading, Converting

LEMMA SpecResolvePrec == ASSUME IInv, SpecInv, ResolvePrec PROVE SpecInv'
<1>1. /\ pc = "prec" /\ pc' = "default" /\ job' = job /\ fs \in FormatSpec /\ ArgsFrom(WidthStars)
      /\ job.spec \in Specs /\ job.args \in ArgsOf[job.spec] /\ FlagsKept /\ WidthKnown
      /\ fs.prec = S.prec /\ fs.prec_opt = S.prec_opt
      /\ fs.leading_zero_pad = S.leading_zero_pad
  BY DEF ResolvePrec, ghosts, IInv, TypeOK, ArgsInv, SpecInv, Reading
<1>2. /\ fs'.conv_spec = fs.conv_spec /\ fs'.length_modifier = fs.length_modifier
      /\ fs'.prepend = fs.prepend /\ fs'.alt_form = fs.alt_form
      /\ fs'.case_adjust = fs.case_adjust /\ fs'.left_justified = fs.left_justified
      /\ fs'.field_width = fs.field_width /\ fs'.leading_zero_pad = fs.leading_zero_pad
  BY <1>1 DEF ResolvePrec, FormatSpec
<1>3. PrecisionKnown'
  <2>1. Precision' = Precision
    BY <1>1, SameJob
  <2>2. ASSUME UsePrecision
        PROVE  (fs'.prec_opt = NONE <=> Precision < 0) /\ (Precision >= 0 => fs'.prec = Precision)
    <3>0. S.prec \in Int /\ S.prec >= 0 /\ S.prec_opt \in {NONE, LITERAL, STAR} /\ FmtNumMax \in Nat
      BY <1>1, SpecFacts, CapNat
    <3>1. CASE S.prec_opt = STAR
      <4> DEFINE p == job.args[IF S.field_width_opt = STAR THEN 2 ELSE 1].v
      <4>1. /\ p \in Int /\ WidthStars + 1 \in 1..Len(job.args) /\ args # <<>>
            /\ WidthStars + 1 = IF S.field_width_opt = STAR THEN 2 ELSE 1
        BY <1>1, <2>2, <3>1, StarArgs DEF ResolvePrec, TakeArg
      <4>2. ArgVal = p
        <5>1. 1 \in 1..Len(args) /\ 1 + WidthStars = WidthStars + 1
          BY <4>1 DEF IInv, TypeOK, WidthStars
        <5>2. args[1] = job.args[WidthStars + 1]
          BY <1>1, <5>1 DEF ArgsFrom
        <5> QED BY <4>1, <5>2 DEF ArgVal
      <4>3. Precision = IF p < 0 THEN -1 ELSE MinOf(FmtNumMax, p)
        BY <1>1, <2>2, <3>1, Precise
      <4> HIDE DEF p
      <4>4. fs'.prec = MinOf(p, FmtNumMax) /\ fs'.prec_opt = IF p < 0 THEN NONE ELSE fs.prec_opt
        BY <1>1, <2>2, <3>1, <4>2 DEF ResolvePrec, FormatSpec
      <4> QED BY <1>1, <3>0, <3>1, <4>1, <4>3, <4>4 DEF MinOf
    <3>2. CASE S.prec_opt # STAR
      <4>1. fs'.prec = MinOf(S.prec, FmtNumMax) /\ fs'.prec_opt = S.prec_opt
        BY <1>1, <2>2, <3>2 DEF ResolvePrec, FormatSpec
      <4>2. CASE S.prec_opt = NONE
        <5>1. Precision = -1
          BY <1>1, <4>2, Precise
        <5> QED BY <4>1, <4>2, <5>1
      <4>3. CASE S.prec_opt = LITERAL
        <5>1. Precision = MinOf(FmtNumMax, S.prec)
          BY <1>1, <2>2, <4>3, Precise
        <5> QED BY <3>0, <4>1, <4>3, <5>1 DEF MinOf
      <4> QED BY <3>0, <3>2, <4>2, <4>3
    <3> QED BY <3>1, <3>2
  <2> QED BY <2>1, <2>2 DEF PrecisionKnown
<1>4. S' = S /\ LeftJustified' = LeftJustified /\ Width' = Width
  BY <1>1, SameJob
<1>5. WidthKnown' /\ FlagsKept'
  BY <1>1, <1>2, <1>4 DEF WidthKnown, FlagsKept
<1> QED BY <1>1, <1>2, <1>3, <1>4, <1>5 DEF SpecInv, Reading, Converting

LEMMA SpecResolve == ASSUME IInv, SpecInv, Resolve PROVE SpecInv'
<1>1. /\ pc = "default" /\ pc' = "convert" /\ job' = job /\ fs \in FormatSpec
      /\ job.spec \in Specs /\ job.args \in ArgsOf[job.spec] /\ FlagsKept /\ WidthKnown
      /\ PrecisionKnown /\ fs.leading_zero_pad = S.leading_zero_pad
  BY DEF Resolve, ghosts, IInv, TypeOK, SpecInv, Reading, Converting
<1>2. /\ fs'.conv_spec = fs.conv_spec /\ fs'.length_modifier = fs.length_modifier
      /\ fs'.prepend = fs.prepend /\ fs'.alt_form = fs.alt_form
      /\ fs'.case_adjust = fs.case_adjust /\ fs'.left_justified = fs.left_justified
      /\ fs'.field_width = fs.field_width /\ fs'.prec_opt = fs.prec_opt
      /\ fs'.prec = (IF UsePrecision /\ fs.prec_opt = NONE THEN DefaultPrec ELSE fs.prec)
      /\ fs'.leading_zero_pad <=>
           /\ fs.leading_zero_pad
           /\ ~(/\ UsePrecision /\ UseFieldWidth /\ fs.prec_opt # NONE
                /\ fs.conv_spec \in IntConvs \ {"BINARY"})
  BY <1>1 DEF Resolve, FormatSpec
<1>3. /\ S' = S /\ LeftJustified' = LeftJustified /\ Width' = Width /\ Precision' = Precision
      /\ Precision \in Int
  BY <1>1, SameJob, Precise
<1>4. WidthKnown' /\ FlagsKept'
  BY <1>1, <1>2, <1>3 DEF WidthKnown, FlagsKept
<1>5. PrecisionKnown'
  BY <1>1, <1>2, <1>3 DEF PrecisionKnown
<1>6. DefaultKnown'
  BY <1>1, <1>2, <1>3 DEF DefaultKnown, PrecisionKnown, DefaultPrec, FlagsKept, FloatConvs
<1>7. ZerosKnown'
  BY <1>1, <1>2, <1>3 DEF ZerosKnown, PrecisionKnown, FlagsKept
<1> QED BY <1>1, <1>2, <1>3, <1>4, <1>5, <1>6, <1>7 DEF SpecInv, Reading, Converting

\* Past the defaults fs stands, except for the last change before the layout.
LEMMA SpecKept ==
  ASSUME SpecInv, pc \in Converting, pc' \in Converting \cup {"layout"}, job' = job,
         \/ fs' = fs
         \/ pc' = "layout" /\ FlagsKept' /\ WidthKnown'
  PROVE  SpecInv'
<1>1. /\ job.spec \in Specs /\ job.args \in ArgsOf[job.spec] /\ FlagsKept /\ WidthKnown
      /\ PrecisionKnown /\ DefaultKnown /\ ZerosKnown
  BY DEF SpecInv, Reading, Converting
<1>2. /\ S' = S /\ LeftJustified' = LeftJustified /\ Width' = Width /\ Precision' = Precision
  BY SameJob
<1>3. FlagsKept' /\ WidthKnown'
  <2>1. CASE fs' = fs
    BY <1>1, <1>2, <2>1 DEF FlagsKept, WidthKnown
  <2> QED BY <2>1
<1>4. pc' # "layout" => PrecisionKnown' /\ DefaultKnown' /\ ZerosKnown'
  BY <1>1, <1>2 DEF PrecisionKnown, DefaultKnown, ZerosKnown
<1>5. pc' \notin {"width", "prec", "default"}
  BY DEF Converting
<1>6. S' \in Specs /\ job'.spec \in Specs /\ job'.args \in ArgsOf[S']
  BY <1>1, <1>2 DEF S
<1> QED BY <1>3, <1>4, <1>5, <1>6 DEF SpecInv, Reading, Converting

LEMMA SpecFloat == ASSUME IInv, SpecInv, NEW t \in FloatTexts, ConvertFloat(t) PROVE SpecInv'
<1>1. /\ pc = "convert" /\ pc' = "layout" /\ job' = job /\ fs \in FormatSpec
      /\ FlagsKept /\ WidthKnown
  BY DEF ConvertFloat, ghosts, IInv, TypeOK, SpecInv, Reading, Converting
<1>2. /\ fs'.conv_spec = fs.conv_spec /\ fs'.length_modifier = fs.length_modifier
      /\ fs'.prepend = fs.prepend /\ fs'.alt_form = fs.alt_form
      /\ fs'.case_adjust = fs.case_adjust /\ fs'.left_justified = fs.left_justified
      /\ fs'.field_width = fs.field_width
  BY <1>1 DEF ConvertFloat, FormatSpec
<1>3. S' = S /\ LeftJustified' = LeftJustified /\ Width' = Width
  BY <1>1, SameJob
<1>4. FlagsKept' /\ WidthKnown'
  BY <1>1, <1>2, <1>3 DEF FlagsKept, WidthKnown
<1> QED BY <1>1, <1>4, SpecKept DEF Converting

LEMMA SpecInteger == ASSUME IInv, SpecInv, Integer PROVE SpecInv'
<1>1. /\ pc = "integer" /\ pc' \in {"layout", "binlen", "utoa"} /\ job' = job /\ fs \in FormatSpec
      /\ FlagsKept /\ WidthKnown /\ (pc' # "layout" => fs' = fs)
  BY DEF Integer, ghosts, IInv, TypeOK, SpecInv, Reading, Converting
<1>2. /\ fs'.conv_spec = fs.conv_spec /\ fs'.length_modifier = fs.length_modifier
      /\ fs'.prepend = fs.prepend /\ fs'.alt_form = fs.alt_form
      /\ fs'.case_adjust = fs.case_adjust /\ fs'.left_justified = fs.left_justified
      /\ fs'.field_width = fs.field_width
  <2>1. fs' = fs \/ fs' = [fs EXCEPT !.prec = 1]
    BY DEF Integer
  <2> QED BY <1>1, <2>1 DEF FormatSpec
<1>3. S' = S /\ LeftJustified' = LeftJustified /\ Width' = Width
  BY <1>1, SameJob
<1>4. FlagsKept' /\ WidthKnown'
  BY <1>1, <1>2, <1>3 DEF FlagsKept, WidthKnown
<1> QED BY <1>1, <1>4, SpecKept DEF Converting

LEMMA SpecStep == IInv /\ SpecInv /\ [Next]_vars => SpecInv'
<1> SUFFICES ASSUME IInv, SpecInv, [Next]_vars PROVE SpecInv'
  OBVIOUS
<1>1. CASE \/ (\E c \in Literals : Literal(c)) \/ Return \/ Layout \/ Tally
  <2>1. pc' \notin Reading
    BY <1>1 DEF Literal, Return, Layout, Tally, Reading, Converting
  <2> QED BY <2>1 DEF SpecInv, Reading, Converting
<1>2. CASE \E s \in Specs : \E a \in ArgsOf[s] : Specification(s, a)
  BY <1>2, SpecSpecification
<1>3. CASE ResolveWidth
  BY <1>3, SpecResolveWidth
<1>4. CASE ResolvePrec
  BY <1>4, SpecResolvePrec
<1>5. CASE Resolve
  BY <1>5, SpecResolve
<1>6. CASE \E t \in FloatTexts : ConvertFloat(t)
  BY <1>6, SpecFloat
<1>7. CASE Integer
  BY <1>7, SpecInteger
<1>8. CASE \/ ConvertSigned \/ ConvertUnsigned \/ ConvertString \/ Scan \/ ConvertChar
           \/ ConvertWriteback \/ UtoaDigit \/ BinLen \/ AltForm
  <2>1. pc \in Converting /\ pc' \in Converting \cup {"layout"} /\ job' = job /\ fs' = fs
    BY <1>8 DEF ConvertSigned, ConvertUnsigned, ConvertString, Scan, ConvertChar,
       ConvertWriteback, UtoaDigit, BinLen, AltForm, Converting, ghosts
  <2> QED BY <2>1, SpecKept
<1>9. CASE Emit
  <2>1. pc' \notin Reading
    BY <1>9 DEF Emit, PutSign, Put0, PutX, PadField, PadPrec, PayloadString, PayloadBinary,
       PayloadReversed, Reading, Converting
  <2> QED BY <2>1 DEF SpecInv, Reading, Converting
<1>10. CASE Done \/ UNCHANGED vars
  <2>1. pc' = pc /\ fs' = fs /\ job' = job
    BY <1>10 DEF Done, vars, ghosts
  <2>2. /\ S' = S /\ LeftJustified' = LeftJustified /\ Width' = Width /\ Precision' = Precision
    BY <2>1, SameJob
  <2> QED BY <2>1, <2>2 DEF SpecInv, FlagsKept, WidthKnown, PrecisionKnown, DefaultKnown, ZerosKnown
<1> QED BY <1>1, <1>2, <1>3, <1>4, <1>5, <1>6, <1>7, <1>8, <1>9, <1>10, Zenon
        DEF Next, Fetch, Convert

-----------------------------------------------------------------------------
(* The second part of the invariant: what the callback has been handed and   *)
(* what it is still to be handed, part by part, make up the field.           *)

SignText == IF sign_c = NUL THEN <<>> ELSE <<sign_c>>
PrefixText == IF need_0x = NUL THEN <<>>
              ELSE IF pc \in {"early_x", "x"} THEN <<need_0x>> ELSE <<"0", need_0x>>
BodyText == IF fs.conv_spec = "STRING" THEN SubSeq(cbuf, i + 1, cbuf_len)
            ELSE IF fs.conv_spec = "BINARY" THEN Bits(val, cbuf_len) ELSE Mirror(cbuf, cbuf_len)
LeftPad == IF pc \in Early \cup {"padl"} /\ ~fs.left_justified
           THEN Times(pad_c, field_pad) ELSE <<>>
RightPad == IF fs.left_justified THEN Times(pad_c, field_pad) ELSE <<>>
Core == Times("0", prec_pad) \o (BodyText \o RightPad)
Pending == IF pc \in Early THEN SignText \o (PrefixText \o (LeftPad \o Core))
                           ELSE LeftPad \o (SignText \o (PrefixText \o Core))
Sent == SubSeq(out, job.at + 1, Len(out))

FieldInv ==
  /\ pc \in Measured => /\ job.at <= Len(out)
                        /\ \E b \in Bodies : Sent \o Pending = Field(b)
  /\ pc \in Measured \ (Early \cup {"padl"}) /\ ~fs.left_justified => field_pad <= 0
  /\ pc \in {"early_prefix", "early_x"} => sign_c = NUL

\* Each part is a text.
PartsTyped ==
  /\ SignText \in Seq(Chars) /\ PrefixText \in Seq(Chars) /\ BodyText \in Seq(Chars)
  /\ Times(pad_c, field_pad) \in Seq(Chars) /\ Times("0", prec_pad) \in Seq(Chars)
  /\ LeftPad \in Seq(Chars) /\ RightPad \in Seq(Chars)
  /\ BodyText \o RightPad \in Seq(Chars) /\ Core \in Seq(Chars) /\ Pending \in Seq(Chars)

LEMMA PartTypes == IInv /\ pc \in Emitting \cup {"layout", "tally"} => PartsTyped
<1> SUFFICES ASSUME IInv, pc \in Emitting \cup {"layout", "tally"} PROVE PartsTyped
  OBVIOUS
<1>0. /\ sign_c \in Chars /\ need_0x \in Chars /\ pad_c \in Chars /\ "0" \in Chars
      /\ prec_pad \in Int /\ field_pad \in Int /\ cbuf \in Seq(Chars) /\ cbuf_len \in Int
      /\ i \in Nat /\ val \in Nat
  BY DataAssumption DEF IInv, TypeOK
<1>1. SignText \in Seq(Chars)
  BY <1>0, EmptySeq, One DEF SignText
<1>2. PrefixText \in Seq(Chars)
  <2>1. <<"0", need_0x>> \in Seq(Chars)
    BY <1>0
  <2> QED BY <1>0, <2>1, EmptySeq, One DEF PrefixText
<1>3. BodyText \in Seq(Chars)
  <2>1. CASE fs.conv_spec = "STRING" /\ pc # "tally"
    <3>1. cbuf_len <= Len(cbuf)
      BY <2>1 DEF IInv, ShapeInv
    <3>2. \A k \in (i + 1)..cbuf_len : cbuf[k] \in Chars
      BY <1>0, <3>1
    <3>3. i + 1 \in Int
      BY <1>0
    <3>4. SubSeq(cbuf, i + 1, cbuf_len) \in Seq(Chars)
      BY <1>0, <3>2, <3>3, SubSeqProperties
    <3> QED BY <2>1, <3>4 DEF BodyText
  <2>2. CASE fs.conv_spec = "STRING" /\ pc = "tally"
    <3>1. i = cbuf_len
      BY <2>2 DEF IInv, CountInv
    <3>2. SubSeq(cbuf, i + 1, cbuf_len) = <<>>
      BY <1>0, <3>1
    <3> QED BY <2>2, <3>2, EmptySeq DEF BodyText
  <2>3. CASE fs.conv_spec = "BINARY"
    <3>1. Bits(val, cbuf_len) \in Seq(Chars)
      BY <1>0, BitsType
    <3> QED BY <2>3, <3>1 DEF BodyText
  <2>4. CASE fs.conv_spec \notin {"STRING", "BINARY"}
    <3>1. cbuf_len <= Len(cbuf)
      <4>1. CASE pc # "tally"
        BY <2>4, <4>1 DEF IInv, ShapeInv
      <4>2. CASE pc = "tally"
        BY <1>0, <2>4, <4>2 DEF IInv, CountInv
      <4> QED BY <4>1, <4>2
    <3>2. Mirror(cbuf, cbuf_len) \in Seq(Chars)
      BY <1>0, <3>1, MirrorType
    <3> QED BY <2>4, <3>2 DEF BodyText
  <2> QED BY <2>1, <2>2, <2>3, <2>4
<1>4. Times(pad_c, field_pad) \in Seq(Chars) /\ Times("0", prec_pad) \in Seq(Chars)
  BY <1>0, TimesType
<1>5. LeftPad \in Seq(Chars) /\ RightPad \in Seq(Chars)
  BY <1>4, EmptySeq DEF LeftPad, RightPad
<1>6. BodyText \o RightPad \in Seq(Chars)
  BY <1>3, <1>5, Joined
<1>7. Core \in Seq(Chars)
  BY <1>4, <1>6, Joined DEF Core
<1>8. /\ LeftPad \o Core \in Seq(Chars) /\ PrefixText \o Core \in Seq(Chars)
  BY <1>2, <1>5, <1>7, Joined
<1>9. /\ PrefixText \o (LeftPad \o Core) \in Seq(Chars)
      /\ SignText \o (PrefixText \o Core) \in Seq(Chars)
  BY <1>1, <1>2, <1>8, Joined
<1>10. Pending \in Seq(Chars)
  BY <1>1, <1>5, <1>9, Joined DEF Pending
<1> QED BY <1>1, <1>2, <1>3, <1>4, <1>5, <1>6, <1>7, <1>10 DEF PartsTyped

\* A step of the emission hands over the first character still pending, or nothing.
Hands ==
  \/ out' = out /\ Pending' = Pending
  \/ \E c \in Chars : out' = Append(out, c) /\ Pending = <<c>> \o Pending'

LEMMA FieldKept ==
  ASSUME IInv, IInv', FieldInv, pc \in Emitting, pc' \in Measured, job' = job, Hands
  PROVE  /\ job'.at <= Len(out')
         /\ (\E b \in Bodies : Sent \o Pending = Field(b))'
<1>1. PICK b \in Bodies : Sent \o Pending = Field(b)
  BY DEF FieldInv, Measured
<1>2. Bodies' = Bodies /\ Field(b)' = Field(b)
  BY SameJob
<1>3. out \in Seq(Chars) /\ job.at \in Nat /\ job.at <= Len(out)
  BY DEF IInv, TypeOK, FieldInv, Measured
<1>4. Sent' \o Pending' = Sent \o Pending /\ job'.at <= Len(out')
  <2>1. CASE out' = out /\ Pending' = Pending
    BY <1>3, <2>1 DEF Sent
  <2>2. CASE \E c \in Chars : out' = Append(out, c) /\ Pending = <<c>> \o Pending'
    <3>1. PICK c \in Chars : out' = Append(out, c) /\ Pending = <<c>> \o Pending'
      BY <2>2
    <3>2. Pending' \in Seq(Chars)
      <4>1. (IInv /\ pc \in Emitting \cup {"layout", "tally"} => PartsTyped)'
        BY PartTypes, PTL
      <4> QED BY <4>1 DEF PartsTyped, Measured
    <3>3. Len(out') = Len(out) + 1
      BY <1>3, <3>1
    <3>4. Sent' = SubSeq(Append(out, c), job.at + 1, Len(out) + 1)
      BY <3>1, <3>3, Zenon DEF Sent
    <3> DEFINE q == Pending'
    <3>5. q \in Seq(Chars)
      BY <3>2
    <3> HIDE DEF q
    <3>6. SubSeq(Append(out, c), job.at + 1, Len(out) + 1) \o q
            = SubSeq(out, job.at + 1, Len(out)) \o (<<c>> \o q)
      <4> DEFINE at == job.at
      <4>1. at \in Nat /\ at <= Len(out)
        BY <1>3
      <4> HIDE DEF at
      <4>2. SubSeq(Append(out, c), at + 1, Len(out) + 1) \o q
              = SubSeq(out, at + 1, Len(out)) \o (<<c>> \o q)
        BY <1>3, <3>5, <4>1, Handed, Zenon
      <4> QED BY <4>2, Zenon DEF at
    <3>7. Sent' \o q = Sent \o (<<c>> \o q)
      BY <3>4, <3>6, Zenon DEF Sent
    <3> QED BY <1>3, <3>1, <3>3, <3>7 DEF q
  <2> QED BY <2>1, <2>2 DEF Hands
<1>5. Sent' \o Pending' = Field(b)' /\ b \in Bodies'
  BY <1>1, <1>2, <1>4
<1> QED BY <1>4, <1>5

LEMMA CoreKept ==
  ASSUME UNCHANGED <<fs, val, cbuf, cbuf_len, pad_c, prec_pad, field_pad, i>>
  PROVE  Core' = Core /\ BodyText' = BodyText /\ RightPad' = RightPad
<1>1. BodyText' = BodyText
  BY Zenon DEF BodyText, Bits, Mirror
<1>2. RightPad' = RightPad
  BY Zenon DEF RightPad, Times
<1> QED BY <1>1, <1>2, Zenon DEF Core, Times

\* 2023, 2033: the sign, when there is one.
LEMMA HandsSign ==
  ASSUME IInv, NEW at, NEW next,
         <<at, next>> \in {<<"early_sign", "early_prefix">>, <<"sign", "prefix">>}, PutSign(at, next)
  PROVE  Hands
<1>1. /\ pc = at /\ pc' = next /\ sign_c' = NUL
      /\ IF sign_c = NUL THEN out' = out ELSE out' = Append(out, sign_c)
      /\ UNCHANGED <<fs, val, cbuf, cbuf_len, need_0x, pad_c, prec_pad, field_pad, i>>
      /\ sign_c \in Chars
  BY DataAssumption DEF PutSign, Put, numVars, padVars, IInv, TypeOK
<1>2. PartsTyped
  BY <1>1, PartTypes DEF Emitting, Early
<1>3. Core' = Core
  BY <1>1, CoreKept
<1>4. SignText' = <<>> /\ SignText = IF sign_c = NUL THEN <<>> ELSE <<sign_c>>
  BY <1>1 DEF SignText
<1>5. PrefixText' = PrefixText
  BY <1>1 DEF PrefixText
<1>6. CASE at = "early_sign"
  <2> DEFINE r == PrefixText \o (LeftPad \o Core)
  <2>1. LeftPad' = LeftPad
    BY <1>1, <1>6 DEF LeftPad, Early
  <2>2. Pending = SignText \o r /\ Pending' = SignText' \o r
    BY <1>1, <1>3, <1>5, <1>6, <2>1 DEF Pending, Early
  <2>3. r \in Seq(Chars)
    BY <1>2, Joined DEF PartsTyped
  <2> HIDE DEF r
  <2>4. Pending' = r
    BY <1>4, <2>2, <2>3, Nil
  <2>5. CASE sign_c = NUL
    BY <1>1, <1>4, <2>2, <2>3, <2>4, <2>5, Nil DEF Hands
  <2>6. CASE sign_c # NUL
    BY <1>1, <1>4, <2>2, <2>4, <2>6 DEF Hands
  <2> QED BY <2>5, <2>6
<1>7. CASE at = "sign"
  <2> DEFINE r == PrefixText \o Core
  <2>1. LeftPad' = <<>> /\ LeftPad = <<>>
    BY <1>1, <1>7 DEF LeftPad, Early
  <2>2. Pending = <<>> \o (SignText \o r) /\ Pending' = <<>> \o (SignText' \o r)
    BY <1>1, <1>3, <1>5, <1>7, <2>1 DEF Pending, Early
  <2>3. r \in Seq(Chars)
    BY <1>2, Joined DEF PartsTyped
  <2> HIDE DEF r
  <2>4. SignText \o r \in Seq(Chars) /\ <<>> \o r = r
    BY <1>2, <2>3, Joined, Nil DEF PartsTyped
  <2>5. Pending = SignText \o r /\ Pending' = r
    BY <1>4, <2>2, <2>3, <2>4, Nil
  <2>6. CASE sign_c = NUL
    BY <1>1, <1>4, <2>4, <2>5, <2>6 DEF Hands
  <2>7. CASE sign_c # NUL
    BY <1>1, <1>4, <2>5, <2>7 DEF Hands
  <2> QED BY <2>6, <2>7
<1> QED BY <1>6, <1>7

\* 2024-2026, 2034-2036: the two characters of the prefix.
LEMMA HandsZero ==
  ASSUME IInv, FieldInv, NEW at, NEW next, NEW skip,
         <<at, next, skip>> \in {<<"early_prefix", "early_x", "padl">>, <<"prefix", "x", "zeros">>},
         Put0(at, next, skip)
  PROVE  Hands
<1>1. /\ pc = at
      /\ \/ need_0x = NUL /\ pc' = skip /\ out' = out
         \/ need_0x # NUL /\ pc' = next /\ out' = Append(out, "0")
      /\ UNCHANGED <<fs, val, cbuf, cbuf_len, sign_c, need_0x, pad_c, prec_pad, field_pad, i>>
      /\ "0" \in Chars /\ need_0x \in Chars
  BY DataAssumption DEF Put0, Put, textVars, numVars, padVars, IInv, TypeOK
<1>2. PartsTyped
  BY <1>1, PartTypes DEF Emitting, Early
<1>3. Core' = Core
  BY <1>1, CoreKept
<1>4. sign_c = NUL
  BY <1>1 DEF FieldInv, IInv, CountInv
<1>5. SignText' = <<>> /\ SignText = <<>>
  BY <1>1, <1>4 DEF SignText
<1>6. /\ need_0x = NUL => PrefixText = <<>> /\ PrefixText' = <<>>
      /\ need_0x # NUL => PrefixText = <<"0", need_0x>> /\ PrefixText' = <<need_0x>>
  BY <1>1 DEF PrefixText
<1>7. <<"0", need_0x>> = <<"0">> \o <<need_0x>>
  OBVIOUS
<1>8. CASE at = "early_prefix"
  <2> DEFINE r == LeftPad \o Core
  <2>1. LeftPad' = LeftPad
    BY <1>1, <1>8 DEF LeftPad, Early
  <2>2. r \in Seq(Chars)
    BY <1>2, Joined DEF PartsTyped
  <2>3. Pending = PrefixText \o r
    <3>1. Pending = <<>> \o (PrefixText \o r)
      BY <1>1, <1>5, <1>8 DEF Pending, Early
    <3>2. PrefixText \o r \in Seq(Chars)
      BY <1>2, <2>2, Joined DEF PartsTyped
    <3> HIDE DEF r
    <3> QED BY <3>1, <3>2, Nil
  <2>4. CASE need_0x = NUL
    <3>1. Pending' = LeftPad \o (<<>> \o (<<>> \o Core))
      BY <1>1, <1>3, <1>5, <1>6, <1>8, <2>1, <2>4 DEF Pending, Early
    <3>2. <<>> \o Core = Core
      BY <1>2, Nil DEF PartsTyped
    <3>3. Pending' = r
      BY <3>1, <3>2
    <3>4. Pending = r
      <4> HIDE DEF r
      <4> QED BY <1>6, <2>2, <2>3, <2>4, Nil
    <3> QED BY <1>1, <2>4, <3>3, <3>4 DEF Hands
  <2>5. CASE need_0x # NUL
    <3>1. Pending' = <<>> \o (<<need_0x>> \o r)
      BY <1>1, <1>3, <1>5, <1>6, <1>8, <2>1, <2>5 DEF Pending, Early
    <3> HIDE DEF r
    <3>2. <<need_0x>> \o r \in Seq(Chars) /\ <<need_0x>> \in Seq(Chars) /\ <<"0">> \in Seq(Chars)
      BY <1>1, <2>2, ConsText, One
    <3>3. Pending' = <<need_0x>> \o r
      BY <3>1, <3>2, Nil
    <3>4. (<<"0">> \o <<need_0x>>) \o r = <<"0">> \o (<<need_0x>> \o r)
      BY <2>2, <3>2, Grouped
    <3>5. Pending = <<"0">> \o Pending'
      BY <1>6, <1>7, <2>3, <2>5, <3>3, <3>4, Zenon
    <3> QED BY <1>1, <2>5, <3>5 DEF Hands
  <2> QED BY <2>4, <2>5
<1>9. CASE at = "prefix"
  <2>1. LeftPad' = <<>> /\ LeftPad = <<>>
    BY <1>1, <1>9 DEF LeftPad, Early
  <2>2. Core \in Seq(Chars) /\ PrefixText \in Seq(Chars) /\ PrefixText \o Core \in Seq(Chars)
    BY <1>2 , Joined DEF PartsTyped
  <2>3. Pending = PrefixText \o Core
    <3>1. Pending = <<>> \o (<<>> \o (PrefixText \o Core))
      BY <1>1, <1>5, <1>9, <2>1 DEF Pending, Early
    <3> QED BY <2>2, <3>1, Nil
  <2>4. Pending' = <<>> \o (<<>> \o (PrefixText' \o Core))
    BY <1>1, <1>3, <1>5, <1>9, <2>1 DEF Pending, Early
  <2>5. CASE need_0x = NUL
    <3>1. Pending' = Core /\ Pending = Core
      BY <1>6, <2>2, <2>3, <2>4, <2>5, Nil
    <3> QED BY <1>1, <2>5, <3>1 DEF Hands
  <2>6. CASE need_0x # NUL
    <3>1. <<need_0x>> \o Core \in Seq(Chars) /\ <<need_0x>> \in Seq(Chars) /\ <<"0">> \in Seq(Chars)
      BY <1>1, <2>2, ConsText, One
    <3>2. Pending' = <<need_0x>> \o Core
      BY <1>6, <2>4, <2>6, <3>1, Nil
    <3>3. (<<"0">> \o <<need_0x>>) \o Core = <<"0">> \o (<<need_0x>> \o Core)
      BY <2>2, <3>1, Grouped
    <3>4. Pending = <<"0">> \o Pending'
      BY <1>6, <1>7, <2>3, <2>6, <3>2, <3>3, Zenon
    <3> QED BY <1>1, <2>6, <3>4 DEF Hands
  <2> QED BY <2>5, <2>6
<1> QED BY <1>8, <1>9

LEMMA HandsX ==
  ASSUME IInv, FieldInv, NEW at, NEW next,
         <<at, next>> \in {<<"early_x", "padl">>, <<"x", "zeros">>}, PutX(at, next)
  PROVE  Hands
<1>1. /\ pc = at /\ pc' = next /\ need_0x' = NUL /\ out' = Append(out, need_0x)
      /\ UNCHANGED <<fs, val, cbuf, cbuf_len, sign_c, pad_c, prec_pad, field_pad, i>>
      /\ need_0x \in Chars
  BY DataAssumption DEF PutX, Put, numVars, padVars, IInv, TypeOK
<1>2. PartsTyped
  BY <1>1, PartTypes DEF Emitting, Early
<1>3. Core' = Core
  BY <1>1, CoreKept
<1>4. sign_c = NUL /\ need_0x # NUL
  BY <1>1 DEF FieldInv, IInv, CountInv, ShapeInv
<1>5. SignText' = <<>> /\ SignText = <<>>
  BY <1>1, <1>4 DEF SignText
<1>6. PrefixText = <<need_0x>> /\ PrefixText' = <<>>
  BY <1>1, <1>4 DEF PrefixText
<1>7. CASE at = "early_x"
  <2> DEFINE r == LeftPad \o Core
  <2>1. LeftPad' = LeftPad
    BY <1>1, <1>7 DEF LeftPad, Early
  <2>2. r \in Seq(Chars)
    BY <1>2, Joined DEF PartsTyped
  <2>3. Pending = <<>> \o (<<need_0x>> \o r)
    BY <1>1, <1>5, <1>6, <1>7 DEF Pending, Early
  <2>4. Pending' = LeftPad \o (<<>> \o (<<>> \o Core))
    BY <1>1, <1>3, <1>5, <1>6, <1>7, <2>1 DEF Pending, Early
  <2>5. Pending' = r
    BY <1>2, <2>4, Nil DEF PartsTyped
  <2> HIDE DEF r
  <2>6. <<need_0x>> \o r \in Seq(Chars)
    BY <1>1, <2>2, ConsText
  <2>7. Pending = <<need_0x>> \o r
    BY <2>3, <2>6, Nil
  <2> QED BY <1>1, <2>5, <2>7 DEF Hands
<1>8. CASE at = "x"
  <2>1. LeftPad' = <<>> /\ LeftPad = <<>>
    BY <1>1, <1>8 DEF LeftPad, Early
  <2>2. Core \in Seq(Chars)
    BY <1>2 DEF PartsTyped
  <2>3. <<need_0x>> \o Core \in Seq(Chars)
    BY <1>1, <2>2, ConsText
  <2>4. Pending = <<>> \o (<<>> \o (<<need_0x>> \o Core))
    BY <1>1, <1>5, <1>6, <1>8, <2>1 DEF Pending, Early
  <2>5. Pending' = <<>> \o (<<>> \o (<<>> \o Core))
    BY <1>1, <1>3, <1>5, <1>6, <1>8, <2>1 DEF Pending, Early
  <2>6. Pending = <<need_0x>> \o Core /\ Pending' = Core
    BY <2>2, <2>3, <2>4, <2>5, Nil
  <2> QED BY <1>1, <2>6 DEF Hands
<1> QED BY <1>7, <1>8

\* 2030-2032: the padding on the left.
LEMMA HandsLeft ==
  ASSUME IInv, PadField("padl", "sign")
  PROVE  Hands
<1>1. /\ pc = "padl" /\ pc' \in {"padl", "sign"}
      /\ UNCHANGED <<fs, val, cbuf, cbuf_len, sign_c, need_0x, pad_c, prec_pad, i>>
      /\ pad_c \in Chars /\ field_pad \in Int /\ (~UseFieldWidth => field_pad <= 0)
  BY DataAssumption DEF PadField, numVars, textVars, IInv, TypeOK, CountInv
<1>2. PartsTyped
  BY <1>1, PartTypes DEF Emitting, Early
<1> DEFINE r == SignText \o (PrefixText \o Core)
<1>3. r \in Seq(Chars)
  BY <1>2, Joined DEF PartsTyped
<1>4. SignText' = SignText /\ PrefixText' = PrefixText /\ BodyText' = BodyText
  BY <1>1, Zenon DEF SignText, PrefixText, BodyText, Bits, Mirror
<1>5. Pending = LeftPad \o r
  BY <1>1 DEF Pending, Early
<1>6. Core' = Core => Pending' = LeftPad' \o r
  BY <1>1, <1>4 DEF Pending, Early
<1> HIDE DEF r
<1>7. CASE UseFieldWidth /\ ~fs.left_justified
  <2>1. RightPad = <<>> /\ RightPad' = <<>>
    BY <1>1, <1>7 DEF RightPad
  <2>2. Core' = Core
    BY <1>1, <1>4, <2>1, Zenon DEF Core, Times
  <2>3. LeftPad = Times(pad_c, field_pad)
    BY <1>1, <1>7 DEF LeftPad
  <2>4. CASE field_pad > 0
    <3>1. pc' = "padl" /\ field_pad' = field_pad - 1 /\ out' = Append(out, pad_c)
      BY <1>1, <1>7, <2>4 DEF PadField, Put
    <3>2. LeftPad' = Times(pad_c, field_pad - 1)
      BY <1>1, <1>7, <3>1 DEF LeftPad, Times
    <3>3. field_pad \in Nat \ {0} /\ field_pad - 1 \in Int
      BY <1>1, <2>4
    <3>4. LeftPad = <<pad_c>> \o LeftPad'
      BY <1>1, <2>3, <3>2, <3>3, TimesFirst
    <3>5. LeftPad' \in Seq(Chars)
      BY <1>1, <3>2, <3>3, TimesType
    <3>6. (<<pad_c>> \o LeftPad') \o r = <<pad_c>> \o (LeftPad' \o r)
      BY <1>1, <1>3, <3>5, ConsText
    <3> QED BY <1>1, <1>5, <1>6, <2>2, <3>1, <3>4, <3>6 DEF Hands
  <2>5. CASE field_pad <= 0
    <3>1. pc' = "sign" /\ out' = out
      BY <1>1, <1>7, <2>5 DEF PadField
    <3>2. LeftPad' = <<>>
      BY <3>1 DEF LeftPad, Early
    <3>3. LeftPad = <<>>
      BY <1>1, <2>3, <2>5, TimesType
    <3> QED BY <1>5, <1>6, <2>2, <3>1, <3>2, <3>3 DEF Hands
  <2> QED BY <1>1, <2>4, <2>5
<1>8. CASE ~(UseFieldWidth /\ ~fs.left_justified)
  <2>1. pc' = "sign" /\ out' = out /\ field_pad' = field_pad
    BY <1>8 DEF PadField
  <2>2. LeftPad' = <<>>
    BY <2>1 DEF LeftPad, Early
  <2>3. LeftPad = <<>>
    <3>1. CASE ~UseFieldWidth
      <4>1. Times(pad_c, field_pad) = <<>>
        BY <1>1, <3>1, TimesType
      <4> QED BY <4>1 DEF LeftPad
    <3>2. CASE UseFieldWidth
      BY <1>8, <3>2 DEF LeftPad
    <3> QED BY <3>1, <3>2
  <2>4. Core' = Core
    BY <1>1, <2>1, CoreKept
  <2> QED BY <1>5, <1>6, <2>1, <2>2, <2>3, <2>4 DEF Hands
<1> QED BY <1>7, <1>8

\* Past the sign and the prefix only the core is pending.
LEMMA CorePending ==
  ASSUME IInv, pc \in {"zeros", "payload", "padr", "tally"}
  PROVE  Pending = Core
<1>1. sign_c = NUL /\ need_0x = NUL
  BY DEF IInv, CountInv
<1>2. SignText = <<>> /\ PrefixText = <<>> /\ LeftPad = <<>>
  BY <1>1 DEF SignText, PrefixText, LeftPad, Early
<1>3. Core \in Seq(Chars)
  BY PartTypes DEF Emitting, PartsTyped
<1>4. Pending = <<>> \o (<<>> \o (<<>> \o Core))
  BY <1>2 DEF Pending, Early
<1> QED BY <1>3, <1>4, Nil

\* 2037-2039: the zeros of the precision.
LEMMA HandsZeros ==
  ASSUME IInv, PadPrec
  PROVE  Hands
<1>1. /\ pc = "zeros" /\ pc' \in {"zeros", "payload"}
      /\ UNCHANGED <<fs, val, cbuf, cbuf_len, sign_c, need_0x, pad_c, field_pad, i>>
      /\ "0" \in Chars /\ prec_pad \in Int /\ (~UsePrecision => prec_pad <= 0)
      /\ sign_c = NUL /\ need_0x = NUL
  BY DataAssumption DEF PadPrec, numVars, textVars, IInv, TypeOK, CountInv
<1>2. PartsTyped
  BY <1>1, PartTypes DEF Emitting, Early
<1> DEFINE r == BodyText \o RightPad
<1>3. r \in Seq(Chars)
  BY <1>2 DEF PartsTyped
<1>4. BodyText' = BodyText /\ RightPad' = RightPad
  BY <1>1, Zenon DEF BodyText, Bits, Mirror, RightPad, Times
<1>5. Pending = Times("0", prec_pad) \o r
  BY <1>1, CorePending DEF Core
<1>6. Pending' = Times("0", prec_pad') \o r
  <2>1. SignText' = <<>> /\ PrefixText' = <<>> /\ LeftPad' = <<>>
    BY <1>1 DEF SignText, PrefixText, LeftPad, Early
  <2>2. Core' = Times("0", prec_pad') \o r
    BY <1>4 DEF Core, Times
  <2>3. Pending' = <<>> \o (<<>> \o (<<>> \o Core'))
    BY <1>1, <2>1 DEF Pending, Early
  <2>4. prec_pad' \in Int
    BY <1>1 DEF PadPrec
  <2>5. Core' \in Seq(Chars)
    <3> HIDE DEF r
    <3> QED BY <1>1, <1>3, <2>2, <2>4, TimesType, Joined
  <2>6. Pending' = Core'
    BY <2>3, <2>5, Nil
  <2> QED BY <2>2, <2>6
<1> HIDE DEF r
<1>7. CASE UsePrecision /\ prec_pad > 0
  <2>1. out' = Append(out, "0") /\ prec_pad' = prec_pad - 1
    BY <1>7 DEF PadPrec, Put
  <2>2. prec_pad \in Nat \ {0} /\ prec_pad - 1 \in Int
    BY <1>1, <1>7
  <2>3. Times("0", prec_pad) = <<"0">> \o Times("0", prec_pad - 1) /\ Times("0", prec_pad - 1) \in Seq(Chars)
    BY <1>1, <2>2, TimesFirst, TimesType
  <2>4. Pending = <<"0">> \o Pending'
    BY <1>1, <1>3, <1>5, <1>6, <2>1, <2>3, ConsText
  <2> QED BY <1>1, <2>1, <2>4 DEF Hands
<1>8. CASE ~(UsePrecision /\ prec_pad > 0)
  <2>1. out' = out /\ prec_pad <= 0 /\ prec_pad' <= 0 /\ prec_pad' \in Int
    BY <1>1, <1>8 DEF PadPrec
  <2>2. Times("0", prec_pad) = <<>> /\ Times("0", prec_pad') = <<>>
    BY <1>1, <2>1, TimesType
  <2> QED BY <1>5, <1>6, <2>1, <2>2 DEF Hands
<1> QED BY <1>7, <1>8

\* Past the zeros too.
LEMMA BodyPending ==
  ASSUME IInv, pc \in {"payload", "padr", "tally"}
  PROVE  Pending = BodyText \o RightPad
<1>1. prec_pad <= 0 /\ "0" \in Chars /\ prec_pad \in Int
  BY DataAssumption DEF IInv, CountInv, TypeOK
<1>2. Times("0", prec_pad) = <<>>
  BY <1>1, TimesType
<1>3. BodyText \o RightPad \in Seq(Chars)
  BY PartTypes DEF Emitting, PartsTyped
<1>4. Pending = <<>> \o (BodyText \o RightPad)
  BY <1>2, CorePending DEF Core
<1> QED BY <1>3, <1>4, Nil

\* The same of the state after a step of the payload.
LEMMA PayloadStep ==
  ASSUME IInv, pc = "payload", pc' \in {"payload", "padr"},
         UNCHANGED <<fs, sign_c, need_0x, pad_c, prec_pad, field_pad>>, BodyText' \in Seq(Chars)
  PROVE  Pending' = BodyText' \o RightPad /\ RightPad \in Seq(Chars)
<1>1. /\ prec_pad <= 0 /\ "0" \in Chars /\ prec_pad \in Int /\ sign_c = NUL /\ need_0x = NUL
  BY DataAssumption DEF IInv, CountInv, TypeOK
<1>2. Times("0", prec_pad) = <<>>
  BY <1>1, TimesType
<1>3. SignText' = <<>> /\ PrefixText' = <<>> /\ LeftPad' = <<>>
  BY <1>1 DEF SignText, PrefixText, LeftPad, Early
<1>4. RightPad' = RightPad /\ RightPad \in Seq(Chars)
  <2>1. RightPad' = RightPad
    BY Zenon DEF RightPad, Times
  <2>2. RightPad \in Seq(Chars)
    BY PartTypes DEF Emitting, PartsTyped
  <2> QED BY <2>1, <2>2
<1>5. Core' = <<>> \o (BodyText' \o RightPad)
  <2>1. Times("0", prec_pad)' = <<>>
    BY <1>2, Zenon DEF Times
  <2> QED BY <1>4, <2>1 DEF Core
<1>6. Pending' = <<>> \o (<<>> \o (<<>> \o Core'))
  BY <1>3 DEF Pending, Early
<1>7. BodyText' \o RightPad \in Seq(Chars)
  BY <1>4, Joined
<1> QED BY <1>4, <1>5, <1>6, <1>7, Nil

\* 2042-2054: a character of the body.
LEMMA HandsString ==
  ASSUME IInv, PayloadString
  PROVE  Hands
<1>1. /\ pc = "payload" /\ pc' \in {"payload", "padr"} /\ fs.conv_spec = "STRING"
      /\ UNCHANGED <<fs, val, cbuf, cbuf_len, sign_c, need_0x, pad_c, prec_pad, field_pad>>
      /\ cbuf \in Seq(Chars) /\ i \in Nat /\ cbuf_len \in Int /\ cbuf_len <= Len(cbuf)
  BY DEF PayloadString, numVars, textVars, IInv, TypeOK, ShapeInv, Emitting
<1>2. BodyText = SubSeq(cbuf, i + 1, cbuf_len) /\ BodyText' = SubSeq(cbuf, i' + 1, cbuf_len)
  BY <1>1 DEF BodyText
<1>3. Pending = BodyText \o RightPad
  BY <1>1, BodyPending
<1>4. \A k \in Nat : SubSeq(cbuf, k + 1, cbuf_len) \in Seq(Chars)
  <2> SUFFICES ASSUME NEW k \in Nat PROVE SubSeq(cbuf, k + 1, cbuf_len) \in Seq(Chars)
    OBVIOUS
  <2>1. k + 1 \in Int /\ \A j \in (k + 1)..cbuf_len : cbuf[j] \in Chars
    BY <1>1
  <2> QED BY <1>1, <2>1, SubSeqProperties
<1>5. CASE i < cbuf_len
  <2>1. out' = Append(out, cbuf[i + 1]) /\ i' = i + 1
    BY <1>5 DEF PayloadString, Put
  <2>2. i + 1 \in 1..Len(cbuf) /\ cbuf_len \in (i + 1)..Len(cbuf) /\ cbuf[i + 1] \in Chars
    BY <1>1, <1>5
  <2>3. BodyText = <<cbuf[i + 1]>> \o BodyText'
    BY <1>1, <1>2, <2>1, <2>2, SubSeqRecursiveFirst
  <2>4. BodyText' \in Seq(Chars)
    BY <1>1, <1>2, <1>4, <2>1
  <2>5. Pending' = BodyText' \o RightPad /\ RightPad \in Seq(Chars)
    BY <1>1, <2>4, PayloadStep
  <2>6. (<<cbuf[i + 1]>> \o BodyText') \o RightPad = <<cbuf[i + 1]>> \o (BodyText' \o RightPad)
    BY <2>2, <2>4, <2>5, ConsText
  <2>7. Pending = <<cbuf[i + 1]>> \o Pending'
    BY <1>3, <2>3, <2>5, <2>6, Zenon
  <2> QED BY <2>1, <2>2, <2>7 DEF Hands
<1>6. CASE ~(i < cbuf_len)
  <2>1. out' = out /\ i' = i
    BY <1>6 DEF PayloadString
  <2>2. BodyText' = BodyText
    BY <1>2, <2>1
  <2>3. BodyText' \in Seq(Chars)
    BY <1>1, <1>2, <1>4, <2>1
  <2>4. Pending' = BodyText' \o RightPad
    BY <1>1, <2>3, PayloadStep
  <2> QED BY <1>3, <2>1, <2>2, <2>4 DEF Hands
<1> QED BY <1>5, <1>6

LEMMA HandsBinary ==
  ASSUME IInv, PayloadBinary
  PROVE  Hands
<1>1. /\ pc = "payload" /\ pc' \in {"payload", "padr"} /\ fs.conv_spec = "BINARY"
      /\ UNCHANGED <<fs, val, cbuf, i, sign_c, need_0x, pad_c, prec_pad, field_pad>>
      /\ val \in Nat /\ cbuf_len \in Int
  BY DEF PayloadBinary, numVars, padVars, IInv, TypeOK
<1>2. BodyText = Bits(val, cbuf_len) /\ BodyText' = Bits(val, cbuf_len')
  BY <1>1 DEF BodyText, Bits
<1>3. Pending = BodyText \o RightPad
  BY <1>1, BodyPending
<1>4. CASE cbuf_len > 0
  <2> DEFINE c == DigitChar((val \div 2 ^ (cbuf_len - 1)) % 2, 0)
  <2>1. out' = Append(out, c) /\ cbuf_len' = cbuf_len - 1
    BY <1>4 DEF PayloadBinary, Put
  <2>2. cbuf_len \in Nat \ {0} /\ cbuf_len - 1 \in Nat /\ cbuf_len - 1 \in Int
    BY <1>1, <1>4
  <2>3. c \in Chars
    BY <1>1, <2>2, BitIsDigit
  <2>4. Bits(val, cbuf_len) = <<c>> \o Bits(val, cbuf_len - 1)
    BY <1>1, <2>2, BitsFirst
  <2>5. BodyText' \in Seq(Chars) /\ BodyText = <<c>> \o BodyText'
    BY <1>1, <1>2, <2>1, <2>2, <2>4, BitsType
  <2> HIDE DEF c
  <2>6. Pending' = BodyText' \o RightPad /\ RightPad \in Seq(Chars)
    BY <1>1, <2>5, PayloadStep
  <2>7. (<<c>> \o BodyText') \o RightPad = <<c>> \o (BodyText' \o RightPad)
    BY <2>3, <2>5, <2>6, ConsText
  <2>8. Pending = <<c>> \o Pending'
    BY <1>3, <2>5, <2>6, <2>7, Zenon
  <2> QED BY <2>1, <2>3, <2>8 DEF Hands
<1>5. CASE ~(cbuf_len > 0)
  <2>1. out' = out /\ cbuf_len' = cbuf_len
    BY <1>5 DEF PayloadBinary
  <2>2. BodyText' = BodyText /\ BodyText' \in Seq(Chars)
    BY <1>1, <1>2, <2>1, BitsType
  <2>3. Pending' = BodyText' \o RightPad
    BY <1>1, <2>2, PayloadStep
  <2> QED BY <1>3, <2>1, <2>2, <2>3 DEF Hands
<1> QED BY <1>4, <1>5

LEMMA HandsReversed ==
  ASSUME IInv, PayloadReversed
  PROVE  Hands
<1>1. /\ pc = "payload" /\ pc' \in {"payload", "padr"} /\ fs.conv_spec \notin {"STRING", "BINARY"}
      /\ UNCHANGED <<fs, val, cbuf, i, sign_c, need_0x, pad_c, prec_pad, field_pad>>
      /\ cbuf \in Seq(Chars) /\ cbuf_len \in Int /\ cbuf_len <= Len(cbuf)
      /\ cbuf_len' = cbuf_len - 1
  BY DEF PayloadReversed, numVars, padVars, IInv, TypeOK, ShapeInv, Emitting
<1>2. BodyText = Mirror(cbuf, cbuf_len) /\ BodyText' = Mirror(cbuf, cbuf_len')
  BY <1>1 DEF BodyText, Mirror
<1>3. Pending = BodyText \o RightPad
  BY <1>1, BodyPending
<1>4. CASE cbuf_len > 0
  <2> DEFINE c == cbuf[cbuf_len]
  <2>1. out' = Append(out, c)
    BY <1>4 DEF PayloadReversed, Put
  <2>2. cbuf_len \in 1..Len(cbuf) /\ cbuf_len - 1 \in Int /\ cbuf_len - 1 <= Len(cbuf) /\ c \in Chars
    BY <1>1, <1>4
  <2>3. Mirror(cbuf, cbuf_len) = <<c>> \o Mirror(cbuf, cbuf_len - 1)
    BY <1>1, <2>2, MirrorFirst
  <2>4. BodyText' \in Seq(Chars) /\ BodyText = <<c>> \o BodyText'
    BY <1>1, <1>2, <2>2, <2>3, MirrorType
  <2> HIDE DEF c
  <2>5. c \in Chars
    BY <2>2
  <2>6. Pending' = BodyText' \o RightPad /\ RightPad \in Seq(Chars)
    BY <1>1, <2>4, PayloadStep
  <2>7. (<<c>> \o BodyText') \o RightPad = <<c>> \o (BodyText' \o RightPad)
    BY <2>4, <2>5, <2>6, ConsText
  <2>8. Pending = <<c>> \o Pending'
    BY <1>3, <2>4, <2>6, <2>7, Zenon
  <2> QED BY <2>1, <2>5, <2>8 DEF Hands
<1>5. CASE ~(cbuf_len > 0)
  <2>1. out' = out
    BY <1>5 DEF PayloadReversed
  <2>2. cbuf_len <= 0 /\ cbuf_len - 1 <= 0 /\ cbuf_len - 1 \in Int /\ cbuf_len - 1 <= Len(cbuf)
    BY <1>1, <1>5
  <2>3. BodyText = <<>> /\ BodyText' = <<>>
    BY <1>1, <1>2, <2>2, MirrorType
  <2>4. BodyText' \in Seq(Chars)
    BY <2>3, EmptySeq
  <2>5. Pending' = BodyText' \o RightPad
    BY <1>1, <2>4, PayloadStep
  <2> QED BY <1>3, <2>1, <2>3, <2>5 DEF Hands
<1> QED BY <1>4, <1>5

\* Past the body only the padding on the right.
LEMMA RightPending == IInv /\ pc \in {"padr", "tally"} => BodyText = <<>> /\ Pending = RightPad
<1> SUFFICES ASSUME IInv, pc \in {"padr", "tally"} PROVE BodyText = <<>> /\ Pending = RightPad
  OBVIOUS
<1>1. /\ cbuf \in Seq(Chars) /\ cbuf_len \in Int /\ i \in Nat /\ val \in Nat
      /\ IF fs.conv_spec = "STRING" THEN i = cbuf_len ELSE cbuf_len <= 0
  BY DEF IInv, TypeOK, CountInv
<1>2. BodyText = <<>>
  <2>1. CASE fs.conv_spec = "STRING"
    BY <1>1, <2>1 DEF BodyText
  <2>2. CASE fs.conv_spec = "BINARY"
    <3>1. Bits(val, cbuf_len) = <<>>
      BY <1>1, <2>2, BitsType
    <3> QED BY <2>2, <3>1 DEF BodyText
  <2>3. CASE fs.conv_spec \notin {"STRING", "BINARY"}
    <3>1. cbuf_len <= Len(cbuf)
      BY <1>1, <2>3
    <3>2. Mirror(cbuf, cbuf_len) = <<>>
      BY <1>1, <2>3, <3>1, MirrorType
    <3> QED BY <2>3, <3>2 DEF BodyText
  <2> QED BY <2>1, <2>2, <2>3
<1>3. RightPad \in Seq(Chars)
  BY PartTypes DEF Emitting, PartsTyped
<1>4. Pending = <<>> \o RightPad
  BY <1>2, BodyPending
<1> QED BY <1>2, <1>3, <1>4, Nil

\* 2056-2058: the padding on the right; on the left it is spent.
LEMMA HandsRight ==
  ASSUME IInv, IInv', FieldInv, PadField("padr", "tally")
  PROVE  Hands
<1>1. /\ pc = "padr" /\ pc' \in {"padr", "tally"}
      /\ UNCHANGED <<fs, val, cbuf, cbuf_len, sign_c, need_0x, pad_c, prec_pad, i>>
      /\ pad_c \in Chars /\ field_pad \in Int /\ (~UseFieldWidth => field_pad <= 0)
      /\ (~fs.left_justified => field_pad <= 0)
  BY DataAssumption DEF PadField, numVars, textVars, IInv, TypeOK, CountInv, FieldInv, Measured,
     Emitting, Early
<1>2. Pending = RightPad
  BY <1>1, RightPending
<1>3. Pending' = RightPad'
  <2>1. (IInv /\ pc \in {"padr", "tally"} => BodyText = <<>> /\ Pending = RightPad)'
    BY RightPending, PTL
  <2> QED BY <1>1, <2>1
<1>4. RightPad = (IF fs.left_justified THEN Times(pad_c, field_pad) ELSE <<>>)
      /\ RightPad' = IF fs.left_justified THEN Times(pad_c, field_pad') ELSE <<>>
  BY <1>1, Zenon DEF RightPad, Times
<1>5. CASE UseFieldWidth /\ field_pad > 0
  <2>1. out' = Append(out, pad_c) /\ field_pad' = field_pad - 1
    BY <1>1, <1>5 DEF PadField, Put
  <2>2. fs.left_justified /\ field_pad \in Nat \ {0}
    BY <1>1, <1>5
  <2>3. Times(pad_c, field_pad) = <<pad_c>> \o Times(pad_c, field_pad - 1)
    BY <1>1, <2>2, TimesFirst
  <2>4. Pending = <<pad_c>> \o Pending'
    BY <1>2, <1>3, <1>4, <2>1, <2>2, <2>3
  <2> QED BY <1>1, <2>1, <2>4 DEF Hands
<1>6. CASE ~(UseFieldWidth /\ field_pad > 0)
  <2>1. out' = out /\ field_pad <= 0 /\ field_pad' \in Int /\ field_pad' <= 0
    BY <1>1, <1>6 DEF PadField
  <2>2. Times(pad_c, field_pad) = <<>> /\ Times(pad_c, field_pad') = <<>>
    BY <1>1, <2>1, TimesType
  <2> QED BY <1>2, <1>3, <1>4, <2>1, <2>2 DEF Hands
<1> QED BY <1>5, <1>6

LEMMA FieldEmit == ASSUME IInv, IInv', FieldInv, Emit PROVE FieldInv'
<1>1. pc \in Emitting /\ pc' \in Measured /\ job' = job /\ fs' = fs
  BY DEF Emit, PutSign, Put0, PutX, PadField, PadPrec, PayloadString, PayloadBinary,
     PayloadReversed, Emitting, Measured, Early, ghosts
<1>2. Hands
  BY HandsSign, HandsZero, HandsX, HandsLeft, HandsZeros, HandsString, HandsBinary, HandsReversed,
     HandsRight DEF Emit
<1>3. /\ job'.at <= Len(out')
      /\ (\E b \in Bodies : Sent \o Pending = Field(b))'
  BY <1>1, <1>2, FieldKept
<1>4. pc' \in Measured \ (Early \cup {"padl"}) /\ ~fs'.left_justified => field_pad' <= 0
  <2> SUFFICES ASSUME pc' \in Measured \ (Early \cup {"padl"}), ~fs.left_justified
               PROVE  field_pad' <= 0
    BY <1>1
  <2>0. field_pad \in Int /\ (~UseFieldWidth => field_pad <= 0)
    BY DEF IInv, TypeOK, CountInv
  <2>1. CASE pc \in Measured \ (Early \cup {"padl"})
    <3>1. field_pad <= 0
      BY <2>1 DEF FieldInv
    <3>2. field_pad' \in {field_pad, field_pad - 1}
      BY DEF Emit, PutSign, Put0, PutX, PadField, PadPrec, PayloadString, PayloadBinary,
         PayloadReversed, padVars
    <3> QED BY <2>0, <3>1, <3>2
  <2>2. CASE pc \in Early
    BY <2>2 DEF Emit, PutSign, Put0, PutX, PadField, PadPrec, PayloadString, PayloadBinary,
       PayloadReversed, Early, Measured, Emitting
  <2>3. CASE pc = "padl"
    <3>1. PadField("padl", "sign") /\ pc' # "padl"
      BY <2>3 DEF Emit, PutSign, Put0, PutX, PadField, PadPrec, PayloadString, PayloadBinary,
       PayloadReversed
    <3> QED BY <2>0, <3>1 DEF PadField
  <2> QED BY <1>1, <2>1, <2>2, <2>3 DEF Measured
<1>5. pc' \in {"early_prefix", "early_x"} => sign_c' = NUL
  BY DEF Emit, PutSign, Put0, PutX, PadField, PadPrec, PayloadString, PayloadBinary,
     PayloadReversed, FieldInv, textVars
<1> QED BY <1>3, <1>4, <1>5 DEF FieldInv

-----------------------------------------------------------------------------
(* The layout: the parts as they are measured make up the field.             *)

\* The text is laid out as b has it.
LaidOut(b) ==
  /\ SignText \o PrefixText = b.pre
  /\ Times("0", PrecPad) \o BodyText = b.body
  /\ UseFieldWidth => (PadChar = "0" <=> ~LeftJustified /\ S.leading_zero_pad /\ b.zeros)

\* The conversion's length is that of its prefix and its body.
LEMMA LayoutLengths ==
  ASSUME IInv, SpecInv, pc = "layout", NEW b, LaidOut(b)
  PROVE  /\ BodyLen \in Nat /\ PrecPad \in Nat /\ FieldPad \in Nat /\ (~UsePrecision => PrecPad = 0)
         /\ FieldPad = MaxOf(0, Width - Len(b.pre) - Len(b.body))
         /\ ~UseFieldWidth => FieldPad = 0
<1>0. /\ PartsTyped /\ "0" \in Chars
  BY PartTypes, DataAssumption
<1>1. /\ cbuf_len \in Nat /\ i = 0 /\ fs.prec \in Int /\ fs.field_width \in Int
      /\ cbuf \in Seq(Chars) /\ val \in Nat /\ (fs.conv_spec # "BINARY" => cbuf_len <= Len(cbuf))
  BY DEF IInv, ShapeInv, TypeOK, FormatSpec
<1>2. PrecPad \in Nat /\ (~UsePrecision => PrecPad = 0)
  BY <1>1 DEF PrecPad, MaxOf
<1>3. BodyLen = cbuf_len + (IF sign_c = NUL THEN 0 ELSE 1)
                     + (IF need_0x = NUL THEN 0 ELSE 2) + PrecPad
  BY DEF BodyLen
<1>5. Len(SignText) = (IF sign_c = NUL THEN 0 ELSE 1)
  BY DEF SignText
<1>6. Len(PrefixText) = (IF need_0x = NUL THEN 0 ELSE 2)
  BY DEF PrefixText
<1>7. Len(BodyText) = cbuf_len
  <2>1. CASE fs.conv_spec = "STRING"
    <3>0. i + 1 = 1
      BY <1>1
    <3>1. BodyText = SubSeq(cbuf, 1, cbuf_len)
      BY <2>1, <3>0, Zenon DEF BodyText
    <3>2. \A k \in 1..cbuf_len : cbuf[k] \in Chars
      BY <1>1, <2>1
    <3>3. Len(SubSeq(cbuf, 1, cbuf_len)) = cbuf_len
      BY <1>1, <3>2, SubSeqProperties
    <3> QED BY <3>1, <3>3
  <2>2. CASE fs.conv_spec = "BINARY"
    <3>1. BodyText = Bits(val, cbuf_len)
      BY <2>2 DEF BodyText
    <3> QED BY <1>1, <3>1, BitsType DEF MaxOf
  <2>3. CASE fs.conv_spec \notin {"STRING", "BINARY"}
    <3>1. BodyText = Mirror(cbuf, cbuf_len)
      BY <2>3 DEF BodyText
    <3> QED BY <1>1, <2>3, <3>1, MirrorType DEF MaxOf
  <2> QED BY <2>1, <2>2, <2>3
<1>8. Len(Times("0", PrecPad)) = PrecPad /\ Times("0", PrecPad) \in Seq(Chars)
  BY <1>0, <1>2, TimesType DEF MaxOf
<1> DEFINE n1 == Len(b.pre)
           n2 == Len(b.body)
           s1 == Len(SignText)
           s2 == Len(PrefixText)
           s3 == Len(BodyText)
<1>9. n1 = s1 + s2 /\ n2 = PrecPad + s3
  <2>1. Len(SignText \o PrefixText) = s1 + s2
    BY <1>0, Joined DEF PartsTyped
  <2>2. Len(Times("0", PrecPad) \o BodyText) = Len(Times("0", PrecPad)) + s3
    BY <1>0, <1>8, Joined DEF PartsTyped
  <2> QED BY <1>8, <2>1, <2>2 DEF LaidOut
<1> HIDE DEF n1, n2
<1>10. s1 \in Nat /\ s2 \in Nat /\ s3 \in Nat
  BY <1>1, <1>5, <1>6, <1>7
<1>a. BodyLen = n1 + n2 /\ n1 \in Nat /\ n2 \in Nat
  <2>1. BodyLen = s3 + s1 + s2 + PrecPad
    BY <1>3, <1>5, <1>6, <1>7
  <2> HIDE DEF s1, s2, s3
  <2> QED BY <1>2, <1>9, <1>10, <2>1
<1>b. (~UseFieldWidth => Width = 0) /\ (UseFieldWidth => fs.field_width = Width)
  BY DEF SpecInv, Reading, WidthKnown, Width
<1>11. FieldPad = IF UseFieldWidth THEN MaxOf(0, fs.field_width - BodyLen) ELSE 0
  BY DEF FieldPad
<1>12. FieldPad = MaxOf(0, Width - n1 - n2) /\ FieldPad \in Nat /\ (~UseFieldWidth => FieldPad = 0)
  <2>1. CASE UseFieldWidth
    <3> DEFINE w == Width
    <3>1. w \in Int /\ FieldPad = MaxOf(0, w - BodyLen)
      BY <1>1, <1>11, <1>b, <2>1
    <3> HIDE DEF w
    <3>2. FieldPad = MaxOf(0, w - n1 - n2) /\ FieldPad \in Nat
      BY <1>a, <3>1 DEF MaxOf
    <3> QED BY <2>1, <3>2 DEF w
  <2>2. CASE ~UseFieldWidth
    <3>1. Width = 0 /\ FieldPad = 0
      BY <1>11, <1>b, <2>2
    <3>2. MaxOf(0, 0 - n1 - n2) = 0
      BY <1>a DEF MaxOf
    <3> QED BY <2>2, <3>1, <3>2
  <2> QED BY <2>1, <2>2
<1>13. BodyLen \in Nat
  BY <1>a
<1> QED BY <1>2, <1>12, <1>13, Zenon DEF n1, n2

\* Concatenation as an operator of its own, for the solvers to regroup.
Cat(a, b) == a \o b

LEMMA CatLaws ==
  /\ \A a, b \in Seq(Chars) : Cat(a, b) \in Seq(Chars)
  /\ \A a, b, c \in Seq(Chars) : Cat(Cat(a, b), c) = Cat(a, Cat(b, c))
<1>1. ASSUME NEW a \in Seq(Chars), NEW b \in Seq(Chars) PROVE Cat(a, b) \in Seq(Chars)
  BY Joined DEF Cat
<1>2. ASSUME NEW a \in Seq(Chars), NEW b \in Seq(Chars), NEW c \in Seq(Chars)
      PROVE  Cat(Cat(a, b), c) = Cat(a, Cat(b, c))
  BY Grouped, Zenon DEF Cat
<1> QED BY <1>1, <1>2

LEMMA LayoutPending ==
  ASSUME IInv, SpecInv, Layout, NEW b, LaidOut(b)
  PROVE  Pending' = Field(b)
<1>0. /\ pc = "layout" /\ pc' \in {"padl", "early_sign"} /\ PartsTyped
      /\ UNCHANGED <<fs, val, cbuf, cbuf_len, sign_c, need_0x, i>>
      /\ fs.left_justified = LeftJustified /\ "0" \in Chars /\ SPACE \in Chars
  BY PartTypes, DataAssumption DEF Layout, numVars, textVars, SpecInv, Reading, WidthKnown
<1> DEFINE s == SignText
           x == PrefixText
           z == Times("0", PrecPad)
           d == BodyText
           w == FieldPad
           g == Times("0", w)
           f == Times(SPACE, w)
<1>1. s \in Seq(Chars) /\ x \in Seq(Chars) /\ d \in Seq(Chars)
  BY <1>0 DEF PartsTyped
<1>2. /\ PrecPad \in Nat /\ w \in Nat /\ w = MaxOf(0, Width - Len(b.pre) - Len(b.body))
      /\ (~UseFieldWidth => w = 0) /\ (~UsePrecision => PrecPad = 0)
  BY <1>0, LayoutLengths
<1>3. z \in Seq(Chars) /\ g \in Seq(Chars) /\ f \in Seq(Chars)
  BY <1>0, <1>2, TimesType
<1>4. SignText' = s /\ PrefixText' = x /\ BodyText' = d
  BY <1>0, Zenon DEF SignText, PrefixText, BodyText, Bits, Mirror
<1>5. b.pre = s \o x /\ b.body = z \o d
  BY DEF LaidOut
<1> DEFINE left == ((s \o x) \o (z \o d)) \o f
           zeros == ((s \o x) \o g) \o (z \o d)
           right == (f \o (s \o x)) \o (z \o d)
<1>6. Field(b) = CASE LeftJustified -> left
                  [] ~LeftJustified /\ S.leading_zero_pad /\ b.zeros -> zeros
                  [] OTHER -> right
  <2>1. Field(b) = CASE LeftJustified -> (b.pre \o b.body) \o f
                  [] ~LeftJustified /\ S.leading_zero_pad /\ b.zeros ->
                       (b.pre \o g) \o b.body
                  [] OTHER -> (f \o b.pre) \o b.body
    BY <1>2, Zenon DEF Field
  <2> QED BY <1>5, <2>1, Zenon
<1>7. UseFieldWidth => (PadChar = "0" <=> ~LeftJustified /\ S.leading_zero_pad /\ b.zeros)
  BY DEF LaidOut
<1>8. /\ UseFieldWidth => pad_c' = PadChar
      /\ ~(UseFieldWidth /\ UsePrecision /\ PadChar = "0") => prec_pad' = PrecPad /\ field_pad' = w
      /\ UseFieldWidth /\ UsePrecision /\ PadChar = "0" => prec_pad' = PrecPad + w /\ field_pad' = 0
      /\ pc' = IF UseFieldWidth /\ ~UsePrecision /\ PadChar = "0" THEN "early_sign" ELSE "padl"
  BY DEF Layout
<1>9. PadChar \in {SPACE, "0"}
  BY PadCharType
<1>10. /\ LeftPad' = IF LeftJustified THEN <<>> ELSE Times(pad_c', field_pad')
       /\ RightPad' = IF LeftJustified THEN Times(pad_c', field_pad') ELSE <<>>
  BY <1>0, Zenon DEF LeftPad, RightPad, Early, Times
<1>11. Core' = Times("0", prec_pad') \o (d \o RightPad')
  BY <1>4, Zenon DEF Core, Times
<1>12. Pending' = IF pc' = "early_sign" THEN s \o (x \o (LeftPad' \o Core'))
                  ELSE LeftPad' \o (s \o (x \o Core'))
  BY <1>0, <1>4 DEF Pending, Early
<1>13. Times(pad_c', 0) = <<>> /\ Times(SPACE, 0) = <<>> /\ Times("0", 0) = <<>>
  BY DEF Times
<1>d. /\ z = Times("0", PrecPad) /\ g = Times("0", w) /\ f = Times(SPACE, w)
      /\ (w = 0 => g = <<>> /\ f = <<>>)
  BY <1>13
<1> HIDE DEF s, x, z, d, w, g, f
<1>e. /\ s \o (x \o (z \o (d \o f))) = left
      /\ s \o (x \o ((g \o z) \o d)) = zeros
      /\ f \o (s \o (x \o (z \o d))) = right
  <2>0. /\ s \in Seq(Chars) /\ x \in Seq(Chars) /\ d \in Seq(Chars) /\ z \in Seq(Chars)
        /\ g \in Seq(Chars) /\ f \in Seq(Chars)
    BY <1>1, <1>3
  <2>1. Cat(s, x) \in Seq(Chars) /\ Cat(z, d) \in Seq(Chars) /\ Cat(d, f) \in Seq(Chars)
        /\ Cat(g, z) \in Seq(Chars)
    BY <2>0, CatLaws
  <2>2. /\ Cat(z, Cat(d, f)) = Cat(Cat(z, d), f) /\ Cat(Cat(g, z), d) = Cat(g, Cat(z, d))
        /\ Cat(x, Cat(z, d)) \in Seq(Chars)
    BY <2>0, <2>1, CatLaws
  <2>3. Cat(s, Cat(x, Cat(z, Cat(d, f)))) = Cat(Cat(Cat(s, x), Cat(z, d)), f)
    <3>1. Cat(Cat(z, d), f) \in Seq(Chars)
      BY <2>0, <2>1, CatLaws
    <3>2. Cat(s, Cat(x, Cat(Cat(z, d), f))) = Cat(Cat(s, x), Cat(Cat(z, d), f))
      BY <2>0, <3>1, CatLaws
    <3>3. Cat(Cat(Cat(s, x), Cat(z, d)), f) = Cat(Cat(s, x), Cat(Cat(z, d), f))
      BY <2>0, <2>1, CatLaws
    <3> QED BY <2>2, <3>2, <3>3
  <2>4. Cat(s, Cat(x, Cat(Cat(g, z), d))) = Cat(Cat(Cat(s, x), g), Cat(z, d))
    <3>1. Cat(g, Cat(z, d)) \in Seq(Chars)
      BY <2>0, <2>1, CatLaws
    <3>2. Cat(s, Cat(x, Cat(g, Cat(z, d)))) = Cat(Cat(s, x), Cat(g, Cat(z, d)))
      BY <2>0, <3>1, CatLaws
    <3>3. Cat(Cat(Cat(s, x), g), Cat(z, d)) = Cat(Cat(s, x), Cat(g, Cat(z, d)))
      BY <2>0, <2>1, CatLaws
    <3> QED BY <2>2, <3>2, <3>3
  <2>5. Cat(f, Cat(s, Cat(x, Cat(z, d)))) = Cat(Cat(f, Cat(s, x)), Cat(z, d))
    <3>1. Cat(s, Cat(x, Cat(z, d))) = Cat(Cat(s, x), Cat(z, d))
      BY <2>0, <2>1, CatLaws
    <3>2. Cat(Cat(f, Cat(s, x)), Cat(z, d)) = Cat(f, Cat(Cat(s, x), Cat(z, d)))
      BY <2>0, <2>1, CatLaws
    <3> QED BY <3>1, <3>2
  <2> QED BY <2>3, <2>4, <2>5, Zenon DEF Cat
<1> HIDE DEF left, zeros, right
<1>14. <<>> \in Seq(Chars) /\ z \o d \in Seq(Chars) /\ d \o <<>> = d /\ s \o x \in Seq(Chars)
  BY <1>1, <1>3, EmptySeq, Joined, Nil
<1>a. CASE LeftJustified
  <2>1. PadChar # "0" \/ ~UseFieldWidth
    BY <1>7, <1>a
  <2>2. prec_pad' = PrecPad /\ field_pad' = w /\ pc' = "padl"
    BY <1>8, <2>1
  <2>3. Times(pad_c', field_pad') = f
    <3>1. CASE UseFieldWidth
      BY <1>8, <1>9, <1>d, <2>1, <2>2, <3>1
    <3>2. CASE ~UseFieldWidth
      BY <1>2, <1>13, <1>d, <2>2, <3>2
    <3> QED BY <3>1, <3>2
  <2>4. RightPad' = f /\ LeftPad' = <<>>
    BY <1>10, <1>a, <2>3
  <2>5. Core' = z \o (d \o f)
    BY <1>11, <1>d, <2>2, <2>4
  <2>6. d \o f \in Seq(Chars)
    BY <1>1, <1>3, Joined
  <2>7. Core' \in Seq(Chars)
    BY <1>3, <2>5, <2>6, Joined
  <2>8. x \o Core' \in Seq(Chars)
    BY <1>1, <2>7, Joined
  <2>9. s \o (x \o Core') \in Seq(Chars)
    BY <1>1, <2>8, Joined
  <2>10. Pending' = s \o (x \o Core')
    BY <1>12, <2>2, <2>4, <2>9, Nil
  <2>11. Field(b) = left
    BY <1>6, <1>a
  <2> QED BY <1>e, <2>5, <2>10, <2>11, Zenon
<1>b. CASE ~LeftJustified /\ UseFieldWidth /\ PadChar = "0"
  <2>1. RightPad' = <<>> /\ LeftPad' = Times(pad_c', field_pad') /\ pad_c' = "0"
    BY <1>8, <1>10, <1>b
  <2>2. Field(b) = zeros
    BY <1>6, <1>7, <1>b
  <2>4. CASE UsePrecision
    <3>1. prec_pad' = PrecPad + w /\ field_pad' = 0 /\ pc' = "padl"
      BY <1>8, <1>b, <2>4
    <3>2. LeftPad' = <<>>
      BY <1>13, <2>1, <3>1
    <3>3. PrecPad + w = w + PrecPad
      BY <1>2
    <3>4. Times("0", w + PrecPad) = g \o z
      BY <1>0, <1>2, <1>d, TimesSum
    <3>5. Core' = (g \o z) \o d
      BY <1>11, <1>14, <2>1, <3>1, <3>3, <3>4
    <3>6. g \o z \in Seq(Chars)
      BY <1>3, Joined
    <3>7. Core' \in Seq(Chars)
      BY <1>1, <3>5, <3>6, Joined
    <3>8. x \o Core' \in Seq(Chars)
      BY <1>1, <3>7, Joined
    <3>9. s \o (x \o Core') \in Seq(Chars)
      BY <1>1, <3>8, Joined
    <3>10. Pending' = s \o (x \o Core')
      BY <1>12, <3>1, <3>2, <3>9, Nil
    <3> QED BY <1>e, <2>2, <3>5, <3>10, Zenon
  <2>5. CASE ~UsePrecision
    <3>1. prec_pad' = PrecPad /\ field_pad' = w /\ pc' = "early_sign"
      BY <1>8, <1>b, <2>5
    <3>2. z = <<>> /\ Times("0", prec_pad') = <<>>
      BY <1>2, <1>13, <1>d, <2>5, <3>1
    <3>3. Core' = d
      BY <1>1, <1>11, <1>14, <2>1, <3>2, Nil
    <3>4. g \o z = g
      BY <1>3, <3>2, Nil
    <3>5. Pending' = s \o (x \o (g \o d))
      BY <1>12, <1>d, <2>1, <3>1, <3>3
    <3> QED BY <1>e, <2>2, <3>4, <3>5, Zenon
  <2> QED BY <2>4, <2>5
<1>c. CASE ~LeftJustified /\ ~(UseFieldWidth /\ PadChar = "0")
  <2>1. prec_pad' = PrecPad /\ field_pad' = w /\ pc' = "padl" /\ RightPad' = <<>>
        /\ LeftPad' = Times(pad_c', field_pad')
    BY <1>8, <1>10, <1>c
  <2>2. LeftPad' = f
    <3>1. CASE UseFieldWidth
      BY <1>8, <1>9, <1>c, <1>d, <2>1, <3>1
    <3>2. CASE ~UseFieldWidth
      BY <1>2, <1>13, <1>d, <2>1, <3>2
    <3> QED BY <3>1, <3>2
  <2>3. Core' = z \o d
    BY <1>11, <1>14, <1>d, <2>1
  <2>4. Pending' = f \o (s \o (x \o (z \o d)))
    BY <1>12, <2>1, <2>2, <2>3
  <2>5. CASE ~(S.leading_zero_pad /\ b.zeros)
    <3>1. Field(b) = right
      BY <1>6, <1>c, <2>5
    <3> QED BY <1>e, <2>4, <3>1, Zenon
  <2>6. CASE S.leading_zero_pad /\ b.zeros
    <3>1. ~UseFieldWidth
      BY <1>7, <1>c, <2>6
    <3>2. f = <<>> /\ g = <<>>
      BY <1>2, <1>d, <3>1
    <3>3. Field(b) = zeros
      BY <1>6, <1>c, <2>6
    <3>4. <<>> \o (s \o x) = s \o x /\ (s \o x) \o <<>> = s \o x
      BY <1>14, Nil
    <3>5. right = zeros
      BY <3>2, <3>4, Zenon DEF left, zeros, right
    <3> QED BY <1>e, <2>4, <3>3, <3>5, Zenon
  <2> QED BY <2>5, <2>6
<1> QED BY <1>a, <1>b, <1>c

LEMMA FieldLayout ==
  ASSUME IInv, IInv', SpecInv, Layout, \E b \in Bodies : LaidOut(b)
  PROVE  FieldInv'
<1>1. PICK b \in Bodies : LaidOut(b)
  OBVIOUS
<1>2. /\ pc = "layout" /\ pc' \in {"padl", "early_sign"} /\ job' = job /\ out' = out
      /\ job.at = Len(out) /\ out \in Seq(Chars)
  BY DEF Layout, ghosts, IInv, CountInv, TypeOK, Measured, Emitting, Early
<1>3. Pending' = Field(b)
  BY <1>1, LayoutPending
<1>4. Bodies' = Bodies /\ Field(b)' = Field(b)
  BY <1>2, SameJob
<1>5. Sent' = <<>>
  <2>1. Sent' = SubSeq(out, Len(out) + 1, Len(out))
    BY <1>2 DEF Sent
  <2>2. Len(out) \in Nat
    BY <1>2
  <2> QED BY <1>2, <2>1, <2>2
<1>6. Field(b) \in Seq(Chars)
  <2>1. (IInv /\ pc \in Emitting \cup {"layout", "tally"} => PartsTyped)'
    BY PartTypes, PTL
  <2> QED BY <1>2, <1>3, <2>1 DEF PartsTyped, Emitting, Early
<1>7. <<>> \o Field(b) = Field(b)
  BY <1>6, Nil
<1>8. (\E c \in Bodies : Sent \o Pending = Field(c))'
  BY <1>1, <1>3, <1>4, <1>5, <1>7
<1>9. Len(out) \in Nat /\ job'.at <= Len(out')
  BY <1>2
<1> QED BY <1>2, <1>8, <1>9 DEF FieldInv, Measured, Emitting, Early

-----------------------------------------------------------------------------
(* The third part of the invariant: what the conversion has done so far.     *)

\* The sign of an integer, and its numeral.
Signs == IF S.conv_spec # "SIGNED_INT" THEN <<>>
         ELSE IF IntegerArg < 0 THEN <<"-">>
         ELSE IF S.prepend # NUL THEN <<S.prepend>> ELSE <<>>
Figures == Numeral(val, BaseOf, S.case_adjust)

ScanInv == /\ S.conv_spec = "STRING" /\ LastArg # 0 /\ cbuf = Heap[LastArg].chars
           /\ sign_c = NUL /\ need_0x = NUL
           /\ Precision >= 0 => cbuf_len <= Precision

ValueInv == /\ S.conv_spec \in IntConvs \cup {"POINTER"}
            /\ val = AbsOf(IntegerArg)
            /\ base = IF S.conv_spec = "BINARY" THEN 10 ELSE BaseOf
            /\ SignText = Signs /\ need_0x = NUL

\* Past the blank result the value has digits.
DigitsInv == /\ zero <=> UsePrecision /\ UseFieldWidth /\ val = 0
             /\ ~(val = 0 /\ Precision = 0)

TextInv ==
  /\ pc \in {"convert", "scan"} => ~zero
  /\ pc = "scan" => ScanInv
  /\ pc \in {"integer", "utoa", "binlen", "alt"} => ValueInv
  /\ pc = "integer" => cbuf = <<>> /\ cbuf_len = 0
  /\ pc \in {"utoa", "binlen", "alt"} => DigitsInv
  /\ pc = "utoa" => /\ S.conv_spec # "BINARY" /\ cbuf_len = Len(cbuf)
                    /\ Figures = Numeral(v32, BaseOf, S.case_adjust) \o Mirror(cbuf, cbuf_len)
  /\ pc = "binlen" => /\ S.conv_spec = "BINARY" /\ v32 = val \div 2 ^ cbuf_len
                      /\ Figures = Numeral(v32, 2, S.case_adjust) \o Bits(val, cbuf_len)
  /\ pc = "alt" => /\ Figures = BodyText
                   /\ S.conv_spec # "BINARY" => cbuf_len = Len(cbuf)
  /\ pc = "layout" => \E b \in Bodies : LaidOut(b)

\* What the two parts of the invariant say while a specification is converted.
LEMMA AtConvert ==
  ASSUME IInv, SpecInv, pc \in Converting
  PROVE  /\ job.spec \in Specs /\ job.args \in ArgsOf[job.spec] /\ S \in Specs /\ S \in FormatSpec
         /\ FlagsKept /\ WidthKnown /\ PrecisionKnown /\ DefaultKnown /\ ZerosKnown
         /\ Precision \in Int /\ Precision >= -1 /\ (Precision >= 0 => UsePrecision)
         /\ fs \in FormatSpec /\ cbuf \in Seq(Chars) /\ cbuf_len \in Nat /\ i = 0
<1>1. /\ job.spec \in Specs /\ job.args \in ArgsOf[job.spec]
      /\ FlagsKept /\ WidthKnown /\ PrecisionKnown /\ DefaultKnown /\ ZerosKnown
  BY DEF SpecInv, Reading, Converting
<1>2. fs \in FormatSpec /\ cbuf \in Seq(Chars) /\ cbuf_len \in Nat /\ i = 0
  BY DEF IInv, TypeOK, ShapeInv, Converting
<1> QED BY <1>1, <1>2, Precise, SpecFacts

\* A step to the layout with the parts of b.
LEMMA ToLayout ==
  ASSUME job' = job, pc' = "layout", NEW b \in Bodies,
         SignText' \o PrefixText' = b.pre,
         Times("0", PrecPad') \o BodyText' = b.body,
         UseFieldWidth => (PadChar' = "0" <=> ~LeftJustified /\ S.leading_zero_pad /\ b.zeros)
  PROVE  TextInv'
<1>1. S' = S /\ LeftJustified' = LeftJustified /\ Bodies' = Bodies
  BY SameJob
<1>2. LaidOut(b)'
  BY <1>1, Zenon DEF LaidOut, Times
<1>3. (\E c \in Bodies : LaidOut(c))'
  BY <1>1, <1>2
<1> QED BY <1>3 DEF TextInv

\* Where no precision of zero holds it back, the padding is zeros as the flags say.
LEMMA PadCharFlag ==
  ASSUME ~(UsePrecision /\ fs.prec_opt # NONE /\ fs.prec = 0 /\ zero)
  PROVE  PadChar = "0" <=> fs.leading_zero_pad /\ ~fs.left_justified
BY DEF PadChar

\* A body of one character, or of none, without sign or prefix.
LEMMA TextOfNone ==
  ASSUME IInv, IInv', SpecInv, TextInv, ConvertWriteback
  PROVE  TextInv'
<1>1. /\ pc = "convert" /\ pc' = "layout" /\ job' = job /\ fs.conv_spec = "WRITEBACK" /\ ~zero
      /\ UNCHANGED <<fs, cbuf, cbuf_len, sign_c, need_0x, zero, i, val>>
      /\ cbuf = <<>> /\ cbuf_len = 0 /\ sign_c = NUL /\ need_0x = NUL
  BY DEF ConvertWriteback, numVars, textVars, padVars, IInv, ShapeInv, TextInv
<1>2. /\ S \in Specs /\ FlagsKept /\ WidthKnown /\ DefaultKnown /\ ZerosKnown
      /\ job.spec \in Specs /\ job.args \in ArgsOf[job.spec] /\ fs \in FormatSpec
  BY <1>1, AtConvert DEF Converting
<1>3. S.conv_spec = "WRITEBACK" /\ S.prec_opt = NONE
  BY <1>1, <1>2, DefinedAssumption DEF FlagsKept
<1>4. Precision = -1
  BY <1>2, <1>3, Precise
<1>5. UsePrecision => fs.prec = 0
  BY <1>2, <1>3, <1>4 DEF DefaultKnown, FloatConvs
<1>6. PrecPad' = 0
  BY <1>1, <1>5 DEF PrecPad, MaxOf, FloatConvs
<1>7. SignText' = <<>> /\ PrefixText' = <<>> /\ BodyText' = <<>>
  <2>1. Mirror(<<>>, 0) = <<>>
    BY DEF Mirror, MaxOf
  <2> QED BY <1>1, <2>1 DEF SignText, PrefixText, BodyText
<1>8. PadChar' = "0" <=> S.leading_zero_pad /\ ~LeftJustified
  <2>1. fs.leading_zero_pad <=> S.leading_zero_pad
    BY <1>2, <1>3 DEF ZerosKnown, IntConvs
  <2>2. PadChar' = PadChar
    BY <1>1 DEF PadChar
  <2> QED BY <1>1, <1>2, <2>1, <2>2, PadCharFlag DEF WidthKnown
<1> DEFINE b == [pre |-> <<>>, body |-> <<>>, zeros |-> TRUE]
<1>9. b \in Bodies
  BY <1>3 DEF Bodies, IntConvs
<1>10. Times("0", PrecPad') = <<>>
  BY <1>6 DEF Times
<1>11. <<>> \o <<>> = <<>>
  BY Nil, EmptySeq
<1>12. /\ SignText' \o PrefixText' = b.pre
       /\ Times("0", PrecPad') \o BodyText' = b.body
       /\ UseFieldWidth => (PadChar' = "0" <=> ~LeftJustified /\ S.leading_zero_pad /\ b.zeros)
  BY <1>7, <1>8, <1>10, <1>11
<1> HIDE DEF b
<1> QED BY <1>1, <1>9, <1>12, ToLayout

LEMMA TextOfChar ==
  ASSUME IInv, IInv', SpecInv, TextInv, ConvertChar
  PROVE  TextInv'
<1>1. /\ pc = "convert" /\ pc' = "layout" /\ job' = job /\ fs.conv_spec \in {"CHAR", "PERCENT"}
      /\ ~zero /\ UNCHANGED <<fs, sign_c, need_0x, zero, i, val>>
      /\ cbuf_len' = 1 /\ sign_c = NUL /\ need_0x = NUL
      /\ cbuf' = IF fs.conv_spec = "CHAR" THEN <<CharOf(ArgVal)>> ELSE <<"%">>
  BY DEF ConvertChar, numVars, padVars, ghosts, IInv, ShapeInv, TextInv
<1>2. /\ S \in Specs /\ FlagsKept /\ WidthKnown /\ DefaultKnown /\ ZerosKnown
      /\ job.spec \in Specs /\ job.args \in ArgsOf[job.spec] /\ fs \in FormatSpec
  BY <1>1, AtConvert DEF Converting
<1>3. S.conv_spec = fs.conv_spec /\ S.prec_opt = NONE
  BY <1>1, <1>2, DefinedAssumption DEF FlagsKept
<1>4. Precision = -1
  BY <1>2, <1>3, Precise
<1>5. UsePrecision => fs.prec = 0
  BY <1>1, <1>2, <1>3, <1>4 DEF DefaultKnown, FloatConvs
<1>6. PrecPad' = 0
  BY <1>1, <1>5 DEF PrecPad, MaxOf, FloatConvs
<1> DEFINE c == IF fs.conv_spec = "CHAR" THEN CharOf(LastArg) ELSE "%"
           b == [pre |-> <<>>, body |-> <<c>>, zeros |-> TRUE]
<1>7. cbuf' = <<c>>
  <2>1. fs.conv_spec = "CHAR" => ArgVal = LastArg
    BY <1>1, ValueIsLast
  <2> QED BY <1>1, <2>1
<1>8. b \in Bodies
  BY <1>1, <1>3 DEF Bodies, IntConvs
<1>9. c \in Chars
  BY DataAssumption DEF CharOf
<1> HIDE DEF c
<1>10. SignText' = <<>> /\ PrefixText' = <<>> /\ BodyText' = <<c>>
  <2>1. Mirror(<<c>>, 1) = <<c>> \o Mirror(<<c>>, 0)
    <3> DEFINE q == <<c>>
    <3>1. q \in Seq(Chars) /\ 1 \in 1..Len(q) /\ q[1] = c /\ 1 - 1 = 0
      BY <1>9
    <3> HIDE DEF q
    <3>2. Mirror(q, 1) = <<q[1]>> \o Mirror(q, 1 - 1)
      BY <3>1, MirrorFirst
    <3> QED BY <3>1, <3>2 DEF q
  <2>2. Mirror(<<c>>, 0) = <<>>
    BY DEF Mirror, MaxOf
  <2>3. <<c>> \o <<>> = <<c>>
    BY <1>9, One, Nil
  <2> QED BY <1>1, <1>7, <2>1, <2>2, <2>3 DEF SignText, PrefixText, BodyText
<1>11. PadChar' = "0" <=> S.leading_zero_pad /\ ~LeftJustified
  <2>1. fs.leading_zero_pad <=> S.leading_zero_pad
    BY <1>1, <1>2, <1>3 DEF ZerosKnown, IntConvs
  <2>2. PadChar' = PadChar
    BY <1>1 DEF PadChar
  <2> QED BY <1>1, <1>2, <2>1, <2>2, PadCharFlag DEF WidthKnown
<1>12. Times("0", PrecPad') = <<>>
  BY <1>6 DEF Times
<1>13. <<>> \o <<>> = <<>> /\ <<>> \o <<c>> = <<c>>
  BY <1>9, One, Nil, EmptySeq
<1>14. /\ SignText' \o PrefixText' = b.pre
       /\ Times("0", PrecPad') \o BodyText' = b.body
       /\ UseFieldWidth => (PadChar' = "0" <=> ~LeftJustified /\ S.leading_zero_pad /\ b.zeros)
  BY <1>10, <1>11, <1>12, <1>13
<1> HIDE DEF b
<1> QED BY <1>1, <1>8, <1>14, ToLayout

\* A step to the layout of a string cut to its precision.
LEMMA StringLaidOut ==
  ASSUME IInv, SpecInv, pc \in Converting, pc' = "layout", job' = job,
         UNCHANGED <<fs, sign_c, need_0x, zero, i>>,
         S.conv_spec = "STRING", sign_c = NUL, need_0x = NUL, ~zero,
         cbuf' = (IF LastArg = 0 THEN <<>> ELSE Heap[LastArg].chars), cbuf' \in Seq(Chars),
         cbuf_len' = IF Precision < 0 THEN Len(cbuf') ELSE MinOf(Precision, Len(cbuf'))
  PROVE  TextInv'
<1> DEFINE c == IF LastArg = 0 THEN <<>> ELSE Heap[LastArg].chars
           n == Len(c)
<1>1. /\ FlagsKept /\ WidthKnown /\ ZerosKnown /\ fs \in FormatSpec /\ i = 0
      /\ Precision \in Int /\ c \in Seq(Chars) /\ n \in Nat /\ cbuf' = c
  BY AtConvert
<1> DEFINE body == IF Precision < 0 THEN c ELSE SubSeq(c, 1, MinOf(Precision, n))
           b == [pre |-> <<>>, zeros |-> TRUE, body |-> body]
<1>2. b \in Bodies
  BY Zenon DEF Bodies, IntConvs
<1>3. BodyText' = SubSeq(c, 1, cbuf_len')
  <2>1. fs'.conv_spec = "STRING" /\ i' + 1 = 1
    BY <1>1 DEF FlagsKept
  <2> QED BY <1>1, <2>1, Zenon DEF BodyText
<1> HIDE DEF c, n
<1>4. SubSeq(c, 1, cbuf_len') = body
  <2>1. CASE Precision < 0
    <3>1. cbuf_len' = Len(c)
      BY <1>1, <2>1
    <3>2. SubSeq(c, 1, Len(c)) = c
      BY <1>1
    <3> QED BY <2>1, <3>1, <3>2
  <2>2. CASE ~(Precision < 0)
    BY <1>1, <2>2 DEF n
  <2> QED BY <2>1, <2>2
<1>5. body \in Seq(Chars)
  <2>1. CASE Precision < 0
    BY <1>1, <2>1
  <2>2. CASE ~(Precision < 0)
    <3> DEFINE m == MinOf(Precision, n)
    <3>1. m \in Nat /\ m <= n
      BY <1>1, <2>2 DEF MinOf
    <3> HIDE DEF m
    <3>2. \A k \in 1..m : c[k] \in Chars
      BY <1>1, <3>1 DEF n
    <3>3. SubSeq(c, 1, m) \in Seq(Chars)
      BY <1>1, <3>1, <3>2, SubSeqProperties
    <3> QED BY <2>2, <3>3 DEF m
  <2> QED BY <2>1, <2>2
<1>6. SignText' = <<>> /\ PrefixText' = <<>>
  BY DEF SignText, PrefixText
<1>7. PrecPad' = 0
  BY <1>1 DEF PrecPad, FlagsKept
<1>8. Times("0", PrecPad') = <<>>
  BY <1>7 DEF Times
<1>9. PadChar' = "0" <=> S.leading_zero_pad /\ ~LeftJustified
  <2>1. fs.leading_zero_pad <=> S.leading_zero_pad
    BY <1>1 DEF ZerosKnown, IntConvs
  <2>2. PadChar' = PadChar
    BY DEF PadChar
  <2> QED BY <1>1, <2>1, <2>2, PadCharFlag DEF WidthKnown
<1>10. <<>> \o <<>> = <<>> /\ <<>> \o body = body
  BY <1>5, Nil, EmptySeq
<1> HIDE DEF body
<1>11. /\ SignText' \o PrefixText' = b.pre
       /\ Times("0", PrecPad') \o BodyText' = b.body
       /\ UseFieldWidth => (PadChar' = "0" <=> ~LeftJustified /\ S.leading_zero_pad /\ b.zeros)
  BY <1>3, <1>4, <1>6, <1>8, <1>9, <1>10
<1> HIDE DEF b
<1> QED BY <1>2, <1>11, ToLayout

\* 1966: a null pointer is an empty string.
LEMMA TextOfString ==
  ASSUME IInv, IInv', SpecInv, TextInv, ConvertString
  PROVE  TextInv'
<1>1. /\ pc = "convert" /\ job' = job /\ fs.conv_spec = "STRING" /\ ~zero
      /\ UNCHANGED <<fs, cbuf_len, sign_c, need_0x, zero, i>>
      /\ cbuf_len = 0 /\ sign_c = NUL /\ need_0x = NUL /\ cbuf' \in Seq(Chars)
      /\ cbuf' = (IF ArgVal = 0 THEN <<>> ELSE Heap[ArgVal].chars)
      /\ pc' = (IF ArgVal = 0 THEN "layout" ELSE "scan")
  BY DEF ConvertString, ghosts, padVars, IInv, TypeOK, ShapeInv, TextInv
<1>2. ArgVal = LastArg
  BY <1>1, ValueIsLast
<1>3. S.conv_spec = "STRING" /\ Precision \in Int
  BY <1>1, AtConvert DEF Converting, FlagsKept
<1>4. CASE LastArg = 0
  <2>1. cbuf' = <<>> /\ pc' = "layout" /\ Len(cbuf') = 0
    BY <1>1, <1>2, <1>4
  <2>2. cbuf_len' = IF Precision < 0 THEN Len(cbuf') ELSE MinOf(Precision, Len(cbuf'))
    BY <1>1, <1>3, <2>1 DEF MinOf
  <2>3. cbuf' = (IF LastArg = 0 THEN <<>> ELSE Heap[LastArg].chars)
    BY <1>1, <1>2
  <2> QED BY <1>1, <1>3, <2>1, <2>2, <2>3, StringLaidOut DEF Converting
<1>5. CASE LastArg # 0
  <2>1. pc' = "scan" /\ cbuf' = Heap[LastArg].chars
    BY <1>1, <1>2, <1>5
  <2>2. S' = S /\ LastArg' = LastArg /\ Precision' = Precision
    BY <1>1, SameJob
  <2>3. ScanInv'
    BY <1>1, <1>3, <1>5, <2>1, <2>2 DEF ScanInv
  <2> QED BY <1>1, <2>1, <2>3 DEF TextInv
<1> QED BY <1>4, <1>5

\* 1967: the loop stops at the precision or at the end.
LEMMA TextOfScan ==
  ASSUME IInv, IInv', SpecInv, TextInv, Scan
  PROVE  TextInv'
<1>1. /\ pc = "scan" /\ job' = job /\ ~zero /\ ScanInv
      /\ UNCHANGED <<fs, cbuf, sign_c, need_0x, zero, i>>
      /\ cbuf \in Seq(Chars) /\ cbuf_len \in Nat /\ cbuf_len <= Len(cbuf)
      /\ \/ ScanMore /\ cbuf_len < Len(cbuf) /\ cbuf_len' = cbuf_len + 1 /\ pc' = "scan"
         \/ ~(ScanMore /\ cbuf_len < Len(cbuf)) /\ cbuf_len' = cbuf_len /\ pc' = "layout"
  BY DEF Scan, ghosts, padVars, IInv, TypeOK, ShapeInv, TextInv
<1>2. Precision \in Int /\ PrecisionKnown /\ (Precision >= 0 => UsePrecision) /\ fs \in FormatSpec
  BY <1>1, AtConvert DEF Converting
<1>3. ScanMore <=> Precision < 0 \/ cbuf_len < Precision
  BY <1>1, <1>2 DEF ScanMore, PrecisionKnown
<1>4. CASE ScanMore /\ cbuf_len < Len(cbuf)
  <2>1. pc' = "scan" /\ cbuf_len' = cbuf_len + 1
    BY <1>1, <1>4
  <2>2. S' = S /\ LastArg' = LastArg /\ Precision' = Precision
    BY <1>1, SameJob
  <2>3. Precision >= 0 => cbuf_len' <= Precision
    BY <1>1, <1>2, <1>3, <1>4, <2>1
  <2>4. ScanInv'
    BY <1>1, <2>2, <2>3 DEF ScanInv
  <2> QED BY <1>1, <2>1, <2>4 DEF TextInv
<1>5. CASE ~(ScanMore /\ cbuf_len < Len(cbuf))
  <2>1. pc' = "layout" /\ cbuf_len' = cbuf_len
    BY <1>1, <1>5
  <2> DEFINE n == Len(cbuf)
  <2>2. n \in Nat
    BY <1>1
  <2>3. cbuf_len = IF Precision < 0 THEN n ELSE MinOf(Precision, n)
    BY <1>1, <1>2, <1>3, <1>5, <2>2 DEF ScanInv, MinOf
  <2>4. cbuf' = (IF LastArg = 0 THEN <<>> ELSE Heap[LastArg].chars)
    BY <1>1 DEF ScanInv
  <2>5. cbuf_len' = IF Precision < 0 THEN Len(cbuf') ELSE MinOf(Precision, Len(cbuf'))
    BY <1>1, <2>1, <2>3
  <2> QED BY <1>1, <2>1, <2>4, <2>5, StringLaidOut DEF Converting, ScanInv
<1> QED BY <1>4, <1>5

\* The digits of a float come back reversed; a text that is no number is not padded
\* with zeros.
LEMMA TextOfFloat ==
  ASSUME IInv, IInv', SpecInv, TextInv, NEW t \in FloatTexts, ConvertFloat(t)
  PROVE  TextInv'
<1>1. /\ pc = "convert" /\ pc' = "layout" /\ job' = job /\ fs.conv_spec \in FloatConvs
      /\ ~zero /\ UNCHANGED <<zero, i, val>> /\ fs \in FormatSpec
      /\ sign_c' = (IF ArgVal < 0 THEN "-" ELSE fs.prepend)
      /\ cbuf' = t.rev /\ cbuf_len' = Len(t.rev)
      /\ need_0x' = (IF fs.conv_spec = "FLOAT_HEX" /\ ~t.text THEN Letter("X", "x") ELSE NUL)
      /\ fs' = [fs EXCEPT !.leading_zero_pad = @ /\ ~(UseFieldWidth /\ t.text)]
  BY DEF ConvertFloat, numVars, padVars, ghosts, IInv, TypeOK, ShapeInv, TextInv
<1>2. /\ S \in Specs /\ FlagsKept /\ WidthKnown /\ ZerosKnown
  BY <1>1, AtConvert DEF Converting
<1>3. S.conv_spec = fs.conv_spec /\ ArgVal = LastArg
  BY <1>1, <1>2, ValueIsLast DEF FlagsKept, FloatConvs
<1>4. t.rev \in Seq(Chars) /\ t.text \in BOOLEAN
  BY DataAssumption
<1>5. /\ fs'.conv_spec = fs.conv_spec /\ fs'.left_justified = fs.left_justified
      /\ fs'.leading_zero_pad <=> fs.leading_zero_pad /\ ~(UseFieldWidth /\ t.text)
  BY <1>1 DEF FormatSpec
<1> DEFINE x == IF S.case_adjust = 0 THEN "X" ELSE "x"
           b == [pre |-> IF S.conv_spec = "FLOAT_HEX" /\ ~t.text
                         THEN Prefix \o <<"0", x>> ELSE Prefix,
                 body |-> Reverse(t.rev), zeros |-> ~t.text]
<1>6. b \in Bodies
  <2>1. S.conv_spec \notin IntConvs \cup {"POINTER", "STRING", "CHAR", "PERCENT", "WRITEBACK"}
    BY <1>1, <1>3 DEF FloatConvs, IntConvs
  <2>2. Bodies = {[pre |-> IF S.conv_spec = "FLOAT_HEX" /\ ~u.text
                           THEN Prefix \o <<"0", IF S.case_adjust = 0 THEN "X" ELSE "x">>
                           ELSE Prefix,
                   body |-> Reverse(u.rev), zeros |-> ~u.text] : u \in FloatTexts}
    BY <2>1, Zenon DEF Bodies
  <2> QED BY <2>2, Zenon
<1>7. Prefix = IF LastArg < 0 THEN <<"-">> ELSE IF S.prepend # NUL THEN <<S.prepend>> ELSE <<>>
  <2>1. S.conv_spec \in FloatConvs /\ S.conv_spec \notin {"HEX_INT", "BINARY", "SIGNED_INT"}
    BY <1>1, <1>3 DEF FloatConvs
  <2> QED BY <2>1 DEF Prefix
<1>8. SignText' = Prefix /\ Prefix \in Seq(Chars)
  <2>1. fs.prepend = S.prepend /\ S.prepend \in Chars /\ "-" \in Chars
    <3>1. S.prepend \in {NUL, SPACE, "+"} /\ fs.prepend = S.prepend
      BY <1>1, <1>2 DEF FormatSpec, FlagsKept
    <3> QED BY <3>1, DataAssumption
  <2>2. sign_c' = IF LastArg < 0 THEN "-" ELSE S.prepend
    BY <1>1, <1>3, <2>1
  <2>3. SignText' = Prefix
    BY <1>7, <2>2 DEF SignText
  <2>4. Prefix \in Seq(Chars)
    BY <1>7, <2>1, One, EmptySeq
  <2> QED BY <2>3, <2>4
<1>9. PrefixText' = IF S.conv_spec = "FLOAT_HEX" /\ ~t.text THEN <<"0", x>> ELSE <<>>
  <2>1. Letter("X", "x") = x
    BY <1>2 DEF Letter, FlagsKept
  <2>2. x # NUL
    OBVIOUS
  <2> HIDE DEF x
  <2> QED BY <1>1, <1>3, <2>1, <2>2 DEF PrefixText
<1>10. BodyText' = Reverse(t.rev)
  <2>1. BodyText' = Mirror(t.rev, Len(t.rev))
    BY <1>1, <1>5 DEF BodyText, FloatConvs
  <2> QED BY <1>4, <2>1, MirrorAll
<1>11. Reverse(t.rev) \in Seq(Chars)
  <2>1. Len(t.rev) \in Int /\ Len(t.rev) <= Len(t.rev)
    BY <1>4
  <2>2. Mirror(t.rev, Len(t.rev)) \in Seq(Chars)
    BY <1>4, <2>1, MirrorType
  <2> QED BY <1>4, <2>2, MirrorAll
<1>12. PrecPad' = 0
  BY <1>1, <1>5 DEF PrecPad
<1>13. Times("0", PrecPad') = <<>>
  BY <1>12 DEF Times
<1>14. UseFieldWidth => (PadChar' = "0" <=> ~LeftJustified /\ S.leading_zero_pad /\ ~t.text)
  <2>1. fs.leading_zero_pad <=> S.leading_zero_pad
    BY <1>1, <1>2, <1>3 DEF ZerosKnown, IntConvs, FloatConvs
  <2>2. PadChar' = "0" <=> fs'.leading_zero_pad /\ ~fs'.left_justified
    BY <1>1 DEF PadChar
  <2> QED BY <1>2, <1>5, <2>1, <2>2 DEF WidthKnown
<1> HIDE DEF x
<1>15. Prefix \o <<>> = Prefix /\ <<>> \o Reverse(t.rev) = Reverse(t.rev)
  BY <1>8, <1>11, Nil
<1>16. /\ b.pre = (IF S.conv_spec = "FLOAT_HEX" /\ ~t.text THEN Prefix \o <<"0", x>> ELSE Prefix)
       /\ b.body = Reverse(t.rev) /\ b.zeros = ~t.text
  OBVIOUS
<1> HIDE DEF b
<1>17. SignText' \o PrefixText' = b.pre
  <2>1. CASE S.conv_spec = "FLOAT_HEX" /\ ~t.text
    BY <1>8, <1>9, <1>16, <2>1, Zenon
  <2>2. CASE ~(S.conv_spec = "FLOAT_HEX" /\ ~t.text)
    BY <1>8, <1>9, <1>15, <1>16, <2>2, Zenon
  <2> QED BY <2>1, <2>2
<1>18. Times("0", PrecPad') \o BodyText' = b.body
  BY <1>10, <1>13, <1>15, <1>16, Zenon
<1>19. UseFieldWidth => (PadChar' = "0" <=> ~LeftJustified /\ S.leading_zero_pad /\ b.zeros)
  BY <1>14, <1>16
<1> QED BY <1>1, <1>6, <1>17, <1>18, <1>19, ToLayout

\* The narrow types.
LEMMA NarrowTypes ==
  /\ TMax["CHAR"] \in Nat /\ TMax["SHORT"] \in Nat /\ TMax["INT"] \in Nat /\ NpfIntMax \in Nat
  /\ TMax["CHAR"] <= TMax["INT"] /\ TMax["SHORT"] <= TMax["INT"] /\ TMax["INT"] <= NpfIntMax
<1>1. /\ TMax["CHAR"] \in Nat /\ TMax["SHORT"] \in Nat /\ TMax["INT"] \in Nat
      /\ TMax["LONG"] \in Nat /\ TMax["INTMAX"] \in Nat /\ TMax["PTR"] \in Nat
      /\ TMax["CHAR"] <= TMax["SHORT"] /\ TMax["SHORT"] <= TMax["INT"]
      /\ TMax["INT"] <= TMax["LONG"] /\ TMax["INT"] <= TMax["INTMAX"]
  BY TypesAssumption DEF IntTypes
<1> QED BY <1>1, NpfIntMaxNat DEF NpfIntMax, MaxOf

\* The argument of an integer conversion as its type and its length modifier have it.
LEMMA IntegerArgValue ==
  ASSUME job.spec \in Specs, job.args \in ArgsOf[job.spec], S.conv_spec \in IntConvs \cup {"POINTER"}
  PROVE  /\ LastArg \in Int /\ IntegerArg \in Int
         /\ S.conv_spec = "SIGNED_INT" =>
              /\ -(TMax[CallerType(S)] + 1) <= LastArg /\ LastArg <= TMax[CallerType(S)]
              /\ -(NpfIntMax + 1) <= IntegerArg /\ IntegerArg <= NpfIntMax
         /\ S.conv_spec # "SIGNED_INT" =>
              /\ LastArg \in Nat /\ LastArg <= 2 * TMax[CallerType(S)] + 1
              /\ IntegerArg \in Nat /\ IntegerArg <= 2 * NpfIntMax + 1
<1> DEFINE m == TMax[CallerType(S)]
           u == NpfIntMax
<1>1. S \in Specs /\ S = job.spec /\ m \in Nat /\ m <= u /\ u \in Nat
  <2>1. S \in Specs /\ S = job.spec
    BY DEF S
  <2> QED BY <2>1, ReadsFit, NpfIntMaxNat
<1>2. LastArg \in (IF S.conv_spec = "SIGNED_INT" THEN -(m + 1)..m ELSE 0..(2 * m + 1))
  BY <1>1, ValuesAssumption DEF LastArg
<1>3. IntegerArg = CASE S.length_modifier = "h" ->
                          (IF S.conv_spec = "SIGNED_INT" THEN Cast(LastArg, "SHORT")
                           ELSE UCast(LastArg, "SHORT"))
                     [] S.length_modifier = "hh" ->
                          (IF S.conv_spec = "SIGNED_INT" THEN Cast(LastArg, "CHAR")
                           ELSE UCast(LastArg, "CHAR"))
                     [] OTHER -> LastArg
  BY DEF IntegerArg
<1>4. /\ TMax["CHAR"] \in Nat /\ TMax["SHORT"] \in Nat
      /\ TMax["CHAR"] <= u /\ TMax["SHORT"] <= u
  BY NarrowTypes
<1> HIDE DEF m, u
<1>5. CASE S.conv_spec = "SIGNED_INT"
  <2>1. LastArg \in Int /\ -(m + 1) <= LastArg /\ LastArg <= m
    BY <1>1, <1>2, <1>5
  <2>2. CASE S.length_modifier = "h"
    <3>1. IntegerArg = Cast(LastArg, "SHORT")
      BY <1>3, <1>5, <2>2
    <3>2. /\ Cast(LastArg, "SHORT") \in Int
          /\ -(TMax["SHORT"] + 1) <= Cast(LastArg, "SHORT") /\ Cast(LastArg, "SHORT") <= TMax["SHORT"]
      BY <2>1, CastBounds DEF IntTypes
    <3>3. IntegerArg \in Int /\ -(u + 1) <= IntegerArg /\ IntegerArg <= u
      BY <1>1, <1>4, <3>1, <3>2
    <3> QED BY <1>5, <2>1, <3>3 DEF m, u
  <2>3. CASE S.length_modifier = "hh"
    <3>1. IntegerArg = Cast(LastArg, "CHAR")
      BY <1>3, <1>5, <2>3
    <3>2. /\ Cast(LastArg, "CHAR") \in Int
          /\ -(TMax["CHAR"] + 1) <= Cast(LastArg, "CHAR") /\ Cast(LastArg, "CHAR") <= TMax["CHAR"]
      BY <2>1, CastBounds DEF IntTypes
    <3>3. IntegerArg \in Int /\ -(u + 1) <= IntegerArg /\ IntegerArg <= u
      BY <1>1, <1>4, <3>1, <3>2
    <3> QED BY <1>5, <2>1, <3>3 DEF m, u
  <2>4. CASE S.length_modifier \notin {"h", "hh"}
    <3>1. IntegerArg = LastArg
      BY <1>3, <2>4
    <3>2. IntegerArg \in Int /\ -(u + 1) <= IntegerArg /\ IntegerArg <= u
      BY <1>1, <2>1, <3>1
    <3> QED BY <1>5, <2>1, <3>2 DEF m, u
  <2> QED BY <2>2, <2>3, <2>4
<1>6. CASE S.conv_spec # "SIGNED_INT"
  <2>1. LastArg \in Nat /\ LastArg <= 2 * m + 1
    BY <1>1, <1>2, <1>6
  <2>2. CASE S.length_modifier = "h"
    <3>1. IntegerArg = UCast(LastArg, "SHORT")
      BY <1>3, <1>6, <2>2
    <3>0. "SHORT" \in IntTypes /\ LastArg \in Int
      BY <2>1 DEF IntTypes
    <3>2. UCast(LastArg, "SHORT") \in Nat /\ UCast(LastArg, "SHORT") <= 2 * TMax["SHORT"] + 1
      BY <3>0, UCastBounds
    <3>3. IntegerArg \in Nat /\ IntegerArg <= 2 * u + 1
      BY <1>1, <1>4, <3>1, <3>2
    <3> QED BY <1>6, <2>1, <3>3 DEF m, u
  <2>3. CASE S.length_modifier = "hh"
    <3>1. IntegerArg = UCast(LastArg, "CHAR")
      BY <1>3, <1>6, <2>3
    <3>2. UCast(LastArg, "CHAR") \in Nat /\ UCast(LastArg, "CHAR") <= 2 * TMax["CHAR"] + 1
      BY <2>1, UCastBounds DEF IntTypes
    <3>3. IntegerArg \in Nat /\ IntegerArg <= 2 * u + 1
      BY <1>1, <1>4, <3>1, <3>2
    <3> QED BY <1>6, <2>1, <3>3 DEF m, u
  <2>4. CASE S.length_modifier \notin {"h", "hh"}
    <3>1. IntegerArg = LastArg
      BY <1>3, <2>4
    <3>2. IntegerArg \in Nat /\ IntegerArg <= 2 * u + 1
      BY <1>1, <2>1, <3>1
    <3> QED BY <1>6, <2>1, <3>2 DEF m, u
  <2> QED BY <2>2, <2>3, <2>4
<1> QED BY <1>5, <1>6

\* To the step that makes digits of the value.
LEMMA ToInteger ==
  ASSUME job' = job, pc' = "integer", cbuf' = <<>>, cbuf_len' = 0, need_0x' = NUL,
         S.conv_spec \in IntConvs \cup {"POINTER"}, val' = AbsOf(IntegerArg),
         base' = (IF S.conv_spec = "BINARY" THEN 10 ELSE BaseOf), SignText' = Signs
  PROVE  TextInv'
<1>1. S' = S /\ IntegerArg' = IntegerArg /\ BaseOf' = BaseOf
  BY SameJob
<1>2. Signs' = Signs
  BY <1>1 DEF Signs
<1>3. ValueInv'
  BY <1>1, <1>2, Zenon DEF ValueInv
<1> QED BY <1>3 DEF TextInv

\* 1778-1783: the cast to the argument's type, the narrowing and the two negations.
LEMMA TextOfSigned ==
  ASSUME IInv, IInv', SpecInv, TextInv, ConvertSigned
  PROVE  TextInv'
<1> DEFINE sval == SignedSmall(Cast(ArgVal, VaArgType))
<1>1. /\ pc = "convert" /\ pc' = "integer" /\ job' = job /\ fs.conv_spec = "SIGNED_INT"
      /\ UNCHANGED <<fs, cbuf, cbuf_len, need_0x>> /\ base' = 10
      /\ cbuf = <<>> /\ cbuf_len = 0 /\ need_0x = NUL
      /\ sign_c' = (IF sval < 0 THEN "-" ELSE fs.prepend)
      /\ val' = ToNpfUint(IF sval < 0 THEN 0 - ToNpfUint(sval) ELSE sval)
  BY DEF ConvertSigned, ghosts, IInv, ShapeInv
<1>2. /\ job.spec \in Specs /\ job.args \in ArgsOf[job.spec] /\ S \in Specs /\ FlagsKept
      /\ S \in FormatSpec
  BY <1>1, AtConvert DEF Converting
<1>3. S.conv_spec = "SIGNED_INT" /\ fs.length_modifier = S.length_modifier /\ ArgVal = LastArg
      /\ fs.prepend = S.prepend /\ CallerType(S) \in IntTypes
  <2>1. S.conv_spec = "SIGNED_INT" /\ fs.length_modifier = S.length_modifier /\ ArgVal = LastArg
        /\ fs.prepend = S.prepend
    BY <1>1, <1>2, ValueIsLast DEF FlagsKept
  <2>2. S.length_modifier \in LenMods
    BY <1>2 DEF FormatSpec
  <2>3. CallerType(S) = IF S.length_modifier \in {"h", "hh"} THEN "INT" ELSE TypeOf(S.length_modifier)
    BY <2>1 DEF CallerType, PassType, FloatConvs
  <2> QED BY <2>1, <2>2, <2>3 DEF TypeOf, IntTypes, LenMods
<1>4. S.conv_spec \in IntConvs /\ S.conv_spec \in IntConvs \cup {"POINTER"}
  BY <1>3 DEF IntConvs
<1>5. /\ LastArg \in Int /\ IntegerArg \in Int
      /\ -(TMax[CallerType(S)] + 1) <= LastArg /\ LastArg <= TMax[CallerType(S)]
      /\ -(NpfIntMax + 1) <= IntegerArg /\ IntegerArg <= NpfIntMax
  BY <1>2, <1>3, <1>4, IntegerArgValue
<1>6. Cast(ArgVal, VaArgType) = LastArg
  <2>1. VaArgType = ReadType(S.conv_spec, S.length_modifier)
    BY <1>1, <1>3 DEF VaArgType
  <2>2. TMax[VaArgType] = TMax[CallerType(S)]
    BY <1>2, <1>4, <2>1, ReadAsWide
  <2>3. Cast(LastArg, VaArgType) = Cast(LastArg, CallerType(S))
    BY <1>5, <2>2, CastByWidth
  <2>4. Cast(LastArg, CallerType(S)) = LastArg
    BY <1>3, <1>5, CastFits
  <2> QED BY <1>3, <2>3, <2>4
<1>7. sval = IntegerArg
  <2>1. ~UseSmall => S.length_modifier \notin {"h", "hh"}
    BY <1>2, FormatAssumption
  <2>2. sval = CASE UseSmall /\ S.length_modifier = "h"  -> Cast(LastArg, "SHORT")
                 [] UseSmall /\ S.length_modifier = "hh" -> Cast(LastArg, "CHAR")
                 [] OTHER -> LastArg
    BY <1>3, <1>6 DEF SignedSmall
  <2>3. IntegerArg = CASE S.length_modifier = "h" -> Cast(LastArg, "SHORT")
                       [] S.length_modifier = "hh" -> Cast(LastArg, "CHAR")
                       [] OTHER -> LastArg
    BY <1>3 DEF IntegerArg
  <2> HIDE DEF sval
  <2> QED BY <2>1, <2>2, <2>3
<1> HIDE DEF sval
<1>8. val' = AbsOf(IntegerArg)
  BY <1>1, <1>5, <1>7, Magnitude
<1>9. base' = (IF S.conv_spec = "BINARY" THEN 10 ELSE BaseOf)
  BY <1>1, <1>3 DEF BaseOf
<1>10. SignText' = Signs
  <2>1. S.prepend \in {NUL, SPACE, "+"}
    BY <1>2 DEF FormatSpec
  <2> QED BY <1>1, <1>3, <1>7, <2>1 DEF SignText, Signs
<1> QED BY <1>1, <1>4, <1>8, <1>9, <1>10, ToInteger

\* 1844-1918.
LEMMA TextOfUnsigned ==
  ASSUME IInv, IInv', SpecInv, TextInv, ConvertUnsigned
  PROVE  TextInv'
<1> DEFINE u == UnsignedSmall(UCast(ArgVal, VaArgType))
<1>1. /\ pc = "convert" /\ pc' = "integer" /\ job' = job
      /\ fs.conv_spec \in (IntConvs \cup {"POINTER"}) \ {"SIGNED_INT"}
      /\ UNCHANGED <<fs, cbuf, cbuf_len, sign_c, need_0x>>
      /\ cbuf = <<>> /\ cbuf_len = 0 /\ sign_c = NUL /\ need_0x = NUL
      /\ val' = ToNpfUint(IF fs.conv_spec = "POINTER" THEN ArgVal ELSE u)
      /\ base' = CASE fs.conv_spec \in {"POINTER", "HEX_INT"} -> 16
                   [] fs.conv_spec = "OCTAL" -> 8
                   [] OTHER -> 10
  BY DEF ConvertUnsigned, textVars, ghosts, IInv, ShapeInv
<1>2. /\ job.spec \in Specs /\ job.args \in ArgsOf[job.spec] /\ S \in Specs /\ FlagsKept
      /\ S \in FormatSpec
  BY <1>1, AtConvert DEF Converting
<1>3. S.conv_spec = fs.conv_spec /\ fs.length_modifier = S.length_modifier /\ ArgVal = LastArg
      /\ S.conv_spec \in IntConvs \cup {"POINTER"} /\ S.conv_spec # "SIGNED_INT"
  BY <1>1, <1>2, ValueIsLast DEF FlagsKept, IntConvs
<1>4. /\ LastArg \in Nat /\ LastArg <= 2 * TMax[CallerType(S)] + 1
      /\ IntegerArg \in Nat /\ IntegerArg <= 2 * NpfIntMax + 1
  BY <1>2, <1>3, IntegerArgValue
<1>5. (IF fs.conv_spec = "POINTER" THEN ArgVal ELSE u) = IntegerArg
  <2>1. CASE S.conv_spec = "POINTER"
    <3>1. S.length_modifier = NONE
      BY <1>2, <2>1, DefinedAssumption
    <3>2. IntegerArg = LastArg
      BY <3>1 DEF IntegerArg
    <3> QED BY <1>3, <2>1, <3>2
  <2>2. CASE S.conv_spec # "POINTER"
    <3>1. VaArgType = ReadType(S.conv_spec, S.length_modifier) /\ S.conv_spec \in IntConvs
      BY <1>3, <2>2 DEF VaArgType
    <3>2. TMax[VaArgType] = TMax[CallerType(S)]
      BY <1>2, <3>1, ReadAsWide
    <3>3. UCast(LastArg, VaArgType) = UCast(LastArg, CallerType(S))
      BY <3>2 DEF UCast
    <3>4. CallerType(S) \in IntTypes \cup {"PTR"}
      BY <1>2, <1>3, ReadsFit
    <3>5. UCast(LastArg, CallerType(S)) = LastArg
      BY <1>4, <3>4, UCastFits
    <3>6. ~UseSmall => S.length_modifier \notin {"h", "hh"}
      BY <1>2, FormatAssumption
    <3>7. u = CASE UseSmall /\ S.length_modifier = "h"  -> UCast(LastArg, "SHORT")
                [] UseSmall /\ S.length_modifier = "hh" -> UCast(LastArg, "CHAR")
                [] OTHER -> LastArg
      BY <1>3, <3>3, <3>5 DEF UnsignedSmall
    <3>8. IntegerArg = CASE S.length_modifier = "h" -> UCast(LastArg, "SHORT")
                         [] S.length_modifier = "hh" -> UCast(LastArg, "CHAR")
                         [] OTHER -> LastArg
      BY <1>3 DEF IntegerArg
    <3> HIDE DEF u
    <3> QED BY <1>3, <2>2, <3>6, <3>7, <3>8
  <2> QED BY <2>1, <2>2
<1> HIDE DEF u
<1>6. val' = IntegerArg
  BY <1>1, <1>4, <1>5, UintFits
<1>7. val' = AbsOf(IntegerArg)
  BY <1>4, <1>6 DEF AbsOf
<1>8. base' = (IF S.conv_spec = "BINARY" THEN 10 ELSE BaseOf)
  BY <1>1, <1>3 DEF BaseOf
<1>9. SignText' = Signs
  BY <1>1, <1>3 DEF SignText, Signs
<1> QED BY <1>1, <1>3, <1>7, <1>8, <1>9, ToInteger

-----------------------------------------------------------------------------
(* The digits.                                                               *)

\* The bases, and what they are to the value under conversion.
LEMMA BaseIs ==
  ASSUME ValueInv
  PROVE  /\ BaseOf \in {2, 8, 10, 16}
         /\ S.conv_spec # "BINARY" => base = BaseOf
         /\ S.conv_spec = "BINARY" => base = 10 /\ BaseOf = 2
         /\ base = 8 <=> S.conv_spec = "OCTAL"
         /\ base = 16 <=> S.conv_spec \in {"HEX_INT", "POINTER"}
<1>1. /\ S.conv_spec = "OCTAL" => BaseOf = 8
      /\ S.conv_spec \in {"HEX_INT", "POINTER"} => BaseOf = 16
      /\ S.conv_spec = "BINARY" => BaseOf = 2
      /\ S.conv_spec \notin {"OCTAL", "HEX_INT", "POINTER", "BINARY"} => BaseOf = 10
  BY DEF BaseOf
<1> QED BY <1>1 DEF ValueInv

LEMMA SameValue ==
  ASSUME job' = job, val' = val
  PROVE  Figures' = Figures /\ Signs' = Signs
<1>1. S' = S /\ IntegerArg' = IntegerArg /\ BaseOf' = BaseOf
  BY SameJob
<1> QED BY <1>1 DEF Figures, Signs

LEMMA ValueKept ==
  ASSUME ValueInv, job' = job, val' = val, base' = base, sign_c' = sign_c, need_0x' = need_0x
  PROVE  ValueInv'
<1>1. S' = S /\ IntegerArg' = IntegerArg /\ BaseOf' = BaseOf
  BY SameJob
<1>2. Signs' = Signs /\ SignText' = SignText
  BY SameValue DEF SignText
<1> QED BY <1>1, <1>2, Zenon DEF ValueInv

\* The value and its digits so far, whatever is left to divide.
LEMMA TextOfUtoa ==
  ASSUME IInv, IInv', SpecInv, TextInv, UtoaDigit
  PROVE  TextInv'
<1>1. /\ pc = "utoa" /\ job' = job /\ ValueInv /\ DigitsInv /\ cbuf_len = Len(cbuf)
      /\ S.conv_spec # "BINARY"
      /\ Figures = Numeral(v32, BaseOf, S.case_adjust) \o Mirror(cbuf, cbuf_len)
      /\ UNCHANGED <<fs, val, base, sign_c, need_0x, zero>>
      /\ cbuf' = Append(cbuf, DigitChar(v32 % base, fs.case_adjust))
      /\ cbuf_len' = cbuf_len + 1 /\ v32' = v32 \div base
      /\ pc' = (IF v32' = 0 THEN "alt" ELSE "utoa")
  BY DEF UtoaDigit, ghosts, TextInv
<1>2. /\ FlagsKept /\ fs \in FormatSpec /\ cbuf \in Seq(Chars) /\ v32 \in Nat /\ val \in Nat
  BY <1>1, AtConvert DEF Converting, IInv, TypeOK
<1>3. base = BaseOf /\ BaseOf \in {2, 8, 10, 16} /\ fs.case_adjust = S.case_adjust
      /\ fs.conv_spec = S.conv_spec
  BY <1>1, <1>2, BaseIs DEF FlagsKept
<1> DEFINE b == BaseOf
           adj == S.case_adjust
           c == DigitChar(v32 % b, adj)
           q == v32 \div b
           m == Mirror(cbuf, Len(cbuf))
<1>4. c \in Chars /\ q \in Nat /\ m \in Seq(Chars)
  <2>1. v32 % b \in 0..15 /\ q \in Nat
    BY <1>2, <1>3
  <2>2. Len(cbuf) \in Int /\ Len(cbuf) <= Len(cbuf)
    BY <1>2
  <2> QED BY <1>2, <2>1, <2>2, DigitIsChar, MirrorType
<1>5. Mirror(cbuf', cbuf_len') = <<c>> \o m
  <2>1. cbuf' = Append(cbuf, c) /\ cbuf_len' = Len(cbuf) + 1
    BY <1>1, <1>3
  <2> HIDE DEF c
  <2> QED BY <1>2, <1>4, <2>1, MirrorAppend
<1>6. Figures' = Figures
  BY <1>1, SameValue
<1>7. q = 0 => Numeral(v32, b, adj) = <<c>>
  <2>1. q = 0 => v32 < b /\ v32 % b = v32
    BY <1>2, <1>3
  <2> QED BY <1>2, <1>3, <2>1, NumeralRec
<1>8. q # 0 => Numeral(v32, b, adj) = Append(Numeral(q, b, adj), c)
  <2>1. q # 0 => v32 >= b
    BY <1>2, <1>3
  <2> QED BY <1>2, <1>3, <2>1, NumeralRec
<1>9. Numeral(q, b, adj) \in Seq(Chars)
  BY <1>3, <1>4, NumeralRec
<1>10. q = 0 => Figures' = Mirror(cbuf', cbuf_len')
  BY <1>1, <1>5, <1>6, <1>7
<1>11. q # 0 => Figures' = Numeral(q, b, adj) \o Mirror(cbuf', cbuf_len')
  <2> SUFFICES ASSUME q # 0 PROVE Figures' = Numeral(q, b, adj) \o Mirror(cbuf', cbuf_len')
    OBVIOUS
  <2> DEFINE d == Numeral(q, b, adj)
  <2>1. Figures' = Append(d, c) \o m
    BY <1>1, <1>6, <1>8
  <2>2. d \in Seq(Chars)
    BY <1>9
  <2> HIDE DEF d, c, m
  <2>3. Append(d, c) = d \o <<c>> /\ <<c>> \in Seq(Chars)
    BY <1>4, <2>2
  <2>4. (d \o <<c>>) \o m = d \o (<<c>> \o m)
    BY <1>4, <2>2, <2>3, Grouped
  <2> QED BY <1>5, <2>1, <2>3, <2>4, Zenon DEF d
<1>12. ValueInv'
  BY <1>1, ValueKept
<1>13. S' = S /\ Precision' = Precision /\ BaseOf' = BaseOf
  BY <1>1, SameJob
<1>14. DigitsInv'
  BY <1>1, <1>13, Zenon DEF DigitsInv
<1>15. cbuf_len' = Len(cbuf')
  BY <1>1, <1>2, <1>3, <1>4
<1>16. v32' = q
  BY <1>1, <1>3
<1> HIDE DEF c, q, m
<1>17. CASE q = 0
  <2>1. pc' = "alt"
    BY <1>1, <1>16, <1>17
  <2>2. pc' \notin Early \cup {"early_x", "x"} /\ fs'.conv_spec \notin {"STRING", "BINARY"}
    BY <1>1, <1>3, <2>1 DEF Early, ValueInv, IntConvs
  <2>3. BodyText' = Mirror(cbuf', cbuf_len')
    BY <2>2 DEF BodyText
  <2> QED BY <1>1, <1>10, <1>12, <1>14, <1>15, <1>17, <2>1, <2>3 DEF TextInv
<1>18. CASE q # 0
  <2>1. pc' = "utoa"
    BY <1>1, <1>16, <1>18
  <2>2. Figures' = Numeral(v32', BaseOf', S'.case_adjust) \o Mirror(cbuf', cbuf_len')
    BY <1>11, <1>13, <1>16, <1>18
  <2> QED BY <1>1, <1>12, <1>13, <1>14, <1>15, <2>1, <2>2 DEF TextInv
<1> QED BY <1>17, <1>18

\* The bits above the length so far are those left to divide.
LEMMA TextOfBinLen ==
  ASSUME IInv, IInv', SpecInv, TextInv, BinLen
  PROVE  TextInv'
<1>1. /\ pc = "binlen" /\ job' = job /\ ValueInv /\ DigitsInv /\ S.conv_spec = "BINARY"
      /\ v32 = val \div 2 ^ cbuf_len
      /\ Figures = Numeral(v32, 2, S.case_adjust) \o Bits(val, cbuf_len)
      /\ UNCHANGED <<fs, val, base, cbuf, sign_c, need_0x, zero>>
      /\ cbuf_len' = cbuf_len + 1 /\ v32' = v32 \div 2
      /\ pc' = (IF v32' = 0 THEN "alt" ELSE "binlen")
  BY DEF BinLen, ghosts, TextInv
<1>2. /\ FlagsKept /\ fs \in FormatSpec /\ cbuf_len \in Nat /\ v32 \in Nat /\ val \in Nat
  BY <1>1, AtConvert DEF Converting, IInv, TypeOK
<1>3. fs.conv_spec = "BINARY"
  BY <1>1, <1>2 DEF FlagsKept
<1> DEFINE adj == S.case_adjust
           k == cbuf_len
           n == val
           x == v32
           q == x \div 2
           c == DigitChar(x % 2, adj)
           m == Bits(n, k)
<1>4. k \in Nat /\ n \in Nat /\ x \in Nat /\ k + 1 \in Nat \ {0} /\ (k + 1) - 1 = k /\ k + 1 \in Int
  BY <1>2
<1>5. q = n \div 2 ^ (k + 1)
  <2>1. 2 ^ k \in Nat \ {0}
    BY <1>4, PowNat
  <2> DEFINE p == 2 ^ k
  <2>2. 2 ^ (k + 1) = 2 * p
    BY <1>4, PowDoubles
  <2>3. p \in Nat \ {0} /\ x = n \div p
    BY <1>1, <2>1
  <2> HIDE DEF p, x, n
  <2>4. (n \div p) \div 2 = n \div (2 * p)
    BY <1>4, <2>3, DividedTwice
  <2> QED BY <2>2, <2>3, <2>4 DEF x, n
<1>6. c \in Chars /\ q \in Nat /\ m \in Seq(Chars) /\ c = DigitChar(x % 2, 0)
  <2>1. x % 2 \in 0..1 /\ q \in Nat
    BY <1>4
  <2>2. x % 2 \in 0..15 /\ x % 2 < 10
    BY <2>1
  <2>3. c = DigitChar(x % 2, 0)
    BY <2>2, Zenon DEF DigitChar
  <2>4. m \in Seq(Chars)
    <3> HIDE DEF k, n
    <3>1. k \in Int
      BY <1>4
    <3> QED BY <1>4, <3>1, BitsType
  <2> QED BY <2>1, <2>2, <2>3, <2>4, DigitIsChar
<1>7. Bits(n, k + 1) = <<c>> \o m
  <2> HIDE DEF k, n
  <2>1. Bits(n, k + 1) = <<DigitChar((n \div 2 ^ ((k + 1) - 1)) % 2, 0)>> \o Bits(n, (k + 1) - 1)
    BY <1>4, BitsFirst
  <2>2. x = n \div 2 ^ k
    BY <1>1 DEF k, n
  <2>3. Bits(n, k + 1) = <<DigitChar(x % 2, 0)>> \o Bits(n, k)
    BY <1>4, <2>1, <2>2
  <2> QED BY <1>6, <2>3
<1>8. Figures' = Figures
  BY <1>1, SameValue
<1>9. q = 0 => Numeral(x, 2, adj) = <<c>>
  <2>1. q = 0 => x < 2 /\ x % 2 = x
    BY <1>4
  <2> QED BY <1>4, <2>1, NumeralRec
<1>10. q # 0 => Numeral(x, 2, adj) = Append(Numeral(q, 2, adj), c)
  <2>1. q # 0 => x >= 2
    BY <1>4
  <2> QED BY <1>4, <2>1, NumeralRec
<1>11. Numeral(q, 2, adj) \in Seq(Chars)
  BY <1>6, NumeralRec
<1>12. q = 0 => Figures' = Bits(n, k + 1)
  BY <1>1, <1>7, <1>8, <1>9
<1>13. q # 0 => Figures' = Numeral(q, 2, adj) \o Bits(n, k + 1)
  <2> SUFFICES ASSUME q # 0 PROVE Figures' = Numeral(q, 2, adj) \o Bits(n, k + 1)
    OBVIOUS
  <2> DEFINE d == Numeral(q, 2, adj)
  <2>1. Figures' = Append(d, c) \o m
    BY <1>1, <1>8, <1>10
  <2>2. d \in Seq(Chars)
    BY <1>11
  <2> HIDE DEF d, c, m, k, n, q
  <2>3. Append(d, c) = d \o <<c>> /\ <<c>> \in Seq(Chars)
    BY <1>6, <2>2
  <2>4. (d \o <<c>>) \o m = d \o (<<c>> \o m)
    BY <1>6, <2>2, <2>3, Grouped
  <2> QED BY <1>7, <2>1, <2>3, <2>4, Zenon DEF d
<1>14. ValueInv'
  BY <1>1, ValueKept
<1>15. S' = S /\ Precision' = Precision
  BY <1>1, SameJob
<1>16. DigitsInv'
  BY <1>1, <1>15, Zenon DEF DigitsInv
<1>17. v32' = q /\ cbuf_len' = k + 1 /\ val' = n
  BY <1>1
<1> HIDE DEF c, q, m, k, n, x
<1>18. CASE q = 0
  <2>1. pc' = "alt"
    BY <1>1, <1>17, <1>18
  <2>2. BodyText' = Bits(n, k + 1)
    BY <1>1, <1>3, <1>17 DEF BodyText
  <2> QED BY <1>1, <1>12, <1>14, <1>15, <1>16, <1>18, <2>1, <2>2 DEF TextInv
<1>19. CASE q # 0
  <2>1. pc' = "binlen"
    BY <1>1, <1>17, <1>19
  <2>2. Figures' = Numeral(v32', 2, S'.case_adjust) \o Bits(val', cbuf_len')
    BY <1>13, <1>15, <1>17, <1>19
  <2>3. v32' = val' \div 2 ^ cbuf_len'
    BY <1>5, <1>17
  <2> QED BY <1>1, <1>14, <1>15, <1>16, <2>1, <2>2, <2>3 DEF TextInv
<1> QED BY <1>18, <1>19

-----------------------------------------------------------------------------
(* The precision, the prefix and the padding of an integer.                  *)

\* The least number of digits.
Wanted == IF S.conv_spec = "POINTER" /\ UsePrecision THEN PtrDigits ELSE Precision

\* What the locals of 1929-2000 come to, where '0' is no flag and where it is.
LEMMA PadWanted ==
  ASSUME S \in Specs, PrecisionKnown, DefaultKnown, fs \in FormatSpec, NEW c \in Nat,
         Precision \in Int, Precision >= -1, Precision >= 0 => UsePrecision,
         S.conv_spec = "POINTER" => Precision = -1, S.conv_spec \in IntConvs \cup {"POINTER"}
  PROVE  /\ Wanted \in Int
         /\ (IF UsePrecision THEN MaxOf(0, fs.prec - c) ELSE 0) = MaxOf(0, Wanted - c)
<1>1. PtrDigits \in Nat /\ fs.prec \in Int
  BY SizesAssumption DEF FormatSpec
<1>2. S.conv_spec \notin FloatConvs
  BY DEF FloatConvs, IntConvs
<1>3. Wanted \in Int
  BY <1>1 DEF Wanted
<1>4. CASE UsePrecision /\ Precision >= 0
  BY <1>1, <1>4 DEF PrecisionKnown, Wanted, MaxOf
<1>5. CASE UsePrecision /\ Precision < 0
  BY <1>1, <1>2, <1>5 DEF DefaultKnown, Wanted, MaxOf
<1>6. CASE ~UsePrecision
  BY <1>6 DEF Wanted, MaxOf
<1> QED BY <1>3, <1>4, <1>5, <1>6

LEMMA IntegerBodies ==
  ASSUME S.conv_spec \in IntConvs \cup {"POINTER"}
  PROVE  [pre |-> Prefix, body |-> IntegerDigits,
          zeros |-> Precision < 0 \/ (S.conv_spec = "BINARY" /\ IntegerDigits # <<>>)] \in Bodies
<1>1. /\ S.conv_spec \notin {"STRING", "CHAR", "PERCENT", "WRITEBACK"}
  BY DEF IntConvs
<1>2. Bodies = {[pre |-> Prefix, body |-> IntegerDigits,
                 zeros |-> Precision < 0 \/ (S.conv_spec = "BINARY" /\ IntegerDigits # <<>>)]}
  BY <1>1, Zenon DEF Bodies
<1> QED BY <1>2

\* The sign is the prefix where no mark is.
LEMMA IntegerPrefix ==
  ASSUME ValueInv, val \in Nat, IntegerArg \in Int, S \in FormatSpec
  PROVE  LET hex == IF S.conv_spec = "BINARY" THEN (IF S.case_adjust = 0 THEN "B" ELSE "b")
                    ELSE (IF S.case_adjust = 0 THEN "X" ELSE "x")
             marked == S.conv_spec \in {"HEX_INT", "BINARY"} /\ S.alt_form /\ val # 0
         IN /\ Prefix = (IF marked THEN <<"0", hex>> ELSE Signs)
            /\ marked => Signs = <<>>
            /\ Signs \in Seq(Chars)
<1>1. val # 0 <=> IntegerArg # 0
  BY DEF ValueInv, AbsOf
<1>2. S.conv_spec \notin FloatConvs
  BY DEF ValueInv, FloatConvs, IntConvs
<1>3. S.conv_spec \in {"HEX_INT", "BINARY"} => S.conv_spec # "SIGNED_INT"
  OBVIOUS
<1>4. Signs \in Seq(Chars)
  <2>1. S.prepend \in Chars /\ "-" \in Chars
    BY DataAssumption DEF FormatSpec
  <2> QED BY <2>1, One, EmptySeq DEF Signs
<1>5. (CASE S.conv_spec = "SIGNED_INT" /\ IntegerArg < 0 -> <<"-">>
         [] S.conv_spec = "SIGNED_INT" /\ ~(IntegerArg < 0) /\ S.prepend # NUL -> <<S.prepend>>
         [] OTHER -> <<>>) = Signs
  BY DEF Signs
<1>6. Prefix = LET hex == IF S.conv_spec = "BINARY" THEN (IF S.case_adjust = 0 THEN "B" ELSE "b")
                          ELSE (IF S.case_adjust = 0 THEN "X" ELSE "x")
                   marked == S.conv_spec \in {"HEX_INT", "BINARY"} /\ S.alt_form /\ IntegerArg # 0
               IN IF marked THEN <<"0", hex>> ELSE Signs
  BY <1>2, <1>5 DEF Prefix
<1>7. S.conv_spec # "SIGNED_INT" => Signs = <<>>
  BY DEF Signs
<1> QED BY <1>1, <1>3, <1>4, <1>6, <1>7

\* The digits, where there are some and where there are none.
LEMMA DigitsAsked ==
  ASSUME ValueInv
  PROVE  /\ ~(val = 0 /\ Wanted = 0) =>
              IntegerDigits =
                LET z == Times("0", MaxOf(0, Wanted - Len(Figures))) \o Figures
                IN IF S.conv_spec = "OCTAL" /\ S.alt_form /\ (z = <<>> \/ Head(z) # "0")
                   THEN <<"0">> \o z ELSE z
         /\ val = 0 /\ Wanted = 0 =>
              IntegerDigits =
                LET z == Times("0", MaxOf(0, 0 - Len(<<>>))) \o <<>>
                IN IF S.conv_spec = "OCTAL" /\ S.alt_form /\ (z = <<>> \/ Head(z) # "0")
                   THEN <<"0">> \o z ELSE z
<1>1. AbsOf(IntegerArg) = val
  BY DEF ValueInv
<1>2. IntegerDigits =
        LET d == IF val = 0 /\ Wanted = 0 THEN <<>> ELSE Figures
            z == Times("0", MaxOf(0, Wanted - Len(d))) \o d
        IN IF S.conv_spec = "OCTAL" /\ S.alt_form /\ (z = <<>> \/ Head(z) # "0")
           THEN <<"0">> \o z ELSE z
  BY <1>1, Zenon DEF IntegerDigits, Wanted, Figures
<1>3. CASE val = 0 /\ Wanted = 0
  BY <1>2, <1>3, Zenon
<1>4. CASE ~(val = 0 /\ Wanted = 0)
  BY <1>2, <1>4, Zenon
<1> QED BY <1>3, <1>4

\* 1929-1937: nothing but the sign, or the zero that '#' gives 'o'.
LEMMA BlankText ==
  ASSUME IInv, IInv', SpecInv, TextInv, Integer, BlankResult
  PROVE  TextInv'
<1>1. /\ pc = "integer" /\ pc' = "layout" /\ job' = job /\ ValueInv
      /\ cbuf = <<>> /\ cbuf_len = 0 /\ i = 0
      /\ UNCHANGED <<cbuf, cbuf_len, sign_c, need_0x, val, i>>
      /\ fs' = (IF UseAltForm /\ base = 8 /\ fs.alt_form THEN [fs EXCEPT !.prec = 1] ELSE fs)
      /\ zero' = (UsePrecision /\ UseFieldWidth /\ val = 0)
      /\ UsePrecision /\ val = 0 /\ fs.prec_opt # NONE /\ fs.prec = 0
  BY DEF Integer, BlankResult, ghosts, padVars, TextInv, IInv, ShapeInv
<1>2. /\ job.spec \in Specs /\ job.args \in ArgsOf[job.spec] /\ S \in Specs /\ S \in FormatSpec
      /\ FlagsKept /\ WidthKnown /\ PrecisionKnown /\ ZerosKnown
      /\ Precision \in Int /\ fs \in FormatSpec /\ val \in Nat
  BY <1>1, AtConvert DEF Converting, IInv, TypeOK
<1>3. Precision = 0
  BY <1>1, <1>2 DEF PrecisionKnown
<1>4. S.conv_spec \in IntConvs /\ S.conv_spec # "POINTER" /\ fs.conv_spec = S.conv_spec
      /\ fs.alt_form = S.alt_form /\ S.conv_spec \in IntConvs \cup {"POINTER"}
  <2>1. S.conv_spec = "POINTER" => S.prec_opt = NONE
    BY <1>2, DefinedAssumption
  <2>2. S.conv_spec # "POINTER"
    BY <1>2, <1>3, <2>1, Precise
  <2> QED BY <1>1, <1>2, <2>2 DEF ValueInv, FlagsKept
<1>5. Wanted = 0
  BY <1>3, <1>4 DEF Wanted
<1> DEFINE oct == S.conv_spec = "OCTAL" /\ S.alt_form
<1>6. (UseAltForm /\ base = 8 /\ fs.alt_form) <=> oct
  <2>1. S.alt_form => UseAltForm
    BY <1>2, FormatAssumption
  <2> QED BY <1>1, <1>4, <2>1, BaseIs
<1>7. IntegerDigits = IF oct THEN <<"0">> ELSE <<>>
  <2>1. Len(<<>>) = 0 /\ MaxOf(0, 0 - 0) = 0
    BY DEF MaxOf
  <2>2. Times("0", 0) = <<>>
    BY DEF Times
  <2>3. <<>> \o <<>> = <<>> /\ <<"0">> \o <<>> = <<"0">>
    <3>1. "0" \in Chars
      BY DataAssumption
    <3> QED BY <3>1, One, Nil, EmptySeq
  <2>4. Times("0", MaxOf(0, 0 - Len(<<>>))) \o <<>> = <<>>
    BY <2>1, <2>2, <2>3
  <2>5. IntegerDigits = LET z == <<>> IN IF oct /\ (z = <<>> \/ Head(z) # "0")
                                         THEN <<"0">> \o z ELSE z
    BY <1>1, <1>5, <2>4, DigitsAsked
  <2> QED BY <2>3, <2>5
<1>8. Prefix = Signs
  <2>1. IntegerArg \in Int
    BY <1>2, <1>4, IntegerArgValue
  <2> QED BY <1>1, <1>2, <2>1, IntegerPrefix
<1>9. /\ fs'.conv_spec = fs.conv_spec /\ fs'.left_justified = fs.left_justified
      /\ fs'.leading_zero_pad = fs.leading_zero_pad /\ fs'.prec_opt = fs.prec_opt
      /\ fs'.prec = IF oct THEN 1 ELSE 0
  BY <1>1, <1>2, <1>6 DEF FormatSpec
<1>10. PrecPad' = IF oct THEN 1 ELSE 0
  <2>1. fs'.conv_spec \notin FloatConvs \cup {"STRING"}
    BY <1>4, <1>9 DEF FloatConvs, IntConvs
  <2> QED BY <1>1, <1>9, <2>1 DEF PrecPad, MaxOf
<1>11. BodyText' = <<>>
  <2>1. Bits(val, 0) = <<>> /\ Mirror(<<>>, 0) = <<>>
    BY DEF Bits, Mirror, MaxOf
  <2>2. fs'.conv_spec # "STRING"
    BY <1>4, <1>9 DEF IntConvs
  <2> QED BY <1>1, <2>1, <2>2 DEF BodyText
<1>12. SignText' = Signs /\ PrefixText' = <<>>
  BY <1>1 DEF ValueInv, SignText, PrefixText
<1>13. UseFieldWidth =>
         (PadChar' = "0" <=> fs.leading_zero_pad /\ ~fs.left_justified /\ oct)
  <2>1. UseFieldWidth => zero'
    BY <1>1, Zenon
  <2> HIDE DEF oct
  <2>2. fs'.prec = 0 <=> ~oct
    BY <1>9
  <2>3. PadChar' = "0" <=> /\ fs'.leading_zero_pad /\ ~fs'.left_justified
                          /\ ~(UsePrecision /\ fs'.prec_opt # NONE /\ fs'.prec = 0 /\ zero')
    BY DEF PadChar
  <2> QED BY <1>1, <1>9, <2>1, <2>2, <2>3
<1>14. UseFieldWidth => PadChar' # "0"
  <2>1. S.conv_spec # "BINARY" /\ UseFieldWidth => ~fs.leading_zero_pad
    BY <1>1, <1>2, <1>3, <1>4 DEF ZerosKnown
  <2>2. S.conv_spec = "BINARY" => ~oct
    OBVIOUS
  <2> QED BY <1>13, <2>1, <2>2
<1> DEFINE z == Precision < 0 \/ (S.conv_spec = "BINARY" /\ IntegerDigits # <<>>)
           b == [pre |-> Prefix, body |-> IntegerDigits, zeros |-> z]
<1>15. b \in Bodies
  BY <1>4, IntegerBodies
<1>16. ~z
  BY <1>3, <1>7
<1>17. SignText' \o PrefixText' = Prefix
  <2>1. Signs \in Seq(Chars)
    <3>1. IntegerArg \in Int
      BY <1>2, <1>4, IntegerArgValue
    <3> QED BY <1>1, <1>2, <3>1, IntegerPrefix
  <2> QED BY <1>8, <1>12, <2>1, Nil
<1>18. Times("0", PrecPad') \o BodyText' = IntegerDigits
  <2>1. "0" \in Chars
    BY DataAssumption
  <2>2. Times("0", 0) = <<>> /\ Times("0", 1) = <<"0">>
    BY DEF Times
  <2>3. <<>> \o <<>> = <<>> /\ <<"0">> \o <<>> = <<"0">>
    BY <2>1, One, Nil, EmptySeq
  <2> QED BY <1>7, <1>10, <1>11, <2>2, <2>3
<1>19. /\ b.pre = Prefix /\ b.body = IntegerDigits /\ b.zeros = z
  OBVIOUS
<1> HIDE DEF b, z, oct
<1>20. UseFieldWidth => (PadChar' = "0" <=> ~LeftJustified /\ S.leading_zero_pad /\ b.zeros)
  BY <1>14, <1>16, <1>19
<1> QED BY <1>1, <1>15, <1>17, <1>18, <1>19, <1>20, ToLayout

\* 1939-1941: on to the digits.
LEMMA TextOfInteger ==
  ASSUME IInv, IInv', SpecInv, TextInv, Integer
  PROVE  TextInv'
<1>1. CASE BlankResult
  BY <1>1, BlankText
<1>2. CASE ~BlankResult
  <2>1. /\ pc = "integer" /\ job' = job /\ ValueInv /\ cbuf = <<>> /\ cbuf_len = 0
        /\ UNCHANGED <<fs, cbuf, cbuf_len, sign_c, need_0x, val, base>>
        /\ zero' = (UsePrecision /\ UseFieldWidth /\ val = 0) /\ v32' = val
        /\ pc' = (IF fs.conv_spec = "BINARY" THEN "binlen" ELSE "utoa")
    BY <1>2 DEF Integer, ghosts, TextInv
  <2>2. /\ FlagsKept /\ PrecisionKnown /\ Precision \in Int /\ (Precision >= 0 => UsePrecision)
        /\ val \in Nat
    BY <2>1, AtConvert DEF Converting, IInv, TypeOK
  <2>3. ~(val = 0 /\ Precision = 0)
    <3>1. Precision = 0 => UsePrecision /\ fs.prec_opt # NONE /\ fs.prec = 0
      BY <2>2 DEF PrecisionKnown
    <3> QED BY <1>2, <3>1 DEF BlankResult
  <2>4. ValueInv'
    BY <2>1, ValueKept
  <2>5. S' = S /\ Precision' = Precision /\ BaseOf' = BaseOf
    BY <2>1, SameJob
  <2>6. DigitsInv'
    BY <2>1, <2>3, <2>5 DEF DigitsInv
  <2>7. Figures' = Figures /\ Figures \in Seq(Chars)
    BY <2>1, <2>2, SameValue, BaseIs, NumeralRec DEF Figures
  <2>8. Figures \o <<>> = Figures
    BY <2>7, Nil
  <2>9. CASE fs.conv_spec = "BINARY"
    <3>1. pc' = "binlen" /\ S.conv_spec = "BINARY" /\ BaseOf = 2
      BY <2>1, <2>2, <2>9, BaseIs DEF FlagsKept
    <3>2. 2 ^ 0 = 1 /\ val \div 1 = val
      BY <2>2
    <3>3. Bits(val, 0) = <<>>
      BY DEF Bits, MaxOf
    <3>4. v32' = val' \div 2 ^ cbuf_len'
      BY <2>1, <3>2
    <3>5. Figures' = Numeral(v32', 2, S'.case_adjust) \o Bits(val', cbuf_len')
      BY <2>1, <2>5, <2>7, <2>8, <3>1, <3>3 DEF Figures
    <3> QED BY <2>1, <2>4, <2>5, <2>6, <3>1, <3>4, <3>5 DEF TextInv
  <2>10. CASE fs.conv_spec # "BINARY"
    <3>1. pc' = "utoa" /\ S.conv_spec # "BINARY"
      BY <2>1, <2>2, <2>10 DEF FlagsKept
    <3>2. Mirror(<<>>, 0) = <<>>
      BY DEF Mirror, MaxOf
    <3>3. Figures' = Numeral(v32', BaseOf', S'.case_adjust) \o Mirror(cbuf', cbuf_len')
      BY <2>1, <2>5, <2>7, <2>8, <3>2 DEF Figures
    <3>4. cbuf_len' = Len(cbuf')
      BY <2>1
    <3> QED BY <2>1, <2>4, <2>5, <2>6, <3>1, <3>3, <3>4 DEF TextInv
  <2> QED BY <2>9, <2>10
<1> QED BY <1>1, <1>2

\* A numeral has a digit, and starts with a zero only if it is that of zero.
LEMMA FirstDigit ==
  ASSUME NEW n \in Nat, NEW b \in {2, 8, 10, 16}, NEW adj
  PROVE  Len(Numeral(n, b, adj)) \in Nat \ {0}
<1>1. CASE n < b
  <2>1. Numeral(n, b, adj) = <<DigitChar(n, adj)>>
    BY <1>1, NumeralRec
  <2>2. Len(<<DigitChar(n, adj)>>) = 1
    OBVIOUS
  <2> QED BY <2>1, <2>2
<1>2. CASE n >= b
  <2>1. n \div b \in Nat /\ n % b \in 0..15
    BY <1>2
  <2>2. Numeral(n \div b, b, adj) \in Seq(Chars) /\ DigitChar(n % b, adj) \in Chars
    BY <2>1, NumeralRec, DigitIsChar
  <2>3. Numeral(n, b, adj) = Append(Numeral(n \div b, b, adj), DigitChar(n % b, adj))
    BY <1>2, NumeralRec
  <2> QED BY <2>2, <2>3, AppendProperties
<1> QED BY <1>1, <1>2

LEMMA TopDigit ==
  ASSUME NEW adj
  PROVE  \A n \in Nat : Numeral(n, 8, adj)[1] = "0" <=> n = 0
<1> DEFINE G == {n \in Nat : Numeral(n, 8, adj)[1] = "0" <=> n = 0}
<1>1. \A d \in 0..7 : Decimals[d + 1] = "0" <=> d = 0
  <2> SUFFICES ASSUME NEW d \in 0..7 PROVE Decimals[d + 1] = "0" <=> d = 0
    OBVIOUS
  <2>1. d = 0 \/ d = 1 \/ d = 2 \/ d = 3 \/ d = 4 \/ d = 5 \/ d = 6 \/ d = 7
    OBVIOUS
  <2> QED BY <2>1 DEF Decimals
<1>2. \A n \in Nat : 0..(n - 1) \subseteq G => n \in G
  <2> SUFFICES ASSUME NEW n \in Nat, 0..(n - 1) \subseteq G
               PROVE  Numeral(n, 8, adj)[1] = "0" <=> n = 0
    OBVIOUS
  <2>1. CASE n < 8
    <3>1. Numeral(n, 8, adj) = <<DigitChar(n, adj)>>
      BY <2>1, NumeralRec
    <3>2. n < 10 /\ n \in 0..7
      BY <2>1
    <3>3. DigitChar(n, adj) = Decimals[n + 1]
      BY <3>2, Zenon DEF DigitChar
    <3> QED BY <1>1, <3>1, <3>2, <3>3
  <2>2. CASE n >= 8
    <3> DEFINE q == n \div 8
               s == Numeral(q, 8, adj)
               c == DigitChar(n % 8, adj)
    <3>1. q \in 0..(n - 1) /\ q # 0 /\ q \in Nat /\ n % 8 \in 0..15
      BY <2>2
    <3>2. s \in Seq(Chars) /\ c \in Chars /\ Len(s) \in Nat \ {0}
      BY <3>1, NumeralRec, DigitIsChar, FirstDigit
    <3>3. Numeral(n, 8, adj) = Append(s, c)
      BY <2>2, NumeralRec
    <3>4. ~(s[1] = "0")
      BY <2>2, <3>1
    <3> HIDE DEF s, c
    <3>5. Append(s, c)[1] = s[1]
      BY <3>2, AppendProperties
    <3> QED BY <2>2, <3>3, <3>4, <3>5
  <2> QED BY <2>1, <2>2
<1>3. Nat \subseteq G
  <2> HIDE DEF G
  <2> QED BY <1>2, StrongInduction
<1> QED BY <1>3

LEMMA LeftOver == ASSUME NEW x \in Int, NEW y \in Int PROVE MaxOf(0, x - y) \in Nat
  BY DEF MaxOf

\* The zeros of a precision and the '0' of '#' in front of an octal numeral.
LEMMA OctalText ==
  ASSUME NEW s \in Seq(Chars), Len(s) \in Nat \ {0}, s[1] # "0", NEW p \in Int
  PROVE  LET z == Times("0", MaxOf(0, p - Len(s))) \o s
         IN Times("0", MaxOf(0, p - (Len(s) + 1))) \o (<<"0">> \o s)
              = IF z = <<>> \/ Head(z) # "0" THEN <<"0">> \o z ELSE z
<1> DEFINE k == p - Len(s)
           z == Times("0", MaxOf(0, k)) \o s
<1>1. "0" \in Chars /\ <<"0">> \in Seq(Chars) /\ k \in Int /\ p - (Len(s) + 1) = k - 1
      /\ <<"0">> \o s \in Seq(Chars)
  <2>1. "0" \in Chars
    BY DataAssumption
  <2>2. <<"0">> \in Seq(Chars)
    BY <2>1, One
  <2> QED BY <2>1, <2>2, Joined
<1> HIDE DEF k
<1>2. CASE k <= 0
  <2>1. MaxOf(0, k) = 0 /\ MaxOf(0, k - 1) = 0
    BY <1>1, <1>2 DEF MaxOf
  <2>2. Times("0", 0) = <<>>
    BY <1>1, TimesType
  <2>3. z = s
    BY <2>1, <2>2, Nil
  <2>4. Times("0", MaxOf(0, k - 1)) \o (<<"0">> \o s) = <<"0">> \o s
    BY <1>1, <2>1, <2>2, Nil
  <2>5. Head(s) # "0"
    OBVIOUS
  <2> HIDE DEF z
  <2> QED BY <1>1, <2>3, <2>4, <2>5, Zenon DEF z, k
<1>3. CASE k > 0
  <2> DEFINE t == Times("0", k - 1)
  <2>1. MaxOf(0, k) = k /\ MaxOf(0, k - 1) = k - 1 /\ k - 1 \in Nat /\ k \in Nat \ {0}
    BY <1>1, <1>3 DEF MaxOf
  <2>2. t \in Seq(Chars)
    <3>1. k - 1 \in Int
      BY <2>1
    <3> QED BY <1>1, <3>1, TimesType
  <2>3. Times("0", k) = t \o <<"0">>
    <3>1. (k - 1) + 1 = k /\ 1 \in Nat
      BY <1>1
    <3>2. Times("0", (k - 1) + 1) = Times("0", k - 1) \o Times("0", 1)
      BY <1>1, <2>1, <3>1, TimesSum
    <3>3. Times("0", 1) = <<"0">>
      BY DEF Times
    <3> QED BY <3>1, <3>2, <3>3
  <2>4. Times("0", k) = <<"0">> \o t
    BY <1>1, <2>1, TimesFirst
  <2> HIDE DEF t
  <2>5. t \o (<<"0">> \o s) = (t \o <<"0">>) \o s
    BY <1>1, <2>2, Grouped
  <2>6. Times("0", MaxOf(0, k - 1)) \o (<<"0">> \o s) = z
    BY <2>1, <2>3, <2>5, Zenon DEF t
  <2>7. z = <<"0">> \o (t \o s)
    <3>1. (<<"0">> \o t) \o s = <<"0">> \o (t \o s)
      BY <1>1, <2>2, Grouped
    <3> QED BY <2>1, <2>4, <3>1, Zenon
  <2> DEFINE r == t \o s
  <2>8. r \in Seq(Chars)
    BY <2>2, Joined
  <2> HIDE DEF r, z
  <2>9. z # <<>> /\ Head(z) = "0"
    <3>1. z = <<"0">> \o r
      BY <2>7 DEF r
    <3> QED BY <1>1, <2>8, <3>1
  <2>10. (IF z = <<>> \/ Head(z) # "0" THEN <<"0">> \o z ELSE z) = z
    BY <2>9, Zenon
  <2>11. Times("0", MaxOf(0, p - (Len(s) + 1))) \o (<<"0">> \o s) = z
    BY <1>1, <2>6, Zenon
  <2>12. Times("0", MaxOf(0, p - (Len(s) + 1))) \o (<<"0">> \o s)
           = IF z = <<>> \/ Head(z) # "0" THEN <<"0">> \o z ELSE z
    BY <2>10, <2>11, Zenon
  <2> QED BY <2>12, Zenon DEF z, k
<1>4. k <= 0 \/ k > 0
  BY <1>1
<1> QED BY <1>2, <1>3, <1>4, Zenon

\* 1943-1961: the digits are there; '#' marks them.
LEMMA TextOfAlt ==
  ASSUME IInv, IInv', SpecInv, TextInv, AltForm
  PROVE  TextInv'
<1>1. /\ pc = "alt" /\ pc' = "layout" /\ job' = job /\ ValueInv /\ DigitsInv
      /\ Figures = BodyText /\ (S.conv_spec # "BINARY" => cbuf_len = Len(cbuf))
      /\ UNCHANGED <<fs, sign_c, val, base, zero, i>> /\ i = 0
  BY DEF AltForm, ghosts, padVars, numVars, TextInv, IInv, ShapeInv
<1>2. /\ job.spec \in Specs /\ job.args \in ArgsOf[job.spec] /\ S \in Specs /\ S \in FormatSpec
      /\ FlagsKept /\ WidthKnown /\ PrecisionKnown /\ DefaultKnown /\ ZerosKnown
      /\ Precision \in Int /\ Precision >= -1 /\ (Precision >= 0 => UsePrecision)
      /\ fs \in FormatSpec /\ val \in Nat /\ cbuf \in Seq(Chars) /\ cbuf_len \in Nat
  BY <1>1, AtConvert DEF Converting, IInv, TypeOK
<1>3. /\ S.conv_spec \in IntConvs \cup {"POINTER"} /\ fs.conv_spec = S.conv_spec
      /\ fs.alt_form = S.alt_form /\ fs.case_adjust = S.case_adjust
      /\ S.conv_spec = "POINTER" => ~S.alt_form /\ Precision = -1
      /\ S.alt_form => UseAltForm
      /\ BaseOf \in {2, 8, 10, 16} /\ IntegerArg \in Int
  <2>1. S.conv_spec = "POINTER" => S.prec_opt = NONE /\ ~S.alt_form
    BY <1>2, DefinedAssumption
  <2>2. S.conv_spec \in IntConvs \cup {"POINTER"}
    BY <1>1 DEF ValueInv
  <2> QED BY <1>1, <1>2, <2>1, <2>2, Precise, FormatAssumption, BaseIs, IntegerArgValue DEF FlagsKept
<1> DEFINE d == Figures
           n == Len(d)
           oct == S.conv_spec = "OCTAL" /\ S.alt_form /\ val # 0
           marked == S.conv_spec \in {"HEX_INT", "BINARY"} /\ S.alt_form /\ val # 0
           hex == IF S.conv_spec = "BINARY" THEN (IF S.case_adjust = 0 THEN "B" ELSE "b")
                  ELSE (IF S.case_adjust = 0 THEN "X" ELSE "x")
<1>4. d \in Seq(Chars) /\ n \in Nat \ {0}
  BY <1>2, <1>3, NumeralRec, FirstDigit DEF Figures
<1>5. cbuf_len = n
  <2>1. CASE S.conv_spec = "BINARY"
    <3>1. d = Bits(val, cbuf_len) /\ cbuf_len \in Int
      BY <1>1, <1>2, <1>3, <2>1 DEF BodyText
    <3>2. Len(Bits(val, cbuf_len)) = MaxOf(0, cbuf_len)
      BY <1>2, <3>1, BitsType
    <3> QED BY <1>2, <3>1, <3>2 DEF MaxOf
  <2>2. CASE S.conv_spec # "BINARY"
    <3>1. d = Mirror(cbuf, cbuf_len) /\ cbuf_len \in Int /\ cbuf_len <= Len(cbuf)
      BY <1>1, <1>2, <1>3, <2>2 DEF BodyText, IntConvs
    <3>2. Len(Mirror(cbuf, cbuf_len)) = MaxOf(0, cbuf_len)
      BY <1>2, <3>1, MirrorType
    <3> QED BY <1>2, <3>1, <3>2 DEF MaxOf
  <2> QED BY <2>1, <2>2
<1>6. (UseAltForm /\ val # 0 /\ fs.alt_form /\ base = 8) <=> oct
  BY <1>1, <1>3, BaseIs
<1>7. /\ BodyText' = IF oct THEN <<"0">> \o d ELSE d
      /\ cbuf_len' = IF oct THEN n + 1 ELSE n
  <2>1. fs'.conv_spec = S.conv_spec /\ S.conv_spec # "STRING"
    BY <1>1, <1>3 DEF IntConvs
  <2>2. CASE oct
    <3>1. cbuf' = Append(cbuf, "0") /\ cbuf_len' = cbuf_len + 1 /\ S.conv_spec = "OCTAL"
      BY <1>6, <2>2 DEF AltForm
    <3>2. Mirror(Append(cbuf, "0"), Len(cbuf) + 1) = <<"0">> \o Mirror(cbuf, Len(cbuf))
      <4>1. "0" \in Chars
        BY DataAssumption
      <4> QED BY <1>2, <4>1, MirrorAppend
    <3>3. cbuf_len = Len(cbuf) /\ d = Mirror(cbuf, Len(cbuf))
      BY <1>1, <1>3, <3>1 DEF BodyText
    <3>4. BodyText' = Mirror(cbuf', cbuf_len')
      BY <2>1, <3>1, Zenon DEF BodyText
    <3> QED BY <1>5, <2>2, <3>1, <3>2, <3>3, <3>4
  <2>3. CASE ~oct
    <3>1. cbuf' = cbuf /\ cbuf_len' = cbuf_len
      BY <1>6, <2>3 DEF AltForm
    <3>2. BodyText' = BodyText
      BY <1>1, <3>1, Zenon DEF BodyText
    <3> QED BY <1>1, <1>5, <2>3, <3>1, <3>2
  <2> QED BY <2>2, <2>3
<1>8. PrecPad' = MaxOf(0, Wanted - cbuf_len') /\ Wanted \in Int /\ cbuf_len' \in Nat
  <2>1. cbuf_len' \in Nat
    BY <1>4, <1>7
  <2>2. fs'.conv_spec \notin FloatConvs \cup {"STRING"}
    BY <1>1, <1>3 DEF FloatConvs, IntConvs
  <2>3. PrecPad' = IF UsePrecision THEN MaxOf(0, fs.prec - cbuf_len') ELSE 0
    BY <1>1, <2>2 DEF PrecPad
  <2> DEFINE c == cbuf_len'
  <2>4. c \in Nat
    BY <2>1
  <2> HIDE DEF c
  <2>5. (IF UsePrecision THEN MaxOf(0, fs.prec - c) ELSE 0) = MaxOf(0, Wanted - c) /\ Wanted \in Int
    BY <1>2, <1>3, <2>4, PadWanted
  <2> QED BY <2>1, <2>3, <2>5 DEF c
<1>9. ~(val = 0 /\ Wanted = 0)
  BY <1>1, <1>3, SizesAssumption DEF DigitsInv, Wanted
<1> DEFINE zs == Times("0", MaxOf(0, Wanted - n)) \o d
<1>10. IntegerDigits = IF S.conv_spec = "OCTAL" /\ S.alt_form /\ (zs = <<>> \/ Head(zs) # "0")
                       THEN <<"0">> \o zs ELSE zs
  BY <1>1, <1>9, DigitsAsked
<1> HIDE DEF oct, marked, hex
<1>11. Times("0", PrecPad') \o BodyText' = IntegerDigits
  <2>1. CASE oct
    <3>1. S.conv_spec = "OCTAL" /\ S.alt_form /\ val # 0 /\ BaseOf = 8
      BY <2>1 DEF oct, BaseOf
    <3>2. d[1] # "0"
      BY <1>2, <3>1, TopDigit DEF Figures
    <3>3. PrecPad' = MaxOf(0, Wanted - (n + 1)) /\ BodyText' = <<"0">> \o d
      BY <1>7, <1>8, <2>1
    <3> HIDE DEF d
    <3>4. Times("0", MaxOf(0, Wanted - (Len(d) + 1))) \o (<<"0">> \o d)
            = IF zs = <<>> \/ Head(zs) # "0" THEN <<"0">> \o zs ELSE zs
      BY <1>4, <1>8, <3>2, OctalText
    <3> QED BY <1>10, <3>1, <3>3, <3>4, Zenon
  <2>2. CASE ~oct
    <3>1. PrecPad' = MaxOf(0, Wanted - n) /\ BodyText' = d
      BY <1>7, <1>8, <2>2
    <3>2. ~(S.conv_spec = "OCTAL" /\ S.alt_form /\ (zs = <<>> \/ Head(zs) # "0"))
      <4> SUFFICES ASSUME S.conv_spec = "OCTAL", S.alt_form PROVE zs # <<>> /\ Head(zs) = "0"
        OBVIOUS
      <4>1. val = 0 /\ BaseOf = 8
        BY <2>2 DEF oct, BaseOf
      <4>2. d = <<"0">>
        <5>1. d = <<DigitChar(0, S.case_adjust)>>
          BY <4>1, NumeralRec DEF Figures
        <5>2. DigitChar(0, S.case_adjust) = "0"
          BY DEF DigitChar, Decimals
        <5> QED BY <5>1, <5>2
      <4> DEFINE k == MaxOf(0, Wanted - n)
      <4>3. k \in Nat
        <5>1. n \in Int /\ Wanted \in Int
          BY <1>4, <1>8
        <5> HIDE DEF n
        <5> QED BY <5>1, LeftOver
      <4>4. "0" \in Chars
        BY DataAssumption
      <4> HIDE DEF k, d
      <4>5. CASE k = 0
        <5>1. Times("0", 0) = <<>>
          BY DEF Times
        <5>2. zs = d
          BY <1>4, <4>5, <5>1, Nil DEF k
        <5> QED BY <4>2, <5>2
      <4>6. CASE k # 0
        <5> DEFINE r == Times("0", k - 1)
        <5>1. k \in Nat \ {0} /\ k - 1 \in Int
          BY <4>3, <4>6
        <5>2. r \in Seq(Chars) /\ Times("0", k) = <<"0">> \o r
          BY <4>4, <5>1, TimesFirst, TimesType
        <5> HIDE DEF r
        <5>3. zs = <<"0">> \o (r \o d)
          <6>1. (<<"0">> \o r) \o d = <<"0">> \o (r \o d)
            BY <1>4, <4>4, <5>2, ConsText
          <6> QED BY <5>2, <6>1, Zenon DEF k
        <5> DEFINE w == r \o d
        <5>4. w \in Seq(Chars)
          BY <1>4, <5>2, Joined
        <5> HIDE DEF w, zs
        <5>5. zs = <<"0">> \o w
          BY <5>3 DEF w
        <5>6. <<"0">> \in Seq(Chars)
          BY <4>4, One
        <5> QED BY <5>4, <5>5, <5>6
      <4> QED BY <4>5, <4>6
    <3> QED BY <1>10, <3>1, <3>2, Zenon
  <2> QED BY <2>1, <2>2
<1>12. need_0x' = IF marked THEN hex ELSE NUL
  <2>1. (UseAltForm /\ val # 0 /\ fs.alt_form /\ base = 16)
          <=> marked /\ S.conv_spec = "HEX_INT"
    BY <1>1, <1>3, BaseIs DEF marked
  <2>2. (UseAltForm /\ val # 0 /\ fs.alt_form /\ base # 16 /\ fs.conv_spec = "BINARY")
          <=> marked /\ S.conv_spec = "BINARY"
    BY <1>1, <1>3, BaseIs DEF marked
  <2>3. /\ Letter("X", "x") = (IF S.case_adjust = 0 THEN "X" ELSE "x")
        /\ Letter("B", "b") = (IF S.case_adjust = 0 THEN "B" ELSE "b")
    BY <1>3 DEF Letter
  <2>4. need_0x = NUL
    BY <1>1 DEF ValueInv
  <2>5. CASE marked /\ S.conv_spec = "HEX_INT"
    BY <2>1, <2>3, <2>5 DEF AltForm, hex
  <2>6. CASE marked /\ S.conv_spec = "BINARY"
    BY <2>1, <2>2, <2>3, <2>6 DEF AltForm, hex
  <2>7. CASE ~marked
    BY <2>1, <2>2, <2>4, <2>7 DEF AltForm
  <2>8. marked => S.conv_spec \in {"HEX_INT", "BINARY"}
    BY DEF marked
  <2> QED BY <2>5, <2>6, <2>7, <2>8
<1>13. SignText' \o PrefixText' = Prefix
  <2>1. /\ Prefix = (IF marked THEN <<"0", hex>> ELSE Signs)
        /\ marked => Signs = <<>>
        /\ Signs \in Seq(Chars)
    BY <1>1, <1>2, <1>3, IntegerPrefix DEF marked, hex
  <2>2. SignText' = Signs
    BY <1>1 DEF SignText, ValueInv
  <2>3. hex \in {"B", "b", "X", "x"}
    BY DEF hex
  <2>4. PrefixText' = IF marked THEN <<"0", hex>> ELSE <<>>
    BY <1>1, <1>12, <2>3 DEF PrefixText
  <2>5. <<"0", hex>> \in Seq(Chars)
    BY <2>3, DataAssumption
  <2>6. CASE marked
    BY <2>1, <2>2, <2>4, <2>5, <2>6, Nil
  <2>7. CASE ~marked
    BY <2>1, <2>2, <2>4, <2>7, Nil
  <2> QED BY <2>6, <2>7
<1> DEFINE z == Precision < 0 \/ (S.conv_spec = "BINARY" /\ IntegerDigits # <<>>)
           b == [pre |-> Prefix, body |-> IntegerDigits, zeros |-> z]
<1>14. S.conv_spec = "BINARY" => IntegerDigits # <<>>
  <2>1. S.conv_spec = "BINARY" => IntegerDigits = zs
    BY <1>10
  <2>2. Times("0", MaxOf(0, Wanted - n)) \in Seq(Chars)
    <3>1. n \in Int /\ Wanted \in Int /\ "0" \in Chars
      BY <1>4, <1>8, DataAssumption
    <3> HIDE DEF n
    <3>0. MaxOf(0, Wanted - n) \in Nat
      BY <3>1, LeftOver
    <3>2. MaxOf(0, Wanted - n) \in Int
      BY <3>0
    <3> QED BY <3>1, <3>2, TimesType
  <2>3. Len(zs) >= n
    <3> DEFINE t == Times("0", MaxOf(0, Wanted - n))
    <3> HIDE DEF t, d
    <3>1. Len(t \o d) = Len(t) + Len(d) /\ Len(t) \in Nat
      BY <1>4, <2>2, Joined DEF t
    <3> QED BY <1>4, <3>1 DEF t
  <2> HIDE DEF zs, d
  <2> QED BY <1>4, <2>1, <2>3
<1>15. z <=> Precision < 0 \/ S.conv_spec = "BINARY"
  BY <1>14
<1>16. UseFieldWidth => (PadChar' = "0" <=> ~LeftJustified /\ S.leading_zero_pad /\ z)
  <2>1. UseFieldWidth => ~(UsePrecision /\ fs.prec_opt # NONE /\ fs.prec = 0 /\ zero)
    BY <1>1, <1>2 DEF DigitsInv, PrecisionKnown
  <2>2. PadChar' = PadChar
    BY <1>1 DEF PadChar
  <2>3. UseFieldWidth => (PadChar' = "0" <=> fs.leading_zero_pad /\ ~fs.left_justified)
    BY <2>1, <2>2, PadCharFlag
  <2>4. UseFieldWidth => (fs.leading_zero_pad <=> S.leading_zero_pad /\ z)
    BY <1>2, <1>3, <1>15 DEF ZerosKnown
  <2> QED BY <1>2, <2>3, <2>4 DEF WidthKnown
<1>17. b \in Bodies
  BY <1>3, IntegerBodies
<1>18. b.pre = Prefix /\ b.body = IntegerDigits /\ b.zeros = z
  OBVIOUS
<1> HIDE DEF b, z
<1>19. UseFieldWidth => (PadChar' = "0" <=> ~LeftJustified /\ S.leading_zero_pad /\ b.zeros)
  BY <1>16, <1>18
<1> QED BY <1>1, <1>11, <1>13, <1>17, <1>18, <1>19, ToLayout

-----------------------------------------------------------------------------
(* Every step.                                                               *)

LEMMA SameParts ==
  ASSUME UNCHANGED vars
  PROVE  /\ SignText' = SignText /\ PrefixText' = PrefixText /\ BodyText' = BodyText
         /\ LeftPad' = LeftPad /\ RightPad' = RightPad /\ Core' = Core /\ Pending' = Pending
         /\ Sent' = Sent /\ PrecPad' = PrecPad /\ PadChar' = PadChar
<1>1. UNCHANGED <<pc, fs, cbuf, cbuf_len, sign_c, need_0x, val, zero, pad_c, prec_pad, field_pad,
                  i, out, job>>
  BY DEF vars, numVars, textVars, padVars, ghosts
<1>2. SignText' = SignText /\ PrefixText' = PrefixText /\ PrecPad' = PrecPad /\ PadChar' = PadChar
  BY <1>1, Zenon DEF SignText, PrefixText, PrecPad, PadChar
<1>3. BodyText' = BodyText
  BY <1>1, Zenon DEF BodyText, Bits, Mirror
<1>4. LeftPad' = LeftPad /\ RightPad' = RightPad /\ Sent' = Sent
  BY <1>1, Zenon DEF LeftPad, RightPad, Times, Sent
<1>5. Core' = Core
  BY <1>1, <1>3, <1>4, Zenon DEF Core, Times
<1>6. Pending' = Pending
  BY <1>1, <1>2, <1>4, <1>5, Zenon DEF Pending
<1> QED BY <1>2, <1>3, <1>4, <1>5, <1>6

LEMMA TextStutter == ASSUME TextInv, UNCHANGED vars PROVE TextInv'
<1>1. UNCHANGED <<pc, fs, cbuf, cbuf_len, sign_c, need_0x, val, base, v32, zero, job>>
  BY DEF vars, numVars, textVars, padVars, ghosts
<1>2. /\ S' = S /\ LastArg' = LastArg /\ LeftJustified' = LeftJustified
      /\ Precision' = Precision /\ IntegerArg' = IntegerArg /\ BaseOf' = BaseOf /\ Bodies' = Bodies
      /\ Figures' = Figures /\ Signs' = Signs
  BY <1>1, SameJob, SameValue
<1>3. /\ SignText' = SignText /\ PrefixText' = PrefixText /\ BodyText' = BodyText
      /\ PrecPad' = PrecPad /\ PadChar' = PadChar
  BY SameParts
<1>4. ScanInv' <=> ScanInv
  BY <1>1, <1>2, Zenon DEF ScanInv
<1>5. ValueInv' <=> ValueInv
  BY <1>1, <1>2, <1>3, Zenon DEF ValueInv
<1>6. DigitsInv' <=> DigitsInv
  BY <1>1, <1>2, Zenon DEF DigitsInv
<1>7. pc = "layout" => \E b \in Bodies' : LaidOut(b)'
  <2> SUFFICES ASSUME pc = "layout" PROVE \E b \in Bodies' : LaidOut(b)'
    OBVIOUS
  <2>1. PICK b \in Bodies : LaidOut(b)
    BY DEF TextInv
  <2>2. LaidOut(b)'
    BY <1>2, <1>3, <2>1, Zenon DEF LaidOut, Times
  <2> QED BY <1>2, <2>1, <2>2
<1>8. /\ pc = "utoa" => Figures' = Numeral(v32', BaseOf', S'.case_adjust) \o Mirror(cbuf', cbuf_len')
      /\ pc = "binlen" => /\ v32' = val' \div 2 ^ cbuf_len'
                          /\ Figures' = Numeral(v32', 2, S'.case_adjust) \o Bits(val', cbuf_len')
  BY <1>1, <1>2 DEF TextInv
<1>9. /\ pc' \in {"convert", "scan"} => ~zero'
      /\ pc' = "scan" => ScanInv'
      /\ pc' \in {"integer", "utoa", "binlen", "alt"} => ValueInv'
      /\ pc' = "integer" => cbuf' = <<>> /\ cbuf_len' = 0
      /\ pc' \in {"utoa", "binlen", "alt"} => DigitsInv'
      /\ pc' = "utoa" => S'.conv_spec # "BINARY" /\ cbuf_len' = Len(cbuf')
      /\ pc' = "binlen" => S'.conv_spec = "BINARY"
      /\ pc' = "alt" => /\ Figures' = BodyText'
                        /\ S'.conv_spec # "BINARY" => cbuf_len' = Len(cbuf')
  BY <1>1, <1>2, <1>3, <1>4, <1>5, <1>6 DEF TextInv
<1> QED BY <1>1, <1>7, <1>8, <1>9, Zenon DEF TextInv

LEMMA TextStep == IInv /\ IInv' /\ SpecInv /\ TextInv /\ [Next]_vars => TextInv'
<1> SUFFICES ASSUME IInv, IInv', SpecInv, TextInv, [Next]_vars PROVE TextInv'
  OBVIOUS
<1>1. CASE Fetch \/ Return \/ ResolveWidth \/ ResolvePrec \/ Layout \/ Emit \/ Tally
  <2>1. pc' \notin {"convert", "scan", "integer", "utoa", "binlen", "alt", "layout"}
    BY <1>1 DEF Fetch, Literal, Specification, Return, ResolveWidth, ResolvePrec, Layout, Tally,
       Emit, PutSign, Put0, PutX, PadField, PadPrec, PayloadString, PayloadBinary, PayloadReversed
  <2> QED BY <2>1 DEF TextInv
<1>2. CASE Resolve
  <2>1. pc' = "convert" /\ ~zero'
    BY <1>2 DEF Resolve
  <2> QED BY <2>1 DEF TextInv
<1>3. CASE Convert
  BY <1>3, TextOfSigned, TextOfUnsigned, TextOfString, TextOfScan, TextOfChar, TextOfNone,
     TextOfFloat, TextOfInteger, TextOfUtoa, TextOfBinLen, TextOfAlt, Zenon DEF Convert
<1>4. CASE Done \/ UNCHANGED vars
  BY <1>4, TextStutter DEF Done
<1> QED BY <1>1, <1>2, <1>3, <1>4, Zenon DEF Next

LEMMA FieldStep == IInv /\ IInv' /\ SpecInv /\ TextInv /\ FieldInv /\ [Next]_vars => FieldInv'
<1> SUFFICES ASSUME IInv, IInv', SpecInv, TextInv, FieldInv, [Next]_vars PROVE FieldInv'
  OBVIOUS
<1>1. CASE Fetch \/ Return \/ ResolveWidth \/ ResolvePrec \/ Resolve \/ Convert \/ Tally
  <2>1. pc' \notin Measured
    BY <1>1 DEF Fetch, Literal, Specification, Return, ResolveWidth, ResolvePrec, Resolve, Tally,
       Convert, ConvertSigned, ConvertUnsigned, ConvertString, Scan, ConvertChar, ConvertWriteback,
       ConvertFloat, Integer, UtoaDigit, BinLen, AltForm, Measured, Emitting, Early
  <2> QED BY <2>1 DEF FieldInv, Measured, Emitting, Early
<1>2. CASE Layout
  <2>1. \E b \in Bodies : LaidOut(b)
    BY <1>2 DEF Layout, TextInv
  <2> QED BY <1>2, <2>1, FieldLayout
<1>3. CASE Emit
  BY <1>3, FieldEmit
<1>4. CASE Done \/ UNCHANGED vars
  <2>1. UNCHANGED vars
    BY <1>4 DEF Done
  <2>2. pc' = pc /\ fs' = fs /\ job' = job /\ out' = out /\ field_pad' = field_pad
        /\ sign_c' = sign_c
    BY <2>1 DEF vars, padVars, textVars, ghosts
  <2>3. Sent' = Sent /\ Pending' = Pending /\ Bodies' = Bodies /\ \A b : Field(b)' = Field(b)
    BY <2>1, <2>2, SameParts, SameJob
  <2>4. pc \in Measured => (\E b \in Bodies : Sent \o Pending = Field(b))'
    BY <2>3, Zenon DEF FieldInv
  <2> QED BY <2>2, <2>4, Zenon DEF FieldInv
<1> QED BY <1>1, <1>2, <1>3, <1>4, Zenon DEF Next

\* What the callback has been handed when a specification is done.
LEMMA FieldDone == IInv /\ FieldInv => ConformsToC11
<1> SUFFICES ASSUME IInv, FieldInv, pc = "tally"
             PROVE  SubSeq(out, job.at + 1, Len(out)) \in {Field(b) : b \in Bodies}
  BY DEF ConformsToC11
<1>1. PICK b \in Bodies : Sent \o Pending = Field(b)
  BY DEF FieldInv, Measured
<1>2. /\ out \in Seq(Chars) /\ job.at \in Nat /\ field_pad \in Int /\ field_pad <= 0
      /\ pad_c \in Chars
  BY DataAssumption DEF IInv, TypeOK, CountInv
<1>3. Pending = <<>>
  <2>1. Pending = RightPad
    BY RightPending
  <2>2. Times(pad_c, field_pad) = <<>>
    BY <1>2, TimesType
  <2> QED BY <2>1, <2>2 DEF RightPad
<1>4. Sent \in Seq(Chars)
  <2>1. /\ job.at + 1 \in Int /\ Len(out) \in Int
        /\ \A k \in (job.at + 1)..Len(out) : out[k] \in Chars
    BY <1>2
  <2>2. SubSeq(out, job.at + 1, Len(out)) \in Seq(Chars)
    BY <2>1, SubSeqProperties
  <2> QED BY <2>2, Zenon DEF Sent
<1>5. Sent = Field(b)
  BY <1>1, <1>3, <1>4, Nil
<1> QED BY <1>1, <1>5, Zenon DEF Sent

\* When a specification has been emitted, what the callback was handed for it is the
\* field C11 defines: in every build, for every specification, width, precision and
\* argument, however long the format.
THEOREM FieldsConform == Spec => []ConformsToC11
<1>1. Init => SpecInv /\ TextInv /\ FieldInv
  BY DEF Init, SpecInv, TextInv, FieldInv, Reading, Converting, Measured, Emitting, Early
<1>2. IInv /\ IInv' /\ (SpecInv /\ TextInv /\ FieldInv) /\ [Next]_vars
        => (SpecInv /\ TextInv /\ FieldInv)'
  BY SpecStep, TextStep, FieldStep
<1> QED BY <1>1, <1>2, Invariant, FieldDone, PTL DEF Spec

-----------------------------------------------------------------------------
(* The sizes: the conversion buffer and the sums of lengths.                 *)

\* The bits of npf_uint_t, as SizesAssumption has them.
WordBits == CHOOSE n \in 1..(3 * (CBUF - 1)) : 2 * (NpfIntMax + 1) <= 2 ^ n /\ n + 2 <= IntMax

\* While digits are made, what is left of the value has that many bits fewer: three
\* for each digit of base 8 or more, one for each of a binary length.  After the
\* first one something is left to make a digit of.
SizeInv ==
  /\ pc = "utoa" => /\ 3 * Len(cbuf) <= WordBits /\ v32 < 2 ^ (WordBits - 3 * Len(cbuf))
                    /\ Len(cbuf) > 0 => v32 # 0
  /\ pc = "binlen" => /\ cbuf = <<>>
                      /\ cbuf_len <= WordBits /\ v32 < 2 ^ (WordBits - cbuf_len)
                      /\ cbuf_len > 0 => v32 # 0
  /\ pc = "alt" => Len(cbuf) <= CBUF - 1
  /\ pc \in {"alt", "layout"} /\ fs.conv_spec = "BINARY" => cbuf_len <= WordBits /\ sign_c = NUL
  /\ pc \in {"layout"} \cup Emitting /\ fs.conv_spec # "STRING" => Len(cbuf) <= CBUF
  /\ pc = "layout" /\ fs.conv_spec = "STRING" =>
       cbuf_len <= IntMax /\ sign_c = NUL /\ need_0x = NUL
  /\ pc = "layout" /\ UsePrecision /\ fs.conv_spec \notin FloatConvs =>
       fs.prec <= MaxOf(FmtNumMax, CBUF)

LEMMA Sizes ==
  /\ WordBits \in Nat /\ 1 <= WordBits /\ WordBits <= 3 * (CBUF - 1)
  /\ 2 * (NpfIntMax + 1) <= 2 ^ WordBits /\ WordBits + 2 <= IntMax
  /\ CBUF \in Nat /\ 2 <= CBUF /\ FmtNumMax \in Nat /\ 2 <= FmtNumMax
  /\ IntMax \in Nat /\ 2 * FmtNumMax + CBUF <= IntMax
<1>1. CBUF \in Nat \ {0} /\ FmtNumMax \in Nat /\ 2 <= FmtNumMax
      /\ IntMax \in Nat /\ 2 * FmtNumMax + CBUF <= IntMax
  BY ConfigAssumption, CapAssumption, SizesAssumption, IntMaxNat
<1>2. WordBits \in 1..(3 * (CBUF - 1)) /\ 2 * (NpfIntMax + 1) <= 2 ^ WordBits
      /\ WordBits + 2 <= IntMax
  BY SizesAssumption, Zenon DEF WordBits
<1>3. WordBits \in Nat /\ 1 <= WordBits /\ WordBits <= 3 * (CBUF - 1)
  BY <1>1, <1>2
<1>4. 2 <= CBUF
  BY <1>1, <1>3
<1> QED BY <1>1, <1>2, <1>3, <1>4

\* A precision that reaches the conversion is capped, or a default.
LEMMA PrecCapped ==
  ASSUME IInv, SpecInv, pc \in Converting, UsePrecision, fs.conv_spec \notin FloatConvs
  PROVE  fs.prec \in Int /\ fs.prec <= MaxOf(FmtNumMax, CBUF)
<1>1. /\ S \in Specs /\ FlagsKept /\ PrecisionKnown /\ DefaultKnown /\ Precision \in Int
      /\ fs \in FormatSpec /\ job.spec \in Specs /\ job.args \in ArgsOf[job.spec]
  BY AtConvert
<1>2. Precision <= FmtNumMax \/ Precision < 0
  BY <1>1, Precise
<1>3. PtrDigits \in Nat /\ PtrDigits <= CBUF /\ fs.prec \in Int
  BY <1>1, SizesAssumption, Sizes DEF FormatSpec
<1>4. CASE Precision >= 0
  BY <1>1, <1>2, <1>3, <1>4, Sizes DEF PrecisionKnown, MaxOf
<1>5. CASE Precision < 0
  <2>1. fs.prec = PtrDigits \/ fs.prec = 0
    BY <1>1, <1>5 DEF DefaultKnown, FlagsKept
  <2> QED BY <1>3, <2>1, Sizes DEF MaxOf
<1> QED BY <1>1, <1>4, <1>5

\* The value fits in npf_uint_t.
LEMMA ValueBits ==
  ASSUME IInv, SpecInv, ValueInv, pc \in Converting
  PROVE  val \in Nat /\ val < 2 ^ WordBits /\ 2 ^ WordBits \in Nat
<1> DEFINE u == NpfIntMax
           p == 2 ^ WordBits
<1>1. u \in Nat /\ 2 * (u + 1) <= p /\ p \in Nat
  <2>1. 2 ^ WordBits \in Nat \ {0}
    BY Sizes, PowNat
  <2> QED BY <2>1, Sizes, NpfIntMaxNat
<1>2. /\ IntegerArg \in Int
      /\ \/ -(u + 1) <= IntegerArg /\ IntegerArg <= u
         \/ 0 <= IntegerArg /\ IntegerArg <= 2 * u + 1
  <2>1. job.spec \in Specs /\ job.args \in ArgsOf[job.spec] /\ S.conv_spec \in IntConvs \cup {"POINTER"}
    BY AtConvert DEF ValueInv
  <2> QED BY <2>1, IntegerArgValue
<1> HIDE DEF u, p
<1>3. val = AbsOf(IntegerArg) /\ val \in Nat
  BY DEF ValueInv, IInv, TypeOK
<1>4. val < p
  BY <1>1, <1>2, <1>3 DEF AbsOf
<1> QED BY <1>1, <1>3, <1>4 DEF p

LEMMA NoSign ==
  ASSUME ValueInv, S.conv_spec = "BINARY"
  PROVE  sign_c = NUL
BY DEF ValueInv, Signs, SignText

\* 1929-1941.
LEMMA SizeInteger ==
  ASSUME IInv, SpecInv, TextInv, SizeInv, Integer
  PROVE  SizeInv'
<1>1. /\ pc = "integer" /\ ValueInv /\ cbuf = <<>> /\ cbuf_len = 0
      /\ UNCHANGED <<cbuf, cbuf_len, sign_c, need_0x, val>> /\ v32' = val
      /\ pc' \in {"layout", "binlen", "utoa"}
      /\ (pc' = "binlen" => fs'.conv_spec = "BINARY")
      /\ \/ fs' = fs
         \/ fs' = [fs EXCEPT !.prec = 1]
  BY DEF Integer, ghosts, TextInv
<1>2. /\ FlagsKept /\ fs \in FormatSpec
  BY <1>1, AtConvert DEF Converting
<1>3. val \in Nat /\ val < 2 ^ WordBits
  BY <1>1, ValueBits DEF Converting
<1>4. fs'.conv_spec = fs.conv_spec /\ fs'.conv_spec = S.conv_spec /\ fs'.prec \in {fs.prec, 1}
  BY <1>1, <1>2 DEF FormatSpec, FlagsKept
<1>5. S.conv_spec # "STRING" /\ (S.conv_spec = "BINARY" => sign_c = NUL)
  BY <1>1, NoSign DEF ValueInv, IntConvs
<1>6. Len(cbuf') = 0 /\ 3 * 0 = 0 /\ WordBits - 0 = WordBits /\ 0 <= WordBits /\ 0 <= CBUF
  BY <1>1, Sizes
<1>7. UsePrecision /\ fs'.conv_spec \notin FloatConvs => fs'.prec <= MaxOf(FmtNumMax, CBUF)
  <2> SUFFICES ASSUME UsePrecision, fs.conv_spec \notin FloatConvs
               PROVE  fs'.prec <= MaxOf(FmtNumMax, CBUF)
    BY <1>4
  <2>1. fs.prec <= MaxOf(FmtNumMax, CBUF)
    BY <1>1, PrecCapped DEF Converting
  <2>2. 1 <= MaxOf(FmtNumMax, CBUF)
    BY Sizes DEF MaxOf
  <2> QED BY <1>4, <2>1, <2>2
<1>8. pc' = "utoa" => /\ 3 * Len(cbuf') <= WordBits /\ v32' < 2 ^ (WordBits - 3 * Len(cbuf'))
                      /\ ~(Len(cbuf') > 0)
  BY <1>1, <1>3, <1>6
<1>9. pc' = "binlen" => /\ cbuf' = <<>> /\ cbuf_len' <= WordBits
                        /\ v32' < 2 ^ (WordBits - cbuf_len') /\ ~(cbuf_len' > 0)
  BY <1>1, <1>3, <1>6
<1>10. pc' \in {"alt", "layout"} /\ fs'.conv_spec = "BINARY" => cbuf_len' <= WordBits /\ sign_c' = NUL
  BY <1>1, <1>4, <1>5, <1>6
<1> QED BY <1>1, <1>4, <1>5, <1>6, <1>7, <1>8, <1>9, <1>10 DEF SizeInv, Emitting, Early

\* 2^k is 8 * 2^(k-3), and less than 8 below that.
LEMMA EightFold ==
  ASSUME NEW k \in Nat, NEW x \in Nat, x < 2 ^ k, NEW b \in {8, 10, 16}
  PROVE  /\ x \div b # 0 => k >= 3 /\ x \div b < 2 ^ (k - 3) /\ k - 3 \in Nat
         /\ x # 0 => k # 0
<1>0. 2 ^ 0 = 1
  OBVIOUS
<1>1. k = 0 => x = 0
  BY <1>0
<1>2. CASE k < 3
  <2>1. 2 ^ k <= 4
    <3>1. CASE k = 0
      BY <1>0, <3>1
    <3>2. CASE k = 1
      <4>1. 2 ^ 1 = 2
        OBVIOUS
      <4> QED BY <3>2, <4>1
    <3>3. CASE k = 2
      <4>1. 2 ^ 2 = 4
        OBVIOUS
      <4> QED BY <3>3, <4>1
    <3> QED BY <1>2, <3>1, <3>2, <3>3
  <2>2. x < 4
    <3> DEFINE p == 2 ^ k
    <3>1. p \in Nat \ {0}
      BY PowNat
    <3>2. x < p /\ p <= 4
      BY <2>1
    <3> HIDE DEF p
    <3> QED BY <3>1, <3>2
  <2>3. x \div b = 0
    BY <2>2
  <2> QED BY <1>1, <2>3
<1>3. CASE k >= 3
  <2> DEFINE m == k - 3
             p == 2 ^ m
  <2>1. m \in Nat /\ k - 3 = m /\ m + 1 \in Nat /\ (m + 1) + 1 \in Nat /\ ((m + 1) + 1) + 1 = k
    BY <1>3
  <2> HIDE DEF m
  <2>2. p \in Nat
    <3>1. 2 ^ m \in Nat \ {0}
      BY <2>1, PowNat
    <3> QED BY <3>1
  <2>3. 2 ^ (m + 1) = 2 * p
    BY <2>1, PowDoubles
  <2>4. 2 ^ ((m + 1) + 1) = 2 * 2 ^ (m + 1)
    BY <2>1, PowDoubles
  <2>5. 2 ^ (((m + 1) + 1) + 1) = 2 * 2 ^ ((m + 1) + 1)
    BY <2>1, PowDoubles
  <2> DEFINE p1 == 2 ^ (m + 1)
             p2 == 2 ^ ((m + 1) + 1)
             pk == 2 ^ k
  <2>6. p1 = 2 * p /\ p2 = 2 * p1 /\ pk = 2 * p2 /\ x < pk
    BY <2>1, <2>3, <2>4, <2>5
  <2> HIDE DEF p, p1, p2, pk
  <2>7. x < 8 * p
    BY <2>2, <2>6
  <2>8. x \div b < p
    <3> DEFINE q == x \div b
    <3>1. x = b * q + (x % b) /\ q \in Nat /\ x % b \in Nat
      OBVIOUS
    <3> HIDE DEF q
    <3>2. 8 * q <= b * q
      BY <3>1
    <3>3. 8 * q <= x
      <4> DEFINE y == b * q
                 r == x % b
      <4>1. y \in Nat /\ r \in Nat /\ x = y + r /\ 8 * q <= y
        BY <3>1, <3>2
      <4> HIDE DEF y, r
      <4> QED BY <3>1, <4>1
    <3>4. q < p
      BY <2>2, <2>7, <3>1, <3>3
    <3> QED BY <3>4 DEF q
  <2>9. x \div b < 2 ^ (k - 3) /\ k - 3 \in Nat
    BY <2>1, <2>8 DEF p
  <2> QED BY <1>1, <1>3, <2>9
<1> QED BY <1>2, <1>3

\* 614-628: each digit takes three bits or more of the value.
LEMMA SizeUtoa ==
  ASSUME IInv, SpecInv, TextInv, SizeInv, UtoaDigit
  PROVE  SizeInv'
<1> DEFINE n == Len(cbuf)
           w == WordBits
           k == w - 3 * n
           q == v32 \div base
<1>1. /\ pc = "utoa" /\ ValueInv /\ S.conv_spec # "BINARY" /\ UNCHANGED fs
      /\ cbuf' = Append(cbuf, DigitChar(v32 % base, fs.case_adjust))
      /\ v32' = q /\ pc' = (IF q = 0 THEN "alt" ELSE "utoa")
      /\ 3 * n <= w /\ v32 < 2 ^ k /\ (n > 0 => v32 # 0)
  BY DEF UtoaDigit, TextInv, SizeInv
<1>2. /\ fs.conv_spec = S.conv_spec /\ S.conv_spec # "STRING"
      /\ cbuf \in Seq(Chars) /\ v32 \in Nat /\ base \in {8, 10, 16}
      /\ n \in Nat /\ w \in Nat /\ 1 <= w /\ w <= 3 * (CBUF - 1) /\ CBUF \in Nat /\ 2 <= CBUF
  <2>1. fs.conv_spec = S.conv_spec /\ S.conv_spec # "STRING"
    BY <1>1, AtConvert DEF Converting, ValueInv, FlagsKept, IntConvs
  <2>2. cbuf \in Seq(Chars) /\ v32 \in Nat /\ base \in {8, 10, 16}
    BY DEF IInv, TypeOK
  <2>3. w \in Nat /\ 1 <= w /\ w <= 3 * (CBUF - 1) /\ CBUF \in Nat /\ 2 <= CBUF
    BY Sizes
  <2>4. n \in Nat
    BY <2>2
  <2> QED BY <2>1, <2>2, <2>3, <2>4
<1>3. Len(cbuf') = n + 1
  BY <1>1, <1>2
<1>4. k \in Nat /\ (q # 0 => k >= 3 /\ q < 2 ^ (k - 3)) /\ (v32 # 0 => k # 0)
  <2>1. k \in Nat
    BY <1>1, <1>2
  <2>2. v32 < 2 ^ k
    BY <1>1
  <2> HIDE DEF k
  <2> QED BY <1>2, <2>1, <2>2, EightFold
<1> HIDE DEF q
<1>5. n + 1 <= CBUF - 1
  <2>1. CASE n = 0
    BY <1>2, <2>1
  <2>2. CASE n > 0
    <3>1. k >= 1
      BY <1>1, <1>4, <2>2
    <3>2. w - 3 * n >= 1
      BY <3>1
    <3> HIDE DEF n, w
    <3> QED BY <1>2, <3>2
  <2> QED BY <1>2, <2>1, <2>2
<1>6. CASE q = 0
  <2>1. pc' = "alt" /\ Len(cbuf') <= CBUF - 1 /\ fs'.conv_spec # "BINARY"
    BY <1>1, <1>2, <1>3, <1>5, <1>6
  <2> QED BY <2>1 DEF SizeInv, Emitting, Early
<1>7. CASE q # 0
  <2>1. k - 3 = w - 3 * (n + 1) /\ 3 * (n + 1) <= w
    <3>1. w - 3 * n >= 3
      BY <1>4, <1>7
    <3> HIDE DEF n, w
    <3> QED BY <1>2, <3>1
  <2>2. pc' = "utoa" /\ v32' # 0 /\ v32' = q
    BY <1>1, <1>7
  <2>3. v32' < 2 ^ (w - 3 * (n + 1))
    BY <1>4, <1>7, <2>1, <2>2
  <2>4. 3 * Len(cbuf') <= WordBits /\ v32' < 2 ^ (WordBits - 3 * Len(cbuf'))
    BY <1>3, <2>1, <2>3
  <2> QED BY <2>2, <2>4 DEF SizeInv, Emitting, Early
<1> QED BY <1>6, <1>7

\* 596-607: each step of the length takes one.
LEMMA SizeBinLen ==
  ASSUME IInv, SpecInv, TextInv, SizeInv, BinLen
  PROVE  SizeInv'
<1> DEFINE n == cbuf_len
           w == WordBits
           k == w - n
           x == v32
           q == x \div 2
<1>1. /\ pc = "binlen" /\ ValueInv /\ S.conv_spec = "BINARY" /\ UNCHANGED <<fs, cbuf, sign_c>>
      /\ cbuf_len' = n + 1 /\ cbuf = <<>>
      /\ v32' = q /\ pc' = (IF q = 0 THEN "alt" ELSE "binlen")
      /\ n <= w /\ x < 2 ^ k /\ (n > 0 => x # 0)
  BY DEF BinLen, TextInv, SizeInv
<1>2. /\ x \in Nat /\ sign_c = NUL
      /\ n \in Nat /\ w \in Nat /\ 1 <= w /\ CBUF \in Nat /\ 2 <= CBUF
  BY <1>1, AtConvert, Sizes, NoSign DEF Converting, IInv, TypeOK
<1>3. k \in Nat /\ (x # 0 => k # 0)
  <2>1. k \in Nat
    BY <1>1, <1>2
  <2>2. 2 ^ 0 = 1
    OBVIOUS
  <2>3. k = 0 => x < 1
    BY <1>1, <2>2
  <2> QED BY <1>2, <2>1, <2>3
<1>4. n + 1 <= w
  <2> HIDE DEF x, n, w
  <2>1. n = 0 \/ w - n # 0
    BY <1>1, <1>2, <1>3
  <2> QED BY <1>1, <1>2, <2>1
<1>5. q < 2 ^ (k - 1)
  <2> DEFINE m == k - 1
             p == 2 ^ m
  <2>1. m \in Nat /\ m + 1 = k
    <3> HIDE DEF n, w
    <3> QED BY <1>2, <1>4
  <2> HIDE DEF m
  <2>2. 2 ^ (m + 1) = 2 * p
    BY <2>1, PowDoubles
  <2>3. p \in Nat
    <3>1. 2 ^ m \in Nat \ {0}
      BY <2>1, PowNat
    <3> QED BY <3>1
  <2>4. x < 2 * p
    BY <1>1, <2>1, <2>2
  <2> HIDE DEF p, x
  <2>5. q < p
    BY <1>2, <2>3, <2>4
  <2> QED BY <2>5 DEF p, m
<1>6. CASE q = 0
  <2>1. pc' = "alt" /\ cbuf_len' <= WordBits /\ sign_c' = NUL
    BY <1>1, <1>2, <1>4, <1>6
  <2>2. Len(cbuf') <= CBUF - 1
    BY <1>1, <1>2
  <2> QED BY <2>1, <2>2 DEF SizeInv, Emitting, Early
<1>7. CASE q # 0
  <2>1. pc' = "binlen" /\ v32' # 0 /\ v32' = q /\ cbuf' = <<>> /\ cbuf_len' <= WordBits
    BY <1>1, <1>4, <1>7
  <2>2. k - 1 = w - (n + 1)
    <3> HIDE DEF n, w
    <3> QED BY <1>2
  <2>3. v32' < 2 ^ (WordBits - cbuf_len')
    BY <1>1, <1>5, <2>1, <2>2
  <2> QED BY <2>1, <2>3 DEF SizeInv, Emitting, Early
<1> QED BY <1>6, <1>7

\* 1943-1961: the '0' of '#' takes one cell more.
LEMMA SizeAlt ==
  ASSUME IInv, SpecInv, TextInv, SizeInv, AltForm
  PROVE  SizeInv'
<1>1. /\ pc = "alt" /\ pc' = "layout" /\ ValueInv /\ UNCHANGED <<fs, sign_c>>
      /\ Len(cbuf) <= CBUF - 1
      /\ fs.conv_spec = "BINARY" => cbuf_len <= WordBits /\ sign_c = NUL
      /\ \/ base = 8 /\ cbuf' = Append(cbuf, "0")
         \/ cbuf' = cbuf /\ cbuf_len' = cbuf_len
  BY DEF AltForm, TextInv, SizeInv
<1>2. fs.conv_spec = S.conv_spec /\ S.conv_spec # "STRING" /\ (base = 8 => S.conv_spec # "BINARY")
  BY <1>1, AtConvert, BaseIs DEF Converting, FlagsKept, ValueInv, IntConvs
<1>3. cbuf \in Seq(Chars) /\ CBUF \in Nat
  BY Sizes DEF IInv, TypeOK
<1>4. Len(cbuf') <= CBUF
  <2>1. cbuf' = Append(cbuf, "0") => Len(cbuf') = Len(cbuf) + 1
    BY <1>3
  <2> QED BY <1>1, <1>3, <2>1
<1>5. UsePrecision /\ fs.conv_spec \notin FloatConvs => fs.prec <= MaxOf(FmtNumMax, CBUF)
  BY <1>1, PrecCapped DEF Converting
<1> QED BY <1>1, <1>2, <1>4, <1>5 DEF SizeInv, Emitting, Early

\* 1963-1967: what the loop counts is in the string.
LEMMA SizeString ==
  ASSUME IInv, SpecInv, TextInv, SizeInv, ConvertString \/ Scan
  PROVE  SizeInv'
<1>1. /\ pc \in {"convert", "scan"} /\ pc' \in {"scan", "layout"} /\ fs' = fs
      /\ fs.conv_spec = "STRING"
  BY DEF ConvertString, Scan, IInv, ShapeInv
<1>2. CASE pc' = "scan"
  BY <1>2 DEF SizeInv, Emitting, Early
<1>3. CASE pc' = "layout"
  <2>1. cbuf_len' <= IntMax /\ sign_c' = NUL /\ need_0x' = NUL
    <3>1. CASE ConvertString
      BY <3>1, Sizes DEF ConvertString, IInv, ShapeInv
    <3>2. CASE Scan
      <4>1. /\ ScanInv /\ cbuf_len <= Len(cbuf) /\ cbuf_len' = cbuf_len
            /\ sign_c' = sign_c /\ need_0x' = need_0x /\ cbuf_len \in Int /\ cbuf \in Seq(Chars)
        BY <1>1, <1>3, <3>2 DEF Scan, TextInv, IInv, ShapeInv, TypeOK
      <4>2. job.spec \in Specs /\ job.args \in ArgsOf[job.spec] /\ S.conv_spec = "STRING"
        BY <1>1, AtConvert DEF Converting, FlagsKept
      <4>3. LastArg \in {0} \cup DOMAIN Heap
        BY <4>2, ArgsAssumption DEF S, LastArg
      <4>4. Len(cbuf) <= IntMax /\ IntMax \in Nat
        BY <4>1, <4>3, SizesAssumption, Sizes DEF ScanInv
      <4> QED BY <4>1, <4>4 DEF ScanInv
    <3> QED BY <3>1, <3>2
  <2>2. UsePrecision /\ fs.conv_spec \notin FloatConvs => fs.prec <= MaxOf(FmtNumMax, CBUF)
    BY <1>1, PrecCapped DEF Converting
  <2> QED BY <1>1, <1>3, <2>1, <2>2 DEF SizeInv, Emitting, Early
<1> QED BY <1>1, <1>2, <1>3

\* The other conversions write one cell, none, or the text of a float.
LEMMA SizeOther ==
  ASSUME IInv, SpecInv, ConvertChar \/ ConvertWriteback \/ \E t \in FloatTexts : ConvertFloat(t)
  PROVE  SizeInv'
<1>1. /\ pc = "convert" /\ pc' = "layout" /\ fs \in FormatSpec
      /\ fs.conv_spec \in {"CHAR", "PERCENT", "WRITEBACK"} \cup FloatConvs
      /\ fs' = fs \/ \E b \in BOOLEAN : fs' = [fs EXCEPT !.leading_zero_pad = b]
  <2>1. CASE ConvertChar \/ ConvertWriteback
    BY <2>1 DEF ConvertChar, ConvertWriteback, IInv, TypeOK
  <2>2. ASSUME NEW t \in FloatTexts, ConvertFloat(t)
        PROVE  /\ pc = "convert" /\ pc' = "layout" /\ fs \in FormatSpec
               /\ fs.conv_spec \in FloatConvs
               /\ \E b \in BOOLEAN : fs' = [fs EXCEPT !.leading_zero_pad = b]
    BY <2>2 DEF ConvertFloat, IInv, TypeOK
  <2> QED BY <2>1, <2>2
<1>2. fs'.conv_spec = fs.conv_spec /\ fs'.prec = fs.prec
  BY <1>1 DEF FormatSpec
<1>3. fs.conv_spec \notin {"STRING", "BINARY"}
  BY <1>1 DEF FloatConvs
<1>4. Len(cbuf') <= CBUF
  <2>1. CASE ConvertChar
    <3>1. Len(cbuf') = 1
      <4>1. cbuf' = <<CharOf(ArgVal)>> \/ cbuf' = <<"%">>
        BY <2>1 DEF ConvertChar
      <4> QED BY <4>1
    <3> QED BY <3>1, Sizes
  <2>2. CASE ConvertWriteback
    <3>1. cbuf' = <<>>
      BY <2>2 DEF ConvertWriteback, textVars, IInv, ShapeInv
    <3>2. Len(cbuf') = 0
      BY <3>1
    <3> QED BY <3>2, Sizes
  <2>3. ASSUME NEW t \in FloatTexts, ConvertFloat(t) PROVE Len(cbuf') <= CBUF
    BY <2>3, DataAssumption, Sizes DEF ConvertFloat
  <2> QED BY <2>1, <2>2, <2>3
<1>5. UsePrecision /\ fs.conv_spec \notin FloatConvs => fs.prec <= MaxOf(FmtNumMax, CBUF)
  BY <1>1, PrecCapped DEF Converting
<1> QED BY <1>1, <1>2, <1>3, <1>4, <1>5 DEF SizeInv, Emitting, Early

LEMMA SizeStep == IInv /\ SpecInv /\ TextInv /\ SizeInv /\ [Next]_vars => SizeInv'
<1> SUFFICES ASSUME IInv, SpecInv, TextInv, SizeInv, [Next]_vars PROVE SizeInv'
  OBVIOUS
<1>1. CASE Fetch \/ Return \/ ResolveWidth \/ ResolvePrec \/ Resolve \/ Tally
           \/ ConvertSigned \/ ConvertUnsigned
  <2>1. pc' \notin {"utoa", "binlen", "alt", "layout"} \cup Emitting
    BY <1>1 DEF Fetch, Literal, Specification, Return, ResolveWidth, ResolvePrec, Resolve, Tally,
       ConvertSigned, ConvertUnsigned, Emitting, Early
  <2> QED BY <2>1 DEF SizeInv
<1>2. CASE Convert
  BY <1>1, <1>2, SizeString, SizeOther, SizeInteger, SizeUtoa, SizeBinLen, SizeAlt, Zenon DEF Convert
<1>3. CASE Layout \/ Emit
  <2>1. /\ pc \in {"layout"} \cup Emitting /\ pc' \in Emitting \cup {"tally"}
        /\ fs' = fs /\ cbuf' = cbuf
    <3>1. CASE Layout
      BY <3>1 DEF Layout, textVars, Emitting, Early
    <3>2. CASE Emit
      BY <3>2 DEF Emit, PutSign, Put0, PutX, PadField, PadPrec, PayloadString, PayloadBinary,
         PayloadReversed, textVars, Emitting, Early
    <3> QED BY <1>3, <3>1, <3>2
  <2>2. pc' \notin {"utoa", "binlen", "alt", "layout"}
    BY <2>1 DEF Emitting, Early
  <2> QED BY <2>1, <2>2 DEF SizeInv
<1>4. CASE Done \/ UNCHANGED vars
  <2>1. /\ pc' = pc /\ fs' = fs /\ cbuf' = cbuf /\ cbuf_len' = cbuf_len /\ v32' = v32
        /\ sign_c' = sign_c /\ need_0x' = need_0x
    BY <1>4 DEF Done, vars, numVars, textVars
  <2> QED BY <2>1 DEF SizeInv
<1> QED BY <1>1, <1>2, <1>3, <1>4, Zenon DEF Next

\* The conversion buffer: what is in it never exceeds its capacity.
LEMMA SizeBounds == IInv /\ SizeInv => CbufInBounds
<1> SUFFICES ASSUME IInv, SizeInv, pc \in {"utoa", "alt", "layout", "payload"},
                    fs.conv_spec # "STRING"
             PROVE  /\ Len(cbuf) <= CBUF
                    /\ pc = "payload" /\ fs.conv_spec # "BINARY" => cbuf_len <= Len(cbuf)
  BY DEF CbufInBounds
<1>1. Len(cbuf) <= CBUF
  <2>1. Len(cbuf) \in Nat
    BY DEF IInv, TypeOK
  <2> DEFINE n == Len(cbuf)
             w == WordBits
  <2>2. pc = "utoa" => 3 * n <= w
    BY DEF SizeInv
  <2>3. pc = "alt" => n <= CBUF - 1
    BY DEF SizeInv
  <2>4. pc \in {"layout", "payload"} => n <= CBUF
    BY DEF SizeInv, Emitting
  <2>5. w \in Nat /\ w <= 3 * (CBUF - 1) /\ CBUF \in Nat
    BY Sizes
  <2> HIDE DEF n, w
  <2>6. n <= CBUF
    BY <2>1, <2>2, <2>3, <2>4, <2>5 DEF n
  <2> QED BY <2>6 DEF n
<1>2. pc = "payload" /\ fs.conv_spec # "BINARY" => cbuf_len <= Len(cbuf)
  BY DEF IInv, ShapeInv, Emitting
<1> QED BY <1>1, <1>2

\* No conversion writes past the conversion buffer, or emits a cell it did not write,
\* in any build whose buffer holds the octal form of its widest integer.
THEOREM BufferInBounds == Spec => []CbufInBounds
<1>1. Init => SpecInv /\ TextInv /\ SizeInv
  BY DEF Init, SpecInv, TextInv, SizeInv, Reading, Converting, Emitting, Early
<1>2. IInv /\ IInv' /\ (SpecInv /\ TextInv /\ SizeInv) /\ [Next]_vars
        => (SpecInv /\ TextInv /\ SizeInv)'
  BY SpecStep, TextStep, SizeStep
<1> QED BY <1>1, <1>2, Invariant, SizeBounds, PTL DEF Spec

\* The capped width.
LEMMA WidthCapped ==
  ASSUME IInv, SpecInv, pc = "layout", UseFieldWidth
  PROVE  fs.field_width \in Int /\ fs.field_width <= FmtNumMax
<1>1. fs.field_width \in Int /\ fs.field_width = Width /\ FmtNumMax \in Nat
  BY Sizes DEF IInv, TypeOK, FormatSpec, SpecInv, Reading, WidthKnown
<1> DEFINE z == IF S.field_width_opt = STAR THEN AbsOf(job.args[1].v) ELSE S.field_width
<1>2. Width = IF FmtNumMax <= z THEN FmtNumMax ELSE z
  BY DEF Width, MinOf
<1> HIDE DEF z
<1>3. CASE FmtNumMax <= z
  BY <1>1, <1>2, <1>3
<1>4. CASE ~(FmtNumMax <= z)
  <2>1. z \in Int
    BY <1>1, <1>2, <1>4
  <2> QED BY <1>1, <1>2, <1>4, <2>1
<1> QED BY <1>3, <1>4

\* 2003-2043: the sum of the parts fits in int, and each padding is a part of it.
LEMMA BodyFits ==
  ASSUME IInv, SizeInv, pc = "layout"
  PROVE  /\ BodyLen \in Int /\ BodyLen <= IntMax
         /\ PrecPad \in Nat /\ PrecPad <= BodyLen
<1> DEFINE sg == IF sign_c = NUL THEN 0 ELSE 1
           px == IF need_0x = NUL THEN 0 ELSE 2
           p == PrecPad
<1>1. cbuf_len \in Nat /\ Len(cbuf) \in Nat /\ fs.prec \in Int
  BY DEF IInv, TypeOK, ShapeInv, FormatSpec
<1>2. sg \in 0..1 /\ px \in 0..2
  OBVIOUS
<1>3. p \in Nat
  BY <1>1, LeftOver DEF PrecPad
<1>4. BodyLen = cbuf_len + sg + px + p
  BY DEF BodyLen
<1>5. CASE fs.conv_spec = "STRING"
  <2>1. cbuf_len <= IntMax /\ sg = 0 /\ px = 0 /\ p = 0
    BY <1>5 DEF SizeInv, PrecPad
  <2> HIDE DEF sg, px, p
  <2>2. BodyLen = cbuf_len
    BY <1>1, <1>4, <2>1
  <2> QED BY <1>1, <1>3, <2>1, <2>2 DEF p
<1>6. CASE fs.conv_spec # "STRING"
  <2>1. /\ fs.conv_spec = "BINARY" => cbuf_len <= WordBits /\ sg = 0
        /\ fs.conv_spec # "BINARY" => cbuf_len <= CBUF
    <3>1. fs.conv_spec # "BINARY" => cbuf_len <= Len(cbuf) /\ Len(cbuf) <= CBUF
      BY <1>6 DEF IInv, ShapeInv, SizeInv
    <3> QED BY <1>1, <3>1, Sizes DEF SizeInv
  <2>2. p = 0 \/ (p = fs.prec - cbuf_len /\ (fs.prec <= FmtNumMax \/ fs.prec <= CBUF))
    <3>1. CASE UsePrecision /\ fs.conv_spec \notin FloatConvs
      <4>1. p = MaxOf(0, fs.prec - cbuf_len) /\ fs.prec <= MaxOf(FmtNumMax, CBUF)
        BY <1>6, <3>1 DEF PrecPad, SizeInv
      <4> QED BY <4>1, <1>1, Sizes DEF MaxOf
    <3>2. CASE ~(UsePrecision /\ fs.conv_spec \notin FloatConvs)
      BY <1>6, <3>2 DEF PrecPad
    <3> QED BY <3>1, <3>2
  <2> DEFINE w == WordBits
             r == fs.prec
  <2>3. /\ w \in Nat /\ w + 2 <= IntMax /\ IntMax \in Nat /\ CBUF \in Nat /\ 2 <= CBUF
        /\ FmtNumMax \in Nat /\ 2 <= FmtNumMax /\ 2 * FmtNumMax + CBUF <= IntMax
    BY Sizes
  <2> HIDE DEF sg, px, p, w, r
  <2>4. r \in Int /\ (p = 0 \/ (p = r - cbuf_len /\ (r <= FmtNumMax \/ r <= CBUF)))
    BY <1>1, <2>2 DEF r
  <2>5. (cbuf_len <= w /\ sg = 0) \/ cbuf_len <= CBUF
    BY <2>1 DEF w
  <2>6. cbuf_len + sg + px + p <= IntMax
    BY <1>1, <1>2, <1>3, <2>3, <2>4, <2>5
  <2> QED BY <1>1, <1>2, <1>3, <1>4, <2>6 DEF p
<1> QED BY <1>5, <1>6

LEMMA LengthsInit == Init => LengthsFitInt
BY Sizes DEF Init, LengthsFitInt

LEMMA LengthsStep ==
  IInv /\ SpecInv /\ SizeInv /\ LengthsFitInt /\ [Next]_vars => LengthsFitInt'
<1> SUFFICES ASSUME IInv, SpecInv, SizeInv, LengthsFitInt, [Next]_vars PROVE LengthsFitInt'
  OBVIOUS
<1>0. spec_len \in 0..IntMax /\ prec_pad <= spec_len /\ field_pad <= spec_len
      /\ prec_pad \in Int /\ field_pad \in Int /\ spec_len \in Int /\ IntMax \in Nat
  BY Sizes DEF LengthsFitInt, IInv, TypeOK
<1>1. CASE Resolve
  BY <1>1, Sizes DEF Resolve, LengthsFitInt
<1>2. CASE Layout
  <2> DEFINE b == BodyLen
             p == PrecPad
             f == FieldPad
  <2>1. /\ b \in Int /\ b <= IntMax /\ p \in Nat /\ p <= b
    BY <1>2, BodyFits DEF Layout
  <2>2. /\ spec_len' = b + f
        /\ prec_pad' \in {p + f, p} /\ field_pad' \in {0, f}
    BY <1>2 DEF Layout
  <2>3. f = 0 \/ (f \in Nat /\ b + f <= FmtNumMax)
    <3>1. CASE UseFieldWidth
      <4>1. f = MaxOf(0, fs.field_width - b) /\ fs.field_width \in Int
            /\ fs.field_width <= FmtNumMax /\ FmtNumMax \in Nat
        BY <1>2, <3>1, WidthCapped, Sizes DEF Layout, FieldPad
      <4> HIDE DEF b, f
      <4> QED BY <2>1, <4>1 DEF MaxOf
    <3>2. CASE ~UseFieldWidth
      BY <3>2 DEF FieldPad
    <3> QED BY <3>1, <3>2
  <2>4. FmtNumMax <= IntMax /\ FmtNumMax \in Nat
    BY Sizes
  <2> HIDE DEF b, p, f
  <2>5. spec_len' \in 0..IntMax /\ prec_pad' <= spec_len' /\ field_pad' <= spec_len'
    BY <1>0, <2>1, <2>2, <2>3, <2>4
  <2> QED BY <2>5 DEF LengthsFitInt
<1>3. CASE Emit
  <2>1. /\ spec_len' = spec_len
        /\ prec_pad' \in {prec_pad, prec_pad - 1} /\ field_pad' \in {field_pad, field_pad - 1}
    BY <1>3 DEF Emit, PutSign, Put0, PutX, PadField, PadPrec, PayloadString, PayloadBinary,
         PayloadReversed, textVars, padVars
  <2> QED BY <1>0, <2>1 DEF LengthsFitInt
<1>4. CASE Fetch \/ Return \/ ResolveWidth \/ ResolvePrec \/ Convert \/ Tally \/ Done
           \/ UNCHANGED vars
  <2>1. spec_len' = spec_len /\ prec_pad' = prec_pad /\ field_pad' = field_pad
    BY <1>4 DEF Fetch, Literal, Specification, Return, ResolveWidth, ResolvePrec, Tally, Done,
       Convert, ConvertSigned, ConvertUnsigned, ConvertString, Scan, ConvertChar, ConvertWriteback,
       ConvertFloat, Integer, UtoaDigit, BinLen, AltForm, padVars, vars
  <2> QED BY <1>0, <2>1 DEF LengthsFitInt
<1> QED BY <1>1, <1>2, <1>3, <1>4, Zenon DEF Next

\* The lengths of a conversion stay inside int, with every width and precision at
\* the cap, for every buffer and every string a caller may pass.
THEOREM LengthsFit == Spec => []LengthsFitInt
<1>1. Init => SpecInv /\ TextInv /\ SizeInv /\ LengthsFitInt
  <2>1. Init => SpecInv /\ TextInv /\ SizeInv
    BY DEF Init, SpecInv, TextInv, SizeInv, Reading, Converting, Emitting, Early
  <2> QED BY <2>1, LengthsInit
<1>2. IInv /\ IInv' /\ (SpecInv /\ TextInv /\ SizeInv /\ LengthsFitInt) /\ [Next]_vars
        => (SpecInv /\ TextInv /\ SizeInv /\ LengthsFitInt)'
  BY SpecStep, TextStep, SizeStep, LengthsStep
<1> QED BY <1>1, <1>2, Invariant, PTL DEF Spec
=============================================================================
