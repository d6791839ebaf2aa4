-------------------------- MODULE NpfParse_proofs --------------------------
(***************************************************************************)
(* Proofs about the walk over a format, for formats of any length over any *)
(* characters and every configuration: it never reads behind the NUL, the  *)
(* items it hands on tile the format, and a specification it hands on is   *)
(* one the engine accepts.                                                 *)
(***************************************************************************)
EXTENDS NpfGrammar, TLAPS, SequenceTheorems, FiniteSetTheorems, NpfInduction

InParser == Places \ {"fetch", "done"}
Item == [at: Nat, len: Nat, parsed: BOOLEAN, spec: FormatSpec]

TypeOK ==
  /\ build \in Builds /\ fmt \in Seq(Chars \cup {NUL}) /\ pc \in Places
  /\ cur \in Nat \ {0} /\ start \in Nat \ {0} /\ num \in Nat /\ fast \in BOOLEAN
  /\ second \in {NUL, "6", "2", "4"} /\ fs \in FormatSpec /\ items \in Seq(Item)

\* The NUL is last; the cursor is inside what has been read or just behind it; a
\* specification being parsed begins with a '%' behind the cursor.
CursorInv ==
  /\ \A k \in 1..(Len(fmt) - 1) : fmt[k] # NUL
  /\ cur <= Len(fmt) + 1
  /\ NeverPastNul
  /\ pc \in InParser => start < cur /\ fmt[start] = "%"
  /\ pc = "twice" => fs.length_modifier # NUL
  /\ pc = "confirm" => second # NUL
  /\ pc = "done" => cur = Len(fmt) /\ fmt[cur] = NUL

-----------------------------------------------------------------------------
(* The data a step of the parser may leave in fs. *)

LEMMA BuildTyped ==
  ASSUME TypeOK
  PROVE  /\ \A o \in Options : build[o] \in BOOLEAN
         /\ build["fixed"] => build["small"]
         /\ build["hex"] \/ build["sci"] \/ build["shortest"] => build["float"]
BY BuildsAssumption DEF TypeOK, Options

\* An entry of the table is a conversion the build has, and NUL has none.
LEMMA ConvTyped ==
  ASSUME TypeOK, NEW c, ConvOf(c) # NONE
  PROVE  /\ ConvOf(c) \in Convs
         /\ c # NUL
         /\ ~build["binary"] => ConvOf(c) # "BINARY"
         /\ ~build["writeback"] => ConvOf(c) # "WRITEBACK"
         /\ ~build["float"] => ConvOf(c) \notin FloatConvs
<1>1. /\ ConvOf(c) \in Convs /\ c # NUL
  BY DEF ConvOf, Convs, IntConvs, FloatConvs, NONE, NUL
<1>2. /\ ~build["binary"] => ConvOf(c) # "BINARY"
      /\ ~build["writeback"] => ConvOf(c) # "WRITEBACK"
  BY DEF ConvOf, NONE
<1>3. ~build["float"] => ConvOf(c) \notin FloatConvs
  BY BuildTyped DEF ConvOf, FloatConvs, NONE
<1> QED
  BY <1>1, <1>2, <1>3

LEMMA LmTyped ==
  ASSUME NEW n
  PROVE  LmOfW(n) \in {"hh", "h", NONE, "l", Widest}
BY DEF LmOfW, LmOf

LEMMA DigitTyped == \A c \in DigitSet : DigitVals[c] \in Nat /\ c # NUL
<1>1. DigitSet = {"0", "1", "2", "3", "4", "5", "6", "7", "8", "9"}
  BY DEF DigitSet, DigitVals
<1> SUFFICES ASSUME NEW c \in DigitSet PROVE DigitVals[c] \in Nat /\ c # NUL
  OBVIOUS
<1>2. c # NUL
  BY <1>1 DEF NUL
<1>3. DigitVals[c] \in Nat
  BY <1>1 DEF DigitVals
<1> QED
  BY <1>2, <1>3

\* Reading a character: it is the one at the cursor, and nothing read before changes.
LEMMA Reading ==
  ASSUME TypeOK, CursorInv, NEW c, Reads(c)
  PROVE  /\ fmt' \in Seq(Chars \cup {NUL})
         /\ cur \in 1..Len(fmt') /\ fmt'[cur] = c
         /\ \A k \in 1..Len(fmt) : k <= Len(fmt') /\ fmt'[k] = fmt[k]
         /\ \A k \in 1..(Len(fmt') - 1) : fmt'[k] # NUL
         /\ cur = Len(fmt') \/ fmt' = fmt
<1> USE DEF TypeOK
<1>1. CASE cur <= Len(fmt) /\ fmt[cur] = c /\ UNCHANGED fmt
  BY <1>1 DEF CursorInv
<1>2. CASE cur > Len(fmt) /\ c \in Chars \cup {NUL} /\ fmt' = Append(fmt, c)
  <2>1. cur = Len(fmt) + 1
    BY <1>2 DEF CursorInv
  <2>2. /\ Len(fmt') = Len(fmt) + 1 /\ fmt'[Len(fmt) + 1] = c
        /\ fmt' \in Seq(Chars \cup {NUL})
        /\ \A k \in 1..Len(fmt) : fmt'[k] = fmt[k]
    BY <1>2
  <2>3. \A k \in 1..Len(fmt) : fmt[k] # NUL
    <3>1. fmt = <<>> \/ fmt[Len(fmt)] # NUL
      BY <1>2 DEF CursorInv, NeverPastNul
    <3>2. fmt = <<>> => Len(fmt) = 0
      OBVIOUS
    <3> QED
      BY <3>1, <3>2 DEF CursorInv
  <2> QED
    BY <2>1, <2>2, <2>3
<1>3. c \in Chars \cup {NUL} \/ cur <= Len(fmt)
  BY CharsAssumption DEF Reads
<1> QED
  BY <1>1, <1>2, CharsAssumption DEF Reads

-----------------------------------------------------------------------------
(* The shapes of a step, as far as the cursor and the items go. *)

\* Inside the parser: the cursor stays, or passes a character that is not the NUL.
Walks(c) == /\ pc \in InParser /\ pc' \in InParser /\ Reads(c)
            /\ cur' = cur \/ (cur' = cur + 1 /\ c # NUL)
            /\ UNCHANGED <<start, items>>
Fails(c) == /\ pc \in InParser /\ pc' = "fetch" /\ Reads(c)
            /\ cur' = start + 1
            /\ items' = Append(items, Verbatim(start)) /\ UNCHANGED start
Succeeds(c) == /\ Conv(c) /\ ConvOf(c) # NONE
               /\ pc \in InParser /\ pc' = "fetch" /\ Reads(c) /\ c # NUL
               /\ cur' = cur + 1 /\ UNCHANGED start
               /\ items' = Append(items, [at |-> start, len |-> cur + 1 - start,
                                          parsed |-> TRUE, spec |-> fs'])
Prints(c) == /\ pc = "fetch" /\ pc' = "fetch" /\ Reads(c) /\ c # NUL
             /\ cur' = cur + 1 /\ UNCHANGED start
             /\ items' = Append(items, Verbatim(cur))
Opens == /\ pc = "fetch" /\ pc' = "flags" /\ Reads("%")
         /\ cur' = cur + 1 /\ start' = cur /\ UNCHANGED items
Ends == /\ pc = "fetch" /\ pc' = "done" /\ Reads(NUL) /\ UNCHANGED <<cur, start, items>>

\* Every step has one of the shapes.
LEMMA Shapes ==
  ASSUME TypeOK, CursorInv, [Next]_vars
  PROVE  \/ \E c : Walks(c) \/ Fails(c) \/ Succeeds(c) \/ Prints(c)
         \/ Opens \/ Ends
         \/ UNCHANGED vars
<1> USE DEF InParser, Places, Advance, Goto
<1>1. ASSUME NEW c, FetchChar(c) PROVE Prints(c)
  BY <1>1 DEF FetchChar, Prints
<1>2. FetchEnd => Ends
  BY DEF FetchEnd, Ends
<1>3. Percent => Opens
  BY DEF Percent, Opens
<1>4. ASSUME NEW c, Flag(c) PROVE Walks(c)
  BY <1>4 DEF Flag, IsFlag, Walks, NUL, SPACE
<1>5. ASSUME NEW c, FlagsEnd(c) PROVE Walks(c)
  BY <1>5 DEF FlagsEnd, Walks
<1>6. ASSUME NEW c, Width(c) PROVE Walks(c)
  BY <1>6 DEF Width, Walks, NUL
<1>7. ASSUME NEW c, NumDigit(c) PROVE Walks(c)
  BY <1>7, DigitTyped DEF NumDigit, Walks
<1>8. ASSUME NEW c, NumEnd(c) PROVE Walks(c)
  BY <1>8 DEF NumEnd, Walks
<1>9. ASSUME NEW c, Dot(c) PROVE Walks(c)
  BY <1>9 DEF Dot, Walks, NUL
<1>10. ASSUME NEW c, Prec(c) PROVE Walks(c)
  BY <1>10 DEF Prec, Walks, NUL
<1>11. ASSUME NEW c, LenMod(c) PROVE Walks(c)
  <2>1. /\ pc = "lenmod" /\ Reads(c) /\ UNCHANGED <<start, items>>
        /\ pc' \in {"fast", "twice", "conv"}
        /\ cur' = cur \/ (cur' = cur + 1 /\ c \in {"w", "h", "l", "L", "j", "z", "t"})
    BY <1>11 DEF LenMod
  <2> QED
    BY <2>1 DEF Walks, NUL
<1>12. ASSUME NEW c, Twice(c) PROVE Walks(c)
  <2>1. fs.length_modifier # NUL
    BY <1>12 DEF Twice, CursorInv
  <2> QED
    BY <1>12, <2>1 DEF Twice, Walks
<1>13. ASSUME NEW c, Fast(c) PROVE Walks(c)
  BY <1>13 DEF Fast, Walks, NUL
<1>14. ASSUME NEW c, Bits(c) PROVE Walks(c) \/ Fails(c)
  <2>1. CASE Fail
    BY <1>14, <2>1 DEF Bits, Fail, Fails
  <2>2. CASE ~Fail
    <3>1. /\ pc = "bits" /\ Reads(c) /\ UNCHANGED <<start, items>>
          /\ pc' \in {"conv", "confirm"}
          /\ cur' = cur + 1 /\ c \in {"8", "1", "3", "6"}
      BY <1>14, <2>2 DEF Bits
    <3> QED
      BY <3>1 DEF Walks, NUL
  <2> QED
    BY <2>1, <2>2
<1>15. ASSUME NEW c, Confirm(c) PROVE Walks(c) \/ Fails(c)
  <2>1. second # NUL
    BY <1>15 DEF Confirm, CursorInv
  <2> QED
    BY <1>15, <2>1 DEF Confirm, Fail, Fails, Walks
<1>16. ASSUME NEW c, Conv(c) PROVE Fails(c) \/ Succeeds(c)
  <2>1. CASE ConvOf(c) = NONE
    BY <1>16, <2>1 DEF Conv, Fail, Fails
  <2>2. CASE ConvOf(c) # NONE
    BY <1>16, <2>2, ConvTyped DEF Conv, Succeeds
  <2> QED
    BY <2>1, <2>2
<1> QED
  BY <1>1, <1>2, <1>3, <1>4, <1>5, <1>6, <1>7, <1>8, <1>9, <1>10, <1>11, <1>12,
     <1>13, <1>14, <1>15, <1>16 DEF Next, Fetch, Parse, Done

-----------------------------------------------------------------------------
(* The cursor. *)

\* What the steps that remember a character remember is not the NUL.
LEMMA Remembered ==
  ASSUME TypeOK, CursorInv, [Next]_vars
  PROVE  /\ pc' = "twice" => fs'.length_modifier # NUL
         /\ pc' = "confirm" => second' # NUL
<1> USE DEF Goto
<1>1. ASSUME NEW c, LenMod(c) PROVE pc' = "twice" => fs'.length_modifier # NUL
  <2>1. pc' = "twice" => fs' = [fs EXCEPT !.length_modifier = "h"]
                         \/ fs' = [fs EXCEPT !.length_modifier = "l"]
    BY <1>1 DEF LenMod, SetMod
  <2> QED
    BY <2>1 DEF TypeOK, FormatSpec, NUL
<1>2. ASSUME NEW c, LenMod(c) PROVE pc' # "confirm"
  BY <1>2 DEF LenMod
<1>3. ASSUME NEW c, Bits(c) PROVE pc' # "twice" /\ (pc' = "confirm" => second' # NUL)
  BY <1>3 DEF Bits, Fail, NUL
<1>4. ASSUME NEW c, Parse(c), ~LenMod(c), ~Bits(c) PROVE pc' \notin {"twice", "confirm"}
  <2>1. Flag(c) => pc' = "flags"
    BY DEF Flag
  <2>2. FlagsEnd(c) => pc' \in {"width", "dot"}
    BY DEF FlagsEnd
  <2>3. Width(c) => pc' \in {"dot", "widthnum"}
    BY DEF Width
  <2>4. NumDigit(c) => pc' \in {"widthnum", "precnum"}
    BY DEF NumDigit
  <2>5. NumEnd(c) => pc' \in {"dot", "lenmod"}
    BY DEF NumEnd
  <2>6. Dot(c) => pc' \in {"prec", "lenmod"}
    BY DEF Dot
  <2>7. Prec(c) => pc' \in {"lenmod", "precnum"}
    BY DEF Prec
  <2>8. Twice(c) => pc' = "conv"
    BY DEF Twice
  <2>9. Fast(c) => pc' = "bits"
    BY DEF Fast
  <2>10. Confirm(c) => pc' \in {"conv", "fetch"}
    BY DEF Confirm, Fail
  <2>11. Conv(c) => pc' = "fetch"
    BY DEF Conv, Fail
  <2> QED
    BY <1>4, <2>1, <2>2, <2>3, <2>4, <2>5, <2>6, <2>7, <2>8, <2>9, <2>10, <2>11 DEF Parse
<1>5. ASSUME NEW c, Fetch(c) PROVE pc' \notin {"twice", "confirm"}
  BY <1>5 DEF Fetch, FetchChar, FetchEnd, Percent
<1>6. CASE UNCHANGED vars \/ Done
  BY <1>6 DEF vars, CursorInv, Done
<1> QED
  BY <1>1, <1>2, <1>3, <1>4, <1>5, <1>6 DEF Next

LEMMA CursorStep ==
  ASSUME TypeOK, CursorInv, [Next]_vars
  PROVE  CursorInv'
<1> DEFINE Inside == /\ \A k \in 1..(Len(fmt') - 1) : fmt'[k] # NUL
                     /\ cur' <= Len(fmt') + 1
                     /\ NeverPastNul'
                     /\ pc' \in InParser => start' < cur' /\ fmt'[start'] = "%"
                     /\ pc' = "done" => cur' = Len(fmt') /\ fmt'[cur'] = NUL
<1>0. /\ "fetch" \notin InParser /\ "done" \notin InParser /\ "%" # NUL
  BY DEF InParser, NUL
<1> USE DEF TypeOK
<1>1. ASSUME NEW c, Reads(c), c # NUL, cur' = cur + 1, pc' # "done",
             pc' \in InParser => start' \in Nat /\ start' <= cur /\ fmt'[start'] = "%"
      PROVE  Inside
  <2>1. /\ cur \in 1..Len(fmt') /\ fmt'[cur] = c /\ fmt' \in Seq(Chars \cup {NUL})
        /\ \A k \in 1..(Len(fmt') - 1) : fmt'[k] # NUL
    BY <1>1, Reading
  <2>2. Len(fmt') \in Nat
    BY <2>1
  <2>3. NeverPastNul'
    BY <1>1, <2>1, <2>2 DEF NeverPastNul
  <2> QED
    BY <1>1, <2>1, <2>2, <2>3
<1>2. ASSUME NEW c, Walks(c) PROVE Inside
  <2>1. start < cur /\ fmt[start] = "%" /\ start' = start /\ Reads(c) /\ cur <= Len(fmt) + 1
    BY <1>2 DEF Walks, CursorInv
  <2>2. /\ cur \in 1..Len(fmt') /\ fmt' \in Seq(Chars \cup {NUL})
        /\ \A k \in 1..(Len(fmt') - 1) : fmt'[k] # NUL
        /\ \A k \in 1..Len(fmt) : fmt'[k] = fmt[k]
    BY <2>1, Reading
  <2>3. fmt'[start'] = "%"
    BY <2>1, <2>2
  <2>4. CASE cur' = cur
    <3>1. Len(fmt') \in Nat
      BY <2>2
    <3>2. NeverPastNul'
      BY <2>2, <2>4, <3>1 DEF NeverPastNul
    <3> QED
      BY <1>0, <1>2, <2>1, <2>2, <2>3, <2>4, <3>1, <3>2 DEF Walks
  <2>5. CASE cur' = cur + 1 /\ c # NUL
    <3>1. pc' # "done"
      BY <1>0, <1>2 DEF Walks
    <3> QED
      BY <1>1, <2>1, <2>3, <2>5, <3>1
  <2> QED
    BY <1>2, <2>4, <2>5 DEF Walks
<1>3. ASSUME NEW c, Fails(c) PROVE Inside
  <2>1. start < cur /\ fmt[start] = "%" /\ Reads(c) /\ cur' = start + 1 /\ pc' = "fetch"
        /\ cur <= Len(fmt) + 1
    BY <1>3 DEF Fails, CursorInv
  <2>2. /\ cur \in 1..Len(fmt') /\ fmt' \in Seq(Chars \cup {NUL})
        /\ \A k \in 1..(Len(fmt') - 1) : fmt'[k] # NUL
        /\ \A k \in 1..Len(fmt) : fmt'[k] = fmt[k]
    BY <2>1, Reading
  <2>3. fmt'[start] = "%" /\ Len(fmt') \in Nat
    BY <2>1, <2>2
  <2>4. NeverPastNul'
    BY <1>0, <2>1, <2>2, <2>3 DEF NeverPastNul
  <2> QED
    BY <1>0, <2>1, <2>2, <2>3, <2>4
<1>4. ASSUME NEW c, Succeeds(c) \/ Prints(c) PROVE Inside
  BY <1>0, <1>1, <1>4 DEF Succeeds, Prints
<1>5. ASSUME Opens PROVE Inside
  <2>1. Reads("%") /\ cur' = cur + 1 /\ start' = cur /\ pc' # "done"
    BY <1>5 DEF Opens
  <2>2. fmt'[start'] = "%" /\ start' \in Nat /\ start' <= cur
    BY <2>1, Reading
  <2> QED
    BY <1>0, <1>1, <2>1, <2>2
<1>6. ASSUME Ends PROVE Inside
  <2>1. Reads(NUL) /\ cur' = cur /\ pc' = "done"
    BY <1>6 DEF Ends
  <2>2. /\ cur \in 1..Len(fmt') /\ fmt'[cur] = NUL /\ fmt' \in Seq(Chars \cup {NUL})
        /\ \A k \in 1..(Len(fmt') - 1) : fmt'[k] # NUL
    BY <2>1, Reading
  <2>3. cur = Len(fmt') /\ Len(fmt') \in Nat
    BY <2>2
  <2>4. NeverPastNul'
    BY <2>1, <2>2 DEF NeverPastNul
  <2>5. cur' = Len(fmt') /\ fmt'[cur'] = NUL
    BY <2>1, <2>2, <2>3
  <2>6. pc' \notin InParser /\ cur' <= Len(fmt') + 1
    BY <1>0, <2>1, <2>3
  <2> QED
    BY <2>2, <2>4, <2>5, <2>6
<1>7. ASSUME UNCHANGED vars PROVE Inside
  BY <1>7 DEF vars, CursorInv, NeverPastNul
<1> HIDE DEF Inside
<1>8. Inside
  <2>1. \/ \E c : Walks(c) \/ Fails(c) \/ Succeeds(c) \/ Prints(c)
        \/ Opens \/ Ends
        \/ UNCHANGED vars
    BY Shapes
  <2> QED
    BY <1>2, <1>3, <1>4, <1>5, <1>6, <1>7, <2>1
<1> QED
  BY <1>8, Remembered DEF CursorInv, Inside

-----------------------------------------------------------------------------
(* The struct. *)

\* What holds of fs all along the walk, and what each place adds to it.
Later == {"prec", "precnum", "lenmod", "twice", "fast", "bits", "confirm", "conv"}
FsFits ==
  /\ ~build["width"] => /\ fs.field_width_opt = NONE /\ fs.field_width >= 0
                        /\ ~fs.left_justified /\ ~fs.leading_zero_pad
  /\ ~build["prec"] => fs.prec_opt = NONE /\ fs.prec >= 0
  /\ ~build["alt"] => ~fs.alt_form
  /\ ~build["float"] => fs.length_modifier # "L"
  /\ ~build["small"] => fs.length_modifier \notin {"h", "hh"}
  /\ ~build["large"] => fs.length_modifier \notin {"ll", "j", "z", "t"}
PlaceFits ==
  /\ pc \in {"width", "widthnum"} => build["width"]
  /\ pc \in {"prec", "precnum"} => build["prec"]
  /\ pc \in {"fast", "bits", "confirm"} => build["fixed"]
  /\ pc = "twice" => \/ fs.length_modifier = "h"
                     \/ fs.length_modifier = "l" /\ build["large"]
  /\ pc \in Later \cup {"dot"} /\ fs.field_width_opt = NONE => fs.field_width >= 0
  /\ pc \in Later => fs.prec >= 0
FsInv == fs \in FormatSpec /\ FsFits /\ PlaceFits

LEMMA FsStep ==
  ASSUME TypeOK, CursorInv, FsInv, [Next]_vars
  PROVE  build' = build /\ FsInv'
<1> USE DEF FsInv, FsFits, PlaceFits, Later, FormatSpec, Goto
<1>0. \A o \in {"width", "prec", "alt", "small", "large", "float", "fixed"} : build[o] \in BOOLEAN
  BY BuildTyped DEF Options
<1>1. ASSUME NEW c, FetchChar(c) PROVE build' = build /\ FsInv'
  BY <1>1 DEF FetchChar
<1>2. ASSUME FetchEnd PROVE build' = build /\ FsInv'
  BY <1>2 DEF FetchEnd
<1>3. ASSUME Percent PROVE build' = build /\ FsInv'
  BY <1>3 DEF Percent
<1>4. ASSUME NEW c, Flag(c) PROVE build' = build /\ FsInv'
  <2>1. pc = "flags" /\ pc' = "flags" /\ build' = build
    BY <1>4 DEF Flag
  <2>2. CASE c = "-"
    BY <1>4, <2>1, <2>2 DEF Flag, IsFlag, SPACE
  <2>3. CASE c = "0"
    BY <1>4, <2>1, <2>3 DEF Flag, IsFlag, SPACE
  <2>4. CASE c = "#"
    BY <1>4, <2>1, <2>4 DEF Flag, IsFlag, SPACE
  <2>5. CASE c \in {"+", SPACE}
    <3>1. fs' = fs \/ fs' = [fs EXCEPT !.prepend = c]
      BY <1>4, <2>5 DEF Flag, SPACE
    <3> QED
      BY <2>1, <2>5, <3>1
  <2> QED
    BY <1>4, <2>2, <2>3, <2>4, <2>5 DEF Flag, IsFlag
<1>5. ASSUME NEW c, FlagsEnd(c) PROVE build' = build /\ FsInv'
  BY <1>5 DEF FlagsEnd
<1>6. ASSUME NEW c, Width(c) PROVE build' = build /\ FsInv'
  BY <1>6 DEF Width, STAR, NONE
<1>7. ASSUME NEW c, NumDigit(c) PROVE build' = build /\ FsInv'
  BY <1>7 DEF NumDigit
<1>8. ASSUME NEW c, NumEnd(c) PROVE build' = build /\ FsInv'
  <2>1. num \in Nat /\ pc \in {"widthnum", "precnum"} /\ build' = build
    BY <1>8 DEF NumEnd, TypeOK
  <2>2. CASE pc = "widthnum"
    <3>1. fs' = [fs EXCEPT !.field_width = num] /\ pc' = "dot"
      BY <1>8, <2>2 DEF NumEnd
    <3> QED
      BY <2>1, <2>2, <3>1
  <2>3. CASE pc = "precnum"
    <3>1. fs' = [fs EXCEPT !.prec = num] /\ pc' = "lenmod"
      BY <1>8, <2>3 DEF NumEnd
    <3> QED
      BY <2>1, <2>3, <3>1
  <2> QED
    BY <2>1, <2>2, <2>3
<1>9. ASSUME NEW c, Dot(c) PROVE build' = build /\ FsInv'
  <2>1. pc = "dot" /\ build' = build
        /\ pc' \in {"prec", "lenmod"} /\ (pc' = "prec" => build["prec"])
    BY <1>9 DEF Dot
  <2>2. CASE build["prec"]
    <3>1. fs' = [fs EXCEPT !.prec = 0, !.prec_opt = NONE]
      BY <1>9, <2>2 DEF Dot
    <3>2. fs' \in FormatSpec
      <4>1. [fs EXCEPT !.prec = 0] \in FormatSpec
        OBVIOUS
      <4>2. \A g \in FormatSpec : [g EXCEPT !.prec_opt = NONE] \in FormatSpec
        OBVIOUS
      <4>3. fs' = [[fs EXCEPT !.prec = 0] EXCEPT !.prec_opt = NONE]
        BY <3>1
      <4> QED
        BY <4>1, <4>2, <4>3
    <3>3. FsFits'
      BY <2>1, <2>2, <3>1
    <3>4. PlaceFits'
      BY <2>1, <2>2, <3>1
    <3> QED
      BY <2>1, <3>2, <3>3, <3>4
  <2>3. CASE ~build["prec"]
    BY <1>9, <2>1, <2>3 DEF Dot
  <2> QED
    BY <2>2, <2>3
<1>10. ASSUME NEW c, Prec(c) PROVE build' = build /\ FsInv'
  BY <1>10 DEF Prec
<1>11. ASSUME NEW c, LenMod(c) PROVE build' = build /\ FsInv'
  BY <1>11 DEF LenMod, SetMod, LenMods, NONE
<1>12. ASSUME NEW c, Twice(c) PROVE build' = build /\ FsInv'
  BY <1>12 DEF Twice, SetMod, LenMods
<1>13. ASSUME NEW c, Fast(c) PROVE build' = build /\ FsInv'
  BY <1>13 DEF Fast
<1>14. ASSUME NEW c, Bits(c) PROVE build' = build /\ FsInv'
  BY <1>14, LmTyped, BuildTyped DEF Bits, Fail, SetMod, LenMods, Widest, NONE
<1>15. ASSUME NEW c, Confirm(c) PROVE build' = build /\ FsInv'
  BY <1>15 DEF Confirm, Fail
<1>16. ASSUME NEW c, Conv(c) PROVE build' = build /\ FsInv'
  <2>1. CASE ConvOf(c) = NONE
    BY <1>16, <2>1 DEF Conv, Fail
  <2>2. CASE ConvOf(c) # NONE
    <3>1. ConvOf(c) \in Convs
      BY <2>2, ConvTyped
    <3>2. /\ pc' = "fetch" /\ build' = build
          /\ fs' = [fs EXCEPT !.conv_spec = ConvOf(c),
                             !.case_adjust = IF IsUpper(c) THEN 0 ELSE 32]
      BY <1>16, <2>2 DEF Conv
    <3> QED
      BY <3>1, <3>2
  <2> QED
    BY <2>1, <2>2
<1>17. ASSUME UNCHANGED vars PROVE build' = build /\ FsInv'
  BY <1>17 DEF vars
<1> QED
  BY <1>1, <1>2, <1>3, <1>4, <1>5, <1>6, <1>7, <1>8, <1>9, <1>10, <1>11, <1>12,
     <1>13, <1>14, <1>15, <1>16, <1>17 DEF Next, Fetch, Parse, Done

-----------------------------------------------------------------------------
(* Types. *)

LEMMA LocalsStep ==
  ASSUME TypeOK, [Next]_vars
  PROVE  num' \in Nat /\ fast' \in BOOLEAN /\ second' \in {NUL, "6", "2", "4"}
<1> USE DEF TypeOK
<1>1. ASSUME NEW c, NumDigit(c) PROVE num' \in Nat /\ UNCHANGED <<fast, second>>
  <2>1. DigitVals[c] \in Nat /\ num \in Nat
    BY <1>1, DigitTyped DEF NumDigit
  <2> QED
    BY <1>1, <2>1 DEF NumDigit
<1>2. ASSUME NEW c, Width(c) \/ Prec(c) PROVE num' = 0 /\ UNCHANGED <<fast, second>>
  BY <1>2 DEF Width, Prec
<1>3. ASSUME NEW c, Fast(c) PROVE fast' \in BOOLEAN /\ UNCHANGED <<num, second>>
  BY <1>3 DEF Fast
<1>4. ASSUME NEW c, Bits(c) PROVE second' \in {second, "6", "2", "4"} /\ UNCHANGED <<num, fast>>
  BY <1>4 DEF Bits
<1>5. ASSUME NEW c, Fetch(c) \/ Flag(c) \/ FlagsEnd(c) \/ NumEnd(c) \/ Dot(c) \/ LenMod(c)
                    \/ Twice(c) \/ Confirm(c) \/ Conv(c)
      PROVE  UNCHANGED <<num, fast, second>>
  BY <1>5 DEF Fetch, FetchChar, FetchEnd, Percent, Flag, FlagsEnd, NumEnd, Dot, LenMod,
              Twice, Confirm, Conv
<1>6. CASE UNCHANGED vars
  BY <1>6 DEF vars
<1> QED
  BY <1>1, <1>2, <1>3, <1>4, <1>5, <1>6 DEF Next, Parse, Done

LEMMA VerbatimTyped == \A p \in Nat : Verbatim(p) \in Item /\ Verbatim(p).at = p
                                      /\ Verbatim(p).len = 1 /\ ~Verbatim(p).parsed
<1>1. Empty \in FormatSpec
  BY DEF Empty, FormatSpec, LenMods, Convs
<1> QED
  BY <1>1 DEF Verbatim, Item

\* A step adds at most one item, of known place and length.
LEMMA ItemStep ==
  ASSUME TypeOK, CursorInv, FsInv, [Next]_vars
  PROVE  \/ items' = items
         \/ \E x \in Item : /\ items' = Append(items, x)
                            /\ x.parsed => x.spec = fs' /\ \E c : Succeeds(c)
<1>1. fs' \in FormatSpec
  BY FsStep DEF FsInv
<1>2. cur \in Nat /\ start \in Nat
  BY DEF TypeOK
<1>3. ASSUME NEW c, Succeeds(c)
      PROVE  \E x \in Item : items' = Append(items, x) /\ x.spec = fs'
  <2>1. cur + 1 - start \in Nat
    BY <1>2, <1>3 DEF Succeeds, CursorInv
  <2> DEFINE x == [at |-> start, len |-> cur + 1 - start, parsed |-> TRUE, spec |-> fs']
  <2>2. x \in Item /\ x.spec = fs'
    BY <1>1, <1>2, <2>1 DEF Item
  <2>3. items' = Append(items, x)
    BY <1>3 DEF Succeeds
  <2> QED
    BY <2>2, <2>3
<1>4. ASSUME NEW c, Fails(c) \/ Prints(c)
      PROVE  \E x \in Item : items' = Append(items, x) /\ ~x.parsed
  <2>1. items' = Append(items, Verbatim(start)) \/ items' = Append(items, Verbatim(cur))
    BY <1>4 DEF Fails, Prints
  <2> QED
    BY <1>2, <2>1, VerbatimTyped
<1>5. (\E c : Succeeds(c)) \/ (\E c : Fails(c) \/ Prints(c)) \/ items' = items
  <2>1. ASSUME NEW c, Walks(c) PROVE items' = items
    BY <2>1 DEF Walks
  <2>2. Opens \/ Ends \/ UNCHANGED vars => items' = items
    BY DEF Opens, Ends, vars
  <2> QED
    BY <2>1, <2>2, Shapes
<1>6. CASE \E c : Succeeds(c)
  <2>1. \E x \in Item : items' = Append(items, x) /\ x.spec = fs'
    BY <1>3, <1>6
  <2> QED
    BY <1>6, <2>1
<1>7. CASE \E c : Fails(c) \/ Prints(c)
  <2>1. \E x \in Item : items' = Append(items, x) /\ ~x.parsed
    BY <1>4, <1>7
  <2> QED
    BY <2>1
<1> QED
  BY <1>5, <1>6, <1>7

LEMMA TypeStep ==
  ASSUME TypeOK, CursorInv, FsInv, [Next]_vars
  PROVE  TypeOK'
<1>1. fs' \in FormatSpec /\ build' \in Builds
  BY FsStep DEF FsInv, TypeOK
<1>2. items' \in Seq(Item)
  <2>1. items \in Seq(Item)
    BY DEF TypeOK
  <2> QED
    BY <2>1, ItemStep
<1>3. fmt' \in Seq(Chars \cup {NUL})
  <2>1. ASSUME NEW c, Reads(c) PROVE fmt' \in Seq(Chars \cup {NUL})
    BY <2>1, Reading
  <2>2. (\E c : Reads(c)) \/ UNCHANGED vars
    BY Shapes DEF Walks, Fails, Succeeds, Prints, Opens, Ends
  <2> QED
    BY <2>1, <2>2 DEF TypeOK, vars
<1>4. pc' \in Places /\ cur' \in Nat \ {0} /\ start' \in Nat \ {0}
  BY Shapes DEF Walks, Fails, Succeeds, Prints, Opens, Ends, vars, TypeOK, InParser, Places
<1> QED
  BY <1>1, <1>2, <1>3, <1>4, LocalsStep DEF TypeOK

-----------------------------------------------------------------------------
(* The items. *)

Covers(s, e) ==
  /\ \A k \in 1..(Len(s) - 1) : s[k + 1].at = s[k].at + s[k].len
  /\ s # <<>> => s[1].at = 1 /\ e = s[Len(s)].at + s[Len(s)].len
  /\ s = <<>> => e = 1

LEMMA Extend ==
  ASSUME NEW s \in Seq(Item), NEW x \in Item, Covers(s, x.at)
  PROVE  Covers(Append(s, x), x.at + x.len)
<1> DEFINE t == Append(s, x)
<1>1. /\ Len(t) = Len(s) + 1 /\ t[Len(s) + 1] = x /\ t # <<>>
      /\ \A k \in 1..Len(s) : t[k] = s[k]
      /\ Len(s) \in Nat
  OBVIOUS
<1>2. s = <<>> \/ Len(s) >= 1
  OBVIOUS
<1> HIDE DEF t
<1>3. t[1].at = 1
  BY <1>1, <1>2 DEF Covers
<1>4. ASSUME NEW k \in 1..(Len(t) - 1) PROVE t[k + 1].at = t[k].at + t[k].len
  <2>1. CASE k = Len(s)
    BY <1>1, <1>2, <2>1 DEF Covers
  <2>2. CASE k # Len(s)
    BY <1>1, <2>2 DEF Covers
  <2> QED
    BY <2>1, <2>2
<1>5. Covers(t, x.at + x.len)
  BY <1>1, <1>3, <1>4 DEF Covers
<1> QED
  BY <1>5 DEF t

Front == IF pc \in {"fetch", "done"} THEN cur ELSE start

LEMMA TilesCovers == Tiles <=> Covers(items, Front) /\ (pc = "done" => fmt[cur] = NUL)
BY DEF Tiles, Covers, Front

LEMMA TilesStep ==
  ASSUME TypeOK, CursorInv, FsInv, Tiles, [Next]_vars
  PROVE  Tiles'
<1>1. Covers(items, Front) /\ items \in Seq(Item) /\ cur \in Nat /\ start \in Nat
  BY TilesCovers DEF TypeOK
<1>2. "fetch" \notin InParser /\ "done" \notin InParser
  BY DEF InParser
<1>3. Covers(items', Front')
  <2>1. ASSUME NEW c, Walks(c) PROVE Covers(items', Front')
    <3>1. items' = items /\ Front = start /\ Front' = start
      BY <1>2, <2>1 DEF Walks, Front
    <3> QED
      BY <1>1, <3>1
  <2>2. ASSUME NEW c, Fails(c) PROVE Covers(items', Front')
    <3>1. items' = Append(items, Verbatim(start)) /\ Front = start /\ Front' = start + 1
      BY <1>2, <2>2 DEF Fails, Front
    <3>2. Verbatim(start) \in Item /\ Verbatim(start).at = start /\ Verbatim(start).len = 1
      BY <1>1, VerbatimTyped
    <3>3. Covers(items, Verbatim(start).at)
      BY <1>1, <3>1, <3>2
    <3>4. Covers(items', Verbatim(start).at + Verbatim(start).len)
      BY <1>1, <3>1, <3>2, <3>3, Extend
    <3> QED
      BY <3>1, <3>2, <3>4
  <2>3. ASSUME NEW c, Prints(c) PROVE Covers(items', Front')
    <3>1. items' = Append(items, Verbatim(cur)) /\ Front = cur /\ Front' = cur + 1
      BY <2>3 DEF Prints, Front
    <3>2. Verbatim(cur) \in Item /\ Verbatim(cur).at = cur /\ Verbatim(cur).len = 1
      BY <1>1, VerbatimTyped
    <3>3. Covers(items, Verbatim(cur).at)
      BY <1>1, <3>1, <3>2
    <3>4. Covers(items', Verbatim(cur).at + Verbatim(cur).len)
      BY <1>1, <3>1, <3>2, <3>3, Extend
    <3> QED
      BY <3>1, <3>2, <3>4
  <2>4. ASSUME NEW c, Succeeds(c) PROVE Covers(items', Front')
    <3> DEFINE x == [at |-> start, len |-> cur + 1 - start, parsed |-> TRUE, spec |-> fs']
    <3>1. items' = Append(items, x) /\ Front = start /\ Front' = cur + 1
      BY <1>2, <2>4 DEF Succeeds, Front
    <3>2. cur + 1 - start \in Nat /\ fs' \in FormatSpec
      BY <1>1, <2>4, FsStep DEF Succeeds, CursorInv, FsInv
    <3>3. x \in Item /\ x.at = start /\ x.len = cur + 1 - start
      BY <1>1, <3>2 DEF Item
    <3> HIDE DEF x
    <3>4. Covers(items', x.at + x.len)
      BY <1>1, <3>1, <3>3, Extend
    <3>5. x.at + x.len = cur + 1
      BY <1>1, <3>3
    <3> QED
      BY <3>1, <3>4, <3>5
  <2>5. ASSUME Opens \/ Ends PROVE Covers(items', Front')
    <3>1. items' = items /\ Front = cur /\ Front' = cur
      BY <2>5 DEF Opens, Ends, Front
    <3> QED
      BY <1>1, <3>1
  <2>6. ASSUME UNCHANGED vars PROVE Covers(items', Front')
    BY <1>1, <2>6 DEF vars, Front
  <2> QED
    BY <2>1, <2>2, <2>3, <2>4, <2>5, <2>6, Shapes
<1>4. pc' = "done" => fmt'[cur'] = NUL
  BY CursorStep DEF CursorInv
<1> QED
  BY <1>3, <1>4 DEF Tiles, Covers, Front

LEMMA ConvFits ==
  ASSUME TypeOK, FsInv, NEW c, Conv(c), ConvOf(c) # NONE
  PROVE  FitsBuild(fs')
<1>1. /\ pc = "conv" /\ build' = build
      /\ fs' = [fs EXCEPT !.conv_spec = ConvOf(c),
                          !.case_adjust = IF IsUpper(c) THEN 0 ELSE 32]
  BY DEF Conv
<1>2. /\ fs'.conv_spec = ConvOf(c)
      /\ fs'.field_width = fs.field_width /\ fs'.field_width_opt = fs.field_width_opt
      /\ fs'.left_justified = fs.left_justified
      /\ fs'.leading_zero_pad = fs.leading_zero_pad
      /\ fs'.prec = fs.prec /\ fs'.prec_opt = fs.prec_opt /\ fs'.alt_form = fs.alt_form
      /\ fs'.length_modifier = fs.length_modifier
  BY <1>1 DEF FsInv, FormatSpec
<1>3. /\ fs.field_width_opt = NONE => fs.field_width >= 0
      /\ fs.prec >= 0
  BY <1>1 DEF FsInv, PlaceFits, Later
<1>4. FsFits
  BY DEF FsInv
<1> QED
  BY <1>2, <1>3, <1>4, ConvTyped DEF FitsBuild, FsFits

LEMMA HandsOnStep ==
  ASSUME TypeOK, CursorInv, FsInv, HandsOnParsable, [Next]_vars
  PROVE  HandsOnParsable'
<1> DEFINE Fit(s) == \A k \in 1..Len(s) : s[k].parsed => FitsBuild(s[k].spec)
<1>1. build' = build /\ items \in Seq(Item)
  BY FsStep DEF TypeOK
<1>2. HandsOnParsable' <=> Fit(items')
  BY <1>1 DEF HandsOnParsable, FitsBuild
<1>3. CASE items' = items
  BY <1>2, <1>3 DEF HandsOnParsable
<1>4. ASSUME NEW x \in Item, items' = Append(items, x),
             x.parsed => x.spec = fs' /\ \E c : Succeeds(c)
      PROVE  Fit(items')
  <2>1. x.parsed => FitsBuild(x.spec)
    <3>1. ASSUME NEW c, Succeeds(c) PROVE FitsBuild(fs')
      BY <3>1, ConvFits DEF Succeeds
    <3> QED
      BY <1>4, <3>1
  <2>2. \A k \in 1..Len(items) : items[k].parsed => FitsBuild(items[k].spec)
    BY DEF HandsOnParsable
  <2>3. /\ Len(items') = Len(items) + 1 /\ items'[Len(items) + 1] = x
        /\ \A k \in 1..Len(items) : items'[k] = items[k]
    BY <1>1, <1>4
  <2>4. ASSUME NEW k \in 1..Len(items'), items'[k].parsed PROVE FitsBuild(items'[k].spec)
    <3>1. CASE k = Len(items) + 1
      BY <2>1, <2>3, <2>4, <3>1
    <3>2. CASE k # Len(items) + 1
      <4>1. k \in 1..Len(items)
        BY <1>1, <2>3, <3>2
      <4>2. items'[k] = items[k]
        BY <2>3, <4>1
      <4> QED
        BY <2>2, <2>4, <4>1, <4>2
    <3> QED
      BY <3>1, <3>2
  <2> QED
    BY <2>4
<1> QED
  BY <1>2, <1>3, <1>4, ItemStep

-----------------------------------------------------------------------------
(* The walk. *)

WalkInv == TypeOK /\ CursorInv /\ FsInv /\ Tiles /\ HandsOnParsable

LEMMA WalkInit == Init => WalkInv
<1> SUFFICES ASSUME Init PROVE WalkInv
  OBVIOUS
<1>1. build \in Builds /\ fmt = <<>> /\ pc = "fetch" /\ cur = 1 /\ start = 1
      /\ num = 0 /\ fast = FALSE /\ second = NUL /\ items = <<>>
  BY DEF Init
<1>2. \A o \in Options : build[o] \in BOOLEAN
  BY <1>1, BuildsAssumption
<1>3. PICK g \in Garbage :
       fs = [field_width |-> IF build["width"] THEN g ELSE 0,
             field_width_opt |-> IF build["width"] THEN STAR ELSE NONE,
             left_justified |-> build["width"], leading_zero_pad |-> build["width"],
             prec |-> IF build["prec"] THEN g ELSE 0,
             prec_opt |-> IF build["prec"] THEN STAR ELSE NONE,
             prepend |-> "+", alt_form |-> build["alt"], case_adjust |-> 0,
             length_modifier |-> "l", conv_spec |-> "PERCENT"]
  BY DEF Init
<1>4. g \in Int
  BY CharsAssumption
<1>5. fs \in FormatSpec
  <2>1. /\ build["width"] \in BOOLEAN /\ build["prec"] \in BOOLEAN /\ build["alt"] \in BOOLEAN
    BY <1>2 DEF Options
  <2>2. /\ (IF build["width"] THEN g ELSE 0) \in Int
        /\ (IF build["prec"] THEN g ELSE 0) \in Int
        /\ (IF build["width"] THEN STAR ELSE NONE) \in {NONE, STAR}
        /\ (IF build["prec"] THEN STAR ELSE NONE) \in {NONE, LITERAL, STAR}
    BY <1>4
  <2>3. "l" \in LenMods /\ "PERCENT" \in Convs
    BY DEF LenMods, Convs
  <2> QED
    BY <1>3, <2>1, <2>2, <2>3 DEF FormatSpec
<1>6. FsInv
  <2>1. FsFits
    BY <1>3 DEF FsFits
  <2>2. PlaceFits
    BY <1>1 DEF PlaceFits, Later
  <2> QED
    BY <1>5, <2>1, <2>2 DEF FsInv
<1>7. TypeOK
  <2>1. <<>> \in Seq(Item) /\ <<>> \in Seq(Chars \cup {NUL})
    OBVIOUS
  <2>2. "fetch" \in Places
    BY DEF Places
  <2>3. num \in Nat /\ cur \in Nat \ {0} /\ start \in Nat \ {0}
    BY <1>1
  <2> QED
    BY <1>1, <1>5, <2>1, <2>2, <2>3 DEF TypeOK
<1>8. CursorInv
  BY <1>1 DEF CursorInv, NeverPastNul, InParser
<1>9. Tiles
  BY <1>1 DEF Tiles
<1>10. HandsOnParsable
  BY <1>1 DEF HandsOnParsable
<1> QED
  BY <1>6, <1>7, <1>8, <1>9, <1>10 DEF WalkInv

\* What is true all along the walk: types, the cursor inside the text, what fs may
\* hold at each place of the parser.
THEOREM WalkInvariant == Spec => []WalkInv
<1>1. WalkInv /\ [Next]_vars => WalkInv'
  BY CursorStep, FsStep, TypeStep, TilesStep, HandsOnStep DEF WalkInv
<1> QED
  BY <1>1, WalkInit, PTL DEF Spec

\* No step of the fetch loop or of npf_parse_format_spec_end reads a character
\* behind the terminating NUL (600-782, 1695-1698).
THEOREM ReadsInBounds == Spec => []NeverPastNul
<1>1. WalkInv => NeverPastNul
  BY DEF WalkInv, CursorInv
<1> QED
  BY <1>1, WalkInvariant, PTL

\* What has been printed verbatim and what has been converted tile the format, in
\* order, wherever a parse failed (1695-1701).
THEOREM NothingLost == Spec => []Tiles
<1>1. WalkInv => Tiles
  BY DEF WalkInv
<1> QED
  BY <1>1, WalkInvariant, PTL

\* A specification that reaches the conversion code is one the build supports: what
\* FormatAssumption of NpfVpprintf takes for granted.
THEOREM Discharged == Spec => []HandsOnParsable
<1>1. WalkInv => HandsOnParsable
  BY DEF WalkInv
<1> QED
  BY <1>1, WalkInvariant, PTL

-----------------------------------------------------------------------------
(* Parts of a text, by the places in the format they are part of.            *)

\* A part, character by character.
LEMMA PartOf ==
  ASSUME NEW S, NEW f \in Seq(S), NEW i \in Nat, NEW j \in Nat, i <= j, j <= Len(f)
  PROVE  /\ Part(f, i, j) \in Seq(S) /\ Len(Part(f, i, j)) = j - i
         /\ \A k \in 1..(j - i) : Part(f, i, j)[k] = f[i + k]
BY DEF Part

LEMMA PartAfter ==
  ASSUME NEW S, NEW f \in Seq(S), NEW i \in Nat, NEW j \in Nat, i < j, j <= Len(f)
  PROVE  /\ Part(f, i + 1, j) \in Seq(S) /\ Len(Part(f, i + 1, j)) = j - i - 1
         /\ \A k \in 1..(j - i - 1) : Part(f, i + 1, j)[k] = f[i + 1 + k]
BY DEF Part

\* A part of a text that is itself a part of the format.
LEMMA PartOfText ==
  ASSUME NEW S, NEW f \in Seq(S), NEW s \in 1..Len(f), NEW q \in s..Len(f),
         NEW a \in Nat, NEW b \in Nat, 1 <= a, a <= b, b <= q - s + 1
  PROVE  Part(SubSeq(f, s, q), a, b) = Part(f, s + a - 1, s + b - 1)
<1> DEFINE t == SubSeq(f, s, q)
           x == Part(t, a, b)
           y == Part(f, s + a - 1, s + b - 1)
<1>1. t \in Seq(S) /\ Len(t) = q - s + 1 /\ \A k \in 1..(q - s + 1) : t[k] = f[s + k - 1]
  OBVIOUS
<1> HIDE DEF t
<1>2. x \in Seq(S) /\ Len(x) = b - a /\ \A k \in 1..(b - a) : x[k] = t[a + k]
  <2>1. a <= b /\ b <= Len(t)
    BY <1>1
  <2> QED BY <2>1, <1>1 DEF Part
<1>3. s + a - 1 \in Nat /\ s + b - 1 \in Nat /\ s + a - 1 <= s + b - 1 /\ s + b - 1 <= Len(f)
      /\ (s + b - 1) - (s + a - 1) = b - a
  BY <1>1
<1>4. y \in Seq(S) /\ Len(y) = b - a /\ \A k \in 1..(b - a) : y[k] = f[s + a - 1 + k]
  <2> DEFINE i == s + a - 1
             j == s + b - 1
  <2>1. Part(f, i, j) \in Seq(S) /\ Len(Part(f, i, j)) = j - i
        /\ \A k \in 1..(j - i) : Part(f, i, j)[k] = f[i + k]
    <3> HIDE DEF i, j
    <3>1. i \in Nat /\ j \in Nat /\ i <= j /\ j <= Len(f)
      BY <1>3 DEF i, j
    <3> QED BY <3>1, PartOf
  <2> QED BY <2>1, <1>3
<1>5. \A k \in 1..(b - a) : x[k] = y[k]
  <2> SUFFICES ASSUME NEW k \in 1..(b - a) PROVE x[k] = y[k]
    OBVIOUS
  <2>1. a + k \in 1..(q - s + 1) /\ s + (a + k) - 1 = s + a - 1 + k
    OBVIOUS
  <2> QED BY <2>1, <1>1, <1>2, <1>4
<1> HIDE DEF x, y
<1>6. x = y
  BY <1>2, <1>4, <1>5, SeqEqual
<1> QED BY <1>6 DEF x, y, t

\* The characters of a part are those of the format between its ends.
LEMMA CharsOfPart ==
  ASSUME NEW S, NEW f \in Seq(S), NEW i \in Nat, NEW j \in Nat, i <= j, j <= Len(f)
  PROVE  CharsOf(Part(f, i, j)) = {f[k] : k \in (i + 1)..j}
<1> DEFINE x == Part(f, i, j)
<1>1. Len(x) = j - i /\ \A k \in 1..(j - i) : x[k] = f[i + k]
  BY PartOf
<1> HIDE DEF x
<1>2. ASSUME NEW k \in 1..Len(x) PROVE x[k] \in {f[m] : m \in (i + 1)..j}
  <2>1. i + k \in (i + 1)..j /\ x[k] = f[i + k]
    BY <1>1
  <2> QED BY <2>1
<1>3. ASSUME NEW k \in (i + 1)..j PROVE f[k] \in {x[m] : m \in 1..Len(x)}
  <2>1. k - i \in 1..Len(x) /\ x[k - i] = f[k]
    BY <1>1
  <2> QED BY <2>1
<1>4. {x[k] : k \in 1..Len(x)} = {f[k] : k \in (i + 1)..j}
  BY <1>2, <1>3
<1> QED BY <1>4 DEF CharsOf, x

\* Short texts.
LEMMA NoChar ==
  ASSUME NEW S, NEW x \in Seq(S)
  PROVE  x = <<>> <=> Len(x) = 0
OBVIOUS

LEMMA OneChar ==
  ASSUME NEW S, NEW x \in Seq(S), NEW c
  PROVE  x = <<c>> <=> Len(x) = 1 /\ x[1] = c
OBVIOUS

LEMMA TwoChars ==
  ASSUME NEW S, NEW x \in Seq(S), NEW c, NEW d
  PROVE  x = <<c, d>> <=> Len(x) = 2 /\ x[1] = c /\ x[2] = d
OBVIOUS

\* What flags, a width and a precision look like in the format.
LEMMA FlagsShape ==
  ASSUME NEW S, NEW f \in Seq(S), NEW i \in Nat, NEW j \in Nat, i <= j, j <= Len(f)
  PROVE  IsFlags(Part(f, i, j)) <=> \A k \in (i + 1)..j : f[k] \in FlagChars
BY CharsOfPart DEF IsFlags

\* All digits.
Digits(f, i, j) == \A k \in (i + 1)..j : f[k] \in DigitSet

LEMMA WidthShape ==
  ASSUME NEW S, NEW f \in Seq(S), NEW i \in Nat, NEW j \in Nat, i <= j, j <= Len(f)
  PROVE  /\ IsWidth(Part(f, i, j)) <=>
              \/ i = j
              \/ /\ build["width"]
                 /\ \/ j = i + 1 /\ f[j] = "*"
                    \/ Digits(f, i, j) /\ f[i + 1] # "0"
         /\ Part(f, i, j) = <<"*">> <=> j = i + 1 /\ f[j] = "*"
<1> DEFINE x == Part(f, i, j)
<1>1. x \in Seq(S) /\ Len(x) = j - i /\ \A k \in 1..(j - i) : x[k] = f[i + k]
  BY PartOf
<1>2. CharsOf(x) \subseteq DigitSet <=> Digits(f, i, j)
  BY CharsOfPart DEF Digits
<1> HIDE DEF x
<1>3. x = <<>> <=> i = j
  BY <1>1, NoChar
<1>4. x = <<"*">> <=> j = i + 1 /\ f[j] = "*"
  <2>1. x = <<"*">> <=> Len(x) = 1 /\ x[1] = "*"
    BY <1>1, OneChar
  <2> QED BY <2>1, <1>1
<1>5. i # j => x[1] = f[i + 1]
  BY <1>1
<1>6. IsWidth(x) <=>
              \/ i = j
              \/ /\ build["width"]
                 /\ \/ j = i + 1 /\ f[j] = "*"
                    \/ Digits(f, i, j) /\ f[i + 1] # "0"
  BY <1>2, <1>3, <1>4, <1>5 DEF IsWidth
<1> QED BY <1>4, <1>6 DEF x

LEMMA PrecShape ==
  ASSUME NEW S, NEW f \in Seq(S), NEW i \in Nat, NEW j \in Nat, i <= j, j <= Len(f)
  PROVE  /\ IsPrec(Part(f, i, j)) <=>
              \/ i = j
              \/ /\ i < j /\ build["prec"] /\ f[i + 1] = "."
                 /\ \/ j = i + 2 /\ f[j] = "*"
                    \/ Digits(f, i + 1, j)
                    \/ j >= i + 2 /\ f[i + 2] = "-" /\ Digits(f, i + 2, j)
         /\ Part(f, i, j) = <<".", "*">> <=> j = i + 2 /\ f[i + 1] = "." /\ f[j] = "*"
         /\ IsLiteral(Part(f, i, j)) <=>
              /\ i < j /\ ~(j = i + 2 /\ f[i + 1] = "." /\ f[j] = "*")
              /\ j = i + 1 \/ f[i + 2] # "-"
         /\ i < j => Tail(Part(f, i, j)) = Part(f, i + 1, j)
<1> DEFINE x == Part(f, i, j)
           y == Tail(x)
<1>1. x \in Seq(S) /\ Len(x) = j - i /\ \A k \in 1..(j - i) : x[k] = f[i + k]
  BY PartOf
<1>2. i < j => y = Part(f, i + 1, j)
  <2> SUFFICES ASSUME i < j PROVE y = Part(f, i + 1, j)
    OBVIOUS
  <2> DEFINE z == Part(f, i + 1, j)
  <2>2. z \in Seq(S) /\ Len(z) = j - i - 1 /\ \A k \in 1..(j - i - 1) : z[k] = f[i + 1 + k]
    BY PartAfter
  <2> HIDE DEF x, z
  <2>3. x # <<>>
    BY <1>1
  <2>4. y \in Seq(S) /\ Len(y) = j - i - 1 /\ \A k \in 1..(j - i - 1) : y[k] = x[k + 1]
    BY <1>1, <2>3
  <2>5. \A k \in 1..(j - i - 1) : y[k] = z[k]
    <3> SUFFICES ASSUME NEW k \in 1..(j - i - 1) PROVE y[k] = z[k]
      OBVIOUS
    <3>1. k + 1 \in 1..(j - i) /\ i + (k + 1) = i + 1 + k
      OBVIOUS
    <3> QED BY <3>1, <2>2, <2>4, <1>1
  <2> HIDE DEF y
  <2>6. y = z
    BY <2>2, <2>4, <2>5, SeqEqual
  <2> QED BY <2>6 DEF z
<1>3. i < j => (CharsOf(y) \subseteq DigitSet <=> Digits(f, i + 1, j))
  <2> SUFFICES ASSUME i < j PROVE CharsOf(y) \subseteq DigitSet <=> Digits(f, i + 1, j)
    OBVIOUS
  <2>1. CharsOf(Part(f, i + 1, j)) = {f[k] : k \in (i + 1 + 1)..j}
    BY CharsOfPart
  <2> QED BY <2>1, <1>2 DEF Digits
<1>4. i < j => y \in Seq(S) /\ Len(y) = j - i - 1 /\ \A k \in 1..(j - i - 1) : y[k] = f[i + 1 + k]
  <2> SUFFICES ASSUME i < j PROVE y \in Seq(S) /\ Len(y) = j - i - 1 /\ \A k \in 1..(j - i - 1) : y[k] = f[i + 1 + k]
    OBVIOUS
  <2>1. /\ Part(f, i + 1, j) \in Seq(S) /\ Len(Part(f, i + 1, j)) = j - i - 1
        /\ \A k \in 1..(j - i - 1) : Part(f, i + 1, j)[k] = f[i + 1 + k]
    BY PartAfter
  <2> HIDE DEF y
  <2> QED BY <1>2, <2>1
<1>5. i + 1 < j => (CharsOf(Tail(y)) \subseteq DigitSet <=> Digits(f, i + 2, j))
  <2> SUFFICES ASSUME i + 1 < j PROVE CharsOf(Tail(y)) \subseteq DigitSet <=> Digits(f, i + 2, j)
    OBVIOUS
  <2> DEFINE z == Tail(y)
  <2>1. y \in Seq(S) /\ Len(y) = j - i - 1 /\ \A k \in 1..(j - i - 1) : y[k] = f[i + 1 + k]
    BY <1>4
  <2> HIDE DEF y
  <2>2. Len(z) = j - i - 2 /\ \A k \in 1..(j - i - 2) : z[k] = y[k + 1]
    BY <2>1
  <2> HIDE DEF z
  <2>3. \A k \in 1..(j - i - 2) : z[k] = f[i + 2 + k]
    <3> SUFFICES ASSUME NEW k \in 1..(j - i - 2) PROVE z[k] = f[i + 2 + k]
      OBVIOUS
    <3>1. k + 1 \in 1..(j - i - 1) /\ i + 1 + (k + 1) = i + 2 + k
      OBVIOUS
    <3> QED BY <3>1, <2>1, <2>2
  <2>4. ASSUME NEW k \in (i + 2 + 1)..j PROVE k - i - 2 \in 1..Len(z) /\ z[k - i - 2] = f[k]
    BY <2>2, <2>3
  <2>5. CharsOf(z) \subseteq DigitSet => Digits(f, i + 2, j)
    BY <2>4 DEF CharsOf, Digits
  <2>6. ASSUME Digits(f, i + 2, j), NEW k \in 1..Len(z) PROVE z[k] \in DigitSet
    <3>1. i + 2 + k \in (i + 2 + 1)..j
      BY <2>2
    <3> QED BY <3>1, <2>2, <2>3, <2>6 DEF Digits
  <2> QED BY <2>5, <2>6 DEF CharsOf, z
<1> HIDE DEF x
<1>6. (x = <<>> <=> i = j) /\ (i < j => x[1] = f[i + 1]) /\ (i + 1 < j => x[2] = f[i + 2])
  BY <1>1, NoChar
<1>7. x = <<".", "*">> <=> j = i + 2 /\ f[i + 1] = "." /\ f[j] = "*"
  <2>0. x \in Seq(S)
    BY <1>1
  <2>1. x = <<".", "*">> <=> Len(x) = 2 /\ x[1] = "." /\ x[2] = "*"
    BY ONLY <2>0, TwoChars
  <2> QED BY <2>1, <1>1
<1>8. i < j => (y = <<"*">> <=> j = i + 2 /\ f[j] = "*")
  <2> SUFFICES ASSUME i < j PROVE y = <<"*">> <=> j = i + 2 /\ f[j] = "*"
    OBVIOUS
  <2>1. y = <<"*">> <=> Len(y) = 1 /\ y[1] = "*"
    BY <1>4, OneChar
  <2>2. Len(y) = j - i - 1 /\ (j = i + 2 => y[1] = f[i + 2])
    BY <1>4
  <2> HIDE DEF y
  <2>3. Len(y) = 1 <=> j = i + 2
    BY <2>2
  <2> QED BY <2>1, <2>2, <2>3
<1>9. i + 1 < j => y[1] = f[i + 2]
  BY <1>4
<1>10. j = i + 1 => CharsOf(y) \subseteq DigitSet /\ Digits(f, i + 1, j)
  BY <1>4 DEF CharsOf, Digits
<1> HIDE DEF y
<1>11. IsPrec(x) <=>
              \/ i = j
              \/ /\ i < j /\ build["prec"] /\ f[i + 1] = "."
                 /\ \/ j = i + 2 /\ f[j] = "*"
                    \/ Digits(f, i + 1, j)
                    \/ j >= i + 2 /\ f[i + 2] = "-" /\ Digits(f, i + 2, j)
  <2>1. IsPrec(x) <=> \/ x = <<>>
                      \/ /\ build["prec"] /\ x[1] = "."
                         /\ \/ y = <<"*">>
                            \/ CharsOf(y) \subseteq DigitSet
                            \/ y[1] = "-" /\ CharsOf(Tail(y)) \subseteq DigitSet
    BY DEF IsPrec, y
  <2>2. CASE i = j
    BY <2>1, <2>2, <1>6
  <2>3. CASE j = i + 1
    BY <2>1, <2>3, <1>3, <1>6, <1>8, <1>10
  <2>4. CASE i + 1 < j
    BY <2>1, <2>4, <1>3, <1>5, <1>6, <1>8, <1>9
  <2> QED BY <2>2, <2>3, <2>4
<1>12. IsLiteral(x) <=>
              /\ i < j /\ ~(j = i + 2 /\ f[i + 1] = "." /\ f[j] = "*")
              /\ j = i + 1 \/ f[i + 2] # "-"
  <2>1. Len(x) = 1 <=> j = i + 1
    BY <1>1
  <2> QED BY <2>1, <1>6, <1>7 DEF IsLiteral
<1> QED BY <1>2, <1>7, <1>11, <1>12 DEF x, y

-----------------------------------------------------------------------------
(* The length modifiers. *)

BitWidths == {8, 16, 32, 64}

LEMMA ThreeChars ==
  ASSUME NEW S, NEW x \in Seq(S), NEW c, NEW d, NEW e
  PROVE  x = <<c, d, e>> <=> Len(x) = 3 /\ x[1] = c /\ x[2] = d /\ x[3] = e
OBVIOUS

LEMMA FourChars ==
  ASSUME NEW S, NEW x \in Seq(S), NEW c, NEW d, NEW e, NEW g
  PROVE  x = <<c, d, e, g>> <=> Len(x) = 4 /\ x[1] = c /\ x[2] = d /\ x[3] = e /\ x[4] = g
OBVIOUS

\* The texts of wN and wfN.
LEMMA WidthTexts ==
  /\ WTexts[8] = <<"w", "8">> /\ WfTexts[8] = <<"w", "f", "8">>
  /\ WTexts[16] = <<"w", "1", "6">> /\ WfTexts[16] = <<"w", "f", "1", "6">>
  /\ WTexts[32] = <<"w", "3", "2">> /\ WfTexts[32] = <<"w", "f", "3", "2">>
  /\ WTexts[64] = <<"w", "6", "4">> /\ WfTexts[64] = <<"w", "f", "6", "4">>
BY DEF WTexts, WfTexts

\* The digits of a width after 'w' or 'wf', at D + 1, ..., E.
BitsAt(f, D, E) ==
  \/ E = D + 1 /\ f[D + 1] = "8"
  \/ /\ E = D + 2
     /\ \/ f[D + 1] = "1" /\ f[D + 2] = "6"
        \/ f[D + 1] = "3" /\ f[D + 2] = "2"
        \/ f[D + 1] = "6" /\ f[D + 2] = "4" /\ Carried(64)

\* The modifier at C + 1, ..., E, character by character.
ModAt(f, C, E) ==
  \/ E = C
  \/ /\ E = C + 1
     /\ \/ f[C + 1] = "h" /\ build["small"]
        \/ f[C + 1] = "l"
        \/ f[C + 1] = "L" /\ build["float"]
        \/ f[C + 1] \in {"j", "z", "t"} /\ build["large"]
  \/ /\ E = C + 2 /\ f[C + 1] = f[C + 2]
     /\ \/ f[C + 1] = "h" /\ build["small"]
        \/ f[C + 1] = "l" /\ build["large"]
  \/ /\ build["fixed"] /\ E > C /\ f[C + 1] = "w"
     /\ \/ BitsAt(f, C + 1, E)
        \/ f[C + 2] = "f" /\ BitsAt(f, C + 2, E)

\* A text with a modifier is one of those the grammar lists.
LEMMA ModsNamed ==
  ASSUME NEW x, ModsOf(x) # {}
  PROVE  \/ x = <<>>
         \/ x = <<"h">> /\ build["small"]
         \/ x = <<"h", "h">> /\ build["small"]
         \/ x = <<"l">>
         \/ x = <<"l", "l">> /\ build["large"]
         \/ x = <<"L">> /\ build["float"]
         \/ x \in {<<"j">>, <<"z">>, <<"t">>} /\ build["large"]
         \/ \E n \in BitWidths : build["fixed"] /\ Carried(n)
                            /\ (x = WTexts[n] \/ x = WfTexts[n])
<1> DEFINE U == UNION {(IF x = WTexts[n] THEN Holding(LeastMax[n]) ELSE {})
                  \cup (IF x = WfTexts[n] THEN Holding(FastMax[n]) ELSE {})
                : n \in {k \in {8, 16, 32, 64} : build["fixed"] /\ Carried(k)}}
<1>1. U # {} => \E n \in BitWidths : build["fixed"] /\ Carried(n)
                            /\ (x = WTexts[n] \/ x = WfTexts[n])
  <2> SUFFICES ASSUME NEW m \in U
               PROVE  \E n \in BitWidths : build["fixed"] /\ Carried(n)
                            /\ (x = WTexts[n] \/ x = WfTexts[n])
    OBVIOUS
  <2>1. PICK n \in {k \in {8, 16, 32, 64} : build["fixed"] /\ Carried(k)} :
           m \in (IF x = WTexts[n] THEN Holding(LeastMax[n]) ELSE {})
                  \cup (IF x = WfTexts[n] THEN Holding(FastMax[n]) ELSE {})
    OBVIOUS
  <2>2. x = WTexts[n] \/ x = WfTexts[n]
    BY <2>1
  <2> QED BY <2>1, <2>2 DEF BitWidths
<1>2. ModsOf(x) = CASE x = <<>> -> {NONE}
    [] x = <<"h">> /\ build["small"] -> {"h"}
    [] x = <<"h", "h">> /\ build["small"] -> {"hh"}
    [] x = <<"l">> -> {"l"}
    [] x = <<"l", "l">> /\ build["large"] -> {"ll"}
    [] x = <<"L">> /\ build["float"] -> {"L"}
    [] x \in {<<"j">>, <<"z">>, <<"t">>} /\ build["large"] -> {x[1]}
    [] OTHER -> U
  BY DEF ModsOf
<1> HIDE DEF U
<1> QED BY <1>1, <1>2

\* What a modifier looks like in the format.
LEMMA ModsShape ==
  ASSUME NEW S, NEW f \in Seq(S), NEW C \in Nat, NEW E \in Nat, C <= E, E <= Len(f),
         ModsOf(Part(f, C, E)) # {}
  PROVE  ModAt(f, C, E)
<1> DEFINE x == Part(f, C, E)
<1>1. x \in Seq(S) /\ Len(x) = E - C /\ \A k \in 1..(E - C) : x[k] = f[C + k]
  BY PartOf
<1>2. ModsOf(x) # {}
  OBVIOUS
<1> HIDE DEF x
<1> DEFINE l == Len(x)
<1>12. l = E - C
  BY <1>1
<1>14. E \in Nat /\ C \in Nat
  OBVIOUS
<1>13. \A k \in 1..(E - C) : x[k] = f[C + k]
  BY <1>1
<1>3. CASE x = <<>>
  BY <1>1, <1>3 DEF ModAt
<1> HIDE DEF l
<1>4. ASSUME NEW c, x = <<c>> PROVE E = C + 1 /\ f[C + 1] = c
  <2>1. l = 1
    BY <1>4 DEF l
  <2>2. E = C + 1
    BY ONLY <2>1, <1>12, <1>14
  <2>3. x[1] = c
    BY <1>4
  <2> QED BY <2>2, <2>3, <1>13
<1>5. ASSUME NEW c, NEW d, x = <<c, d>> PROVE E = C + 2 /\ f[C + 1] = c /\ f[C + 2] = d
  <2>1. l = 2
    BY <1>5 DEF l
  <2>2. E = C + 2
    BY ONLY <2>1, <1>12, <1>14
  <2>3. x[1] = c /\ x[2] = d
    BY <1>5
  <2> QED BY <2>2, <2>3, <1>13
<1>6. ASSUME NEW c, NEW d, NEW e, x = <<c, d, e>>
      PROVE  E = C + 3 /\ f[C + 1] = c /\ f[C + 2] = d /\ f[C + 3] = e
  <2>1. l = 3
    BY <1>6 DEF l
  <2>2. E = C + 3
    BY ONLY <2>1, <1>12, <1>14
  <2>3. x[1] = c /\ x[2] = d /\ x[3] = e
    BY <1>6
  <2> QED BY <2>2, <2>3, <1>13
<1>7. ASSUME NEW c, NEW d, NEW e, NEW g, x = <<c, d, e, g>>
      PROVE  E = C + 4 /\ f[C + 1] = c /\ f[C + 2] = d /\ f[C + 3] = e /\ f[C + 4] = g
  <2>1. l = 4
    BY <1>7 DEF l
  <2>2. E = C + 4
    BY ONLY <2>1, <1>12, <1>14
  <2>3. x[1] = c /\ x[2] = d /\ x[3] = e /\ x[4] = g
    BY <1>7
  <2> QED BY <2>2, <2>3, <1>13
<1>8. ASSUME NEW n \in BitWidths, build["fixed"] /\ Carried(n), x = WTexts[n]
      PROVE  ModAt(f, C, E)
  <2>1. BitsAt(f, C + 1, E) /\ f[C + 1] = "w" /\ E > C
    <3>1. n = 8 \/ n = 16 \/ n = 32 \/ n = 64
      BY DEF BitWidths
    <3>2. CASE n = 8
      <4>1. E = C + 2 /\ f[C + 1] = "w" /\ f[C + 2] = "8"
        BY <1>5, <1>8, <3>2, WidthTexts
      <4> QED BY <4>1 DEF BitsAt
    <3>3. CASE n = 16
      <4>1. E = C + 3 /\ f[C + 1] = "w" /\ f[C + 2] = "1" /\ f[C + 3] = "6"
        BY <1>6, <1>8, <3>3, WidthTexts
      <4> QED BY <4>1 DEF BitsAt
    <3>4. CASE n = 32
      <4>1. E = C + 3 /\ f[C + 1] = "w" /\ f[C + 2] = "3" /\ f[C + 3] = "2"
        BY <1>6, <1>8, <3>4, WidthTexts
      <4> QED BY <4>1 DEF BitsAt
    <3>5. CASE n = 64
      <4>1. E = C + 3 /\ f[C + 1] = "w" /\ f[C + 2] = "6" /\ f[C + 3] = "4"
        BY <1>6, <1>8, <3>5, WidthTexts
      <4> QED BY <4>1, <1>8, <3>5 DEF BitsAt
    <3> QED BY <3>1, <3>2, <3>3, <3>4, <3>5
  <2> QED BY <2>1, <1>8 DEF ModAt
<1>9. ASSUME NEW n \in BitWidths, build["fixed"] /\ Carried(n), x = WfTexts[n]
      PROVE  ModAt(f, C, E)
  <2>1. BitsAt(f, C + 2, E) /\ f[C + 1] = "w" /\ f[C + 2] = "f" /\ E > C
    <3>1. n = 8 \/ n = 16 \/ n = 32 \/ n = 64
      BY DEF BitWidths
    <3>2. CASE n = 8
      <4>1. E = C + 3 /\ f[C + 1] = "w" /\ f[C + 2] = "f" /\ f[C + 3] = "8"
        BY <1>6, <1>9, <3>2, WidthTexts
      <4> QED BY <4>1 DEF BitsAt
    <3>3. CASE n = 16
      <4>1. E = C + 4 /\ f[C + 1] = "w" /\ f[C + 2] = "f" /\ f[C + 3] = "1" /\ f[C + 4] = "6"
        BY <1>7, <1>9, <3>3, WidthTexts
      <4> QED BY <4>1 DEF BitsAt
    <3>4. CASE n = 32
      <4>1. E = C + 4 /\ f[C + 1] = "w" /\ f[C + 2] = "f" /\ f[C + 3] = "3" /\ f[C + 4] = "2"
        BY <1>7, <1>9, <3>4, WidthTexts
      <4> QED BY <4>1 DEF BitsAt
    <3>5. CASE n = 64
      <4>1. E = C + 4 /\ f[C + 1] = "w" /\ f[C + 2] = "f" /\ f[C + 3] = "6" /\ f[C + 4] = "4"
        BY <1>7, <1>9, <3>5, WidthTexts
      <4> QED BY <4>1, <1>9, <3>5 DEF BitsAt
    <3> QED BY <3>1, <3>2, <3>3, <3>4, <3>5
  <2> QED BY <2>1, <1>9 DEF ModAt
<1>10. ASSUME NEW c, x = <<c>>,
              \/ c = "h" /\ build["small"]
              \/ c = "l"
              \/ c = "L" /\ build["float"]
              \/ c \in {"j", "z", "t"} /\ build["large"]
       PROVE  ModAt(f, C, E)
  <2>1. E = C + 1 /\ f[C + 1] = c
    BY <1>10, <1>4
  <2> QED BY <2>1, <1>10 DEF ModAt
<1>16. x \in {<<"j">>, <<"z">>, <<"t">>} /\ build["large"] => ModAt(f, C, E)
  <2> SUFFICES ASSUME NEW c \in {"j", "z", "t"}, x = <<c>>, build["large"] PROVE ModAt(f, C, E)
    OBVIOUS
  <2> QED BY <1>10
<1>18. ASSUME NEW n \in BitWidths, build["fixed"] /\ Carried(n), x = WTexts[n] \/ x = WfTexts[n]
       PROVE  ModAt(f, C, E)
  BY <1>8, <1>9, <1>18
<1>19. \/ x = <<>>
       \/ x = <<"h">> /\ build["small"]
       \/ x = <<"h", "h">> /\ build["small"]
       \/ x = <<"l">>
       \/ x = <<"l", "l">> /\ build["large"]
       \/ x = <<"L">> /\ build["float"]
       \/ x \in {<<"j">>, <<"z">>, <<"t">>} /\ build["large"]
       \/ \E n \in BitWidths : build["fixed"] /\ Carried(n) /\ (x = WTexts[n] \/ x = WfTexts[n])
  BY <1>2, ModsNamed, Zenon
<1>20. x = <<"h">> /\ build["small"] => ModAt(f, C, E)
  BY <1>10
<1>21. x = <<"l">> => ModAt(f, C, E)
  BY <1>10
<1>22. x = <<"L">> /\ build["float"] => ModAt(f, C, E)
  BY <1>10
<1>23. x = <<"h", "h">> /\ build["small"] => ModAt(f, C, E)
  BY <1>5 DEF ModAt
<1>24. x = <<"l", "l">> /\ build["large"] => ModAt(f, C, E)
  BY <1>5 DEF ModAt
<1> QED BY <1>3, <1>16, <1>18, <1>19, <1>20, <1>21, <1>22, <1>23, <1>24, Zenon

-----------------------------------------------------------------------------
(* What the parser has behind it when it leaves a part: all of it.  f[k] is  *)
(* the format, s the place of the '%', and A, B, C, E where the flags, the   *)
(* width, the precision and the modifier end.                                *)

FlagsDone(f, s, A) ==
  /\ s <= A /\ A + 1 <= Len(f)
  /\ \A k \in (s + 1)..A : f[k] \in FlagChars
  /\ f[A + 1] \notin FlagChars

WidthDone(f, A, B) ==
  \/ ~build["width"] /\ B = A
  \/ build["width"] /\ B = A + 1 /\ f[A + 1] = "*"
  \/ /\ build["width"] /\ A <= B /\ B + 1 <= Len(f) /\ f[A + 1] # "*"
     /\ Digits(f, A, B) /\ f[B + 1] \notin DigitSet

\* The digits of a precision, or those that a '-' has made meaningless, begin behind D.
PrecFrom(f, B, D) ==
  /\ build["prec"] /\ B + 2 <= Len(f) /\ f[B + 1] = "."
  /\ \/ D = B + 1 /\ f[B + 2] \notin {"*", "-"}
     \/ D = B + 2 /\ f[B + 2] = "-"

PrecDone(f, B, C) ==
  \/ C = B /\ B + 1 <= Len(f) /\ (build["prec"] => f[B + 1] # ".")
  \/ /\ build["prec"] /\ C = B + 2 /\ C <= Len(f)
     /\ f[B + 1] = "." /\ f[B + 2] = "*"
  \/ \E D \in Nat : /\ PrecFrom(f, B, D) /\ D <= C /\ C + 1 <= Len(f)
                    /\ Digits(f, D, C) /\ f[C + 1] \notin DigitSet

Starts(c) == \/ c = "w" /\ build["fixed"]
             \/ c = "h" /\ build["small"]
             \/ c = "l"
             \/ c = "L" /\ build["float"]
             \/ c \in {"j", "z", "t"} /\ build["large"]

\* The digits after a 'w' or 'wf' begin behind D.
WideFrom(f, C, D) ==
  /\ build["fixed"] /\ C + 2 <= Len(f) /\ f[C + 1] = "w"
  /\ \/ D = C + 2 /\ f[C + 2] = "f"
     \/ D = C + 1 /\ f[C + 2] # "f"

\* The first digit of a width, and the second.
FirstOf(n) == CASE n = 8 -> "8" [] n = 16 -> "1" [] n = 32 -> "3" [] OTHER -> "6"
SecondOf(n) == CASE n = 16 -> "6" [] n = 32 -> "2" [] OTHER -> "4"
MaxOf(n, w) == IF w = 2 THEN FastMax[n] ELSE LeastMax[n]

ModsDone(f, C, E, m) ==
  \/ E = C /\ m = NONE /\ C + 1 <= Len(f) /\ ~Starts(f[C + 1])
  \/ E = C + 1 /\ m = "h" /\ C + 2 <= Len(f) /\ f[C + 1] = "h" /\ build["small"] /\ f[C + 2] # "h"
  \/ E = C + 1 /\ m = "l" /\ C + 1 <= Len(f) /\ f[C + 1] = "l"
       /\ (build["large"] => C + 2 <= Len(f) /\ f[C + 2] # "l")
  \/ E = C + 2 /\ m = "hh" /\ E <= Len(f) /\ f[C + 1] = "h" /\ f[C + 2] = "h" /\ build["small"]
  \/ E = C + 2 /\ m = "ll" /\ E <= Len(f) /\ f[C + 1] = "l" /\ f[C + 2] = "l" /\ build["large"]
  \/ E = C + 1 /\ m = f[C + 1] /\ E <= Len(f)
       /\ \/ m = "L" /\ build["float"]
          \/ m \in {"j", "z", "t"} /\ build["large"]
  \/ \E D \in Nat, n \in BitWidths :
       /\ WideFrom(f, C, D) /\ m = LmOf(MaxOf(n, D - C)) /\ E <= Len(f)
       /\ f[D + 1] = FirstOf(n) /\ (n = 64 => Has64)
       /\ E = IF n = 8 THEN D + 1 ELSE D + 2
       /\ n # 8 => f[D + 2] = SecondOf(n)

\* Where the parser gives a width up.
ModsStuck(f, C) ==
  \E D \in Nat :
    /\ WideFrom(f, C, D) /\ D + 1 <= Len(f)
    /\ \/ f[D + 1] \notin {"8", "1", "3"} /\ ~(f[D + 1] = "6" /\ Has64)
       \/ \E n \in {16, 32, 64} : /\ D + 2 <= Len(f) /\ f[D + 1] = FirstOf(n)
                                  /\ f[D + 2] # SecondOf(n)

Before(f, s, A, B, C) == FlagsDone(f, s, A) /\ WidthDone(f, A, B) /\ PrecDone(f, B, C)

\* What cannot be the beginning of a specification, however the format goes on.
Dead(f, s) ==
  \E A, B, C \in Nat :
    /\ Before(f, s, A, B, C)
    /\ \/ ModsStuck(f, C)
       \/ \E E \in Nat, m \in LenMods :
            ModsDone(f, C, E, m) /\ E + 1 <= Len(f) /\ ConvOf(f[E + 1]) = NONE

\* A text, from s to q, taken apart.
WidthAt(f, i, j) ==
  \/ i = j
  \/ /\ build["width"]
     /\ \/ j = i + 1 /\ f[j] = "*"
        \/ Digits(f, i, j) /\ f[i + 1] # "0"
PrecAt(f, i, j) ==
  \/ i = j
  \/ /\ i < j /\ build["prec"] /\ f[i + 1] = "."
     /\ \/ j = i + 2 /\ f[j] = "*"
        \/ Digits(f, i + 1, j)
        \/ j >= i + 2 /\ f[i + 2] = "-" /\ Digits(f, i + 2, j)
FitsAt(f, s, q, A, B, C) ==
  /\ s <= A /\ A <= B /\ B <= C /\ C < q
  /\ f[s] = "%" /\ \A k \in (s + 1)..A : f[k] \in FlagChars
  /\ WidthAt(f, A, B) /\ PrecAt(f, B, C)
  /\ ModAt(f, C, q - 1) /\ ConvOf(f[q]) # NONE

LEMMA DigitSetIs == DigitSet = {"0", "1", "2", "3", "4", "5", "6", "7", "8", "9"}
BY DEF DigitSet, DigitVals

\* The characters that the parser takes for something else are no conversions.
LEMMA NoConv ==
  \A c \in {"w", "h", "l", "L", "j", "z", "t", ".", "*", "-", "+", SPACE, "#"} \cup DigitSet :
    ConvOf(c) = NONE
BY DigitSetIs DEF ConvOf, SPACE

\* Behind the precision there is neither a flag nor a part of a number.
LEMMA AfterPrec ==
  ASSUME NEW S, NEW f \in Seq(S), NEW C \in Nat, NEW q \in Nat, C < q, q <= Len(f),
         ModAt(f, C, q - 1), ConvOf(f[q]) # NONE
  PROVE  f[C + 1] \notin {".", "*", "-", "+", SPACE, "#"} \cup DigitSet
<1>1. CASE q - 1 = C
  <2>1. q = C + 1
    BY <1>1
  <2> QED BY <2>1, NoConv
<1>2. CASE q - 1 # C
  <2>1. f[C + 1] \in {"h", "l", "L", "j", "z", "t", "w"}
    BY <1>2 DEF ModAt
  <2> QED BY <2>1, DigitSetIs DEF SPACE
<1> QED BY <1>1, <1>2

LEMMA FlagCharsIn == FlagChars \subseteq {"-", "0", "+", SPACE, "#"}
BY DEF FlagChars

\* The parts of a text are those the parser finds.
LEMMA Forced ==
  ASSUME NEW S, NEW f \in Seq(S), NEW s \in Nat, NEW q \in Nat, q <= Len(f),
         NEW A \in Nat, NEW B \in Nat, NEW C \in Nat,
         NEW x \in Nat, NEW y \in Nat, NEW z \in Nat,
         Before(f, s, A, B, C), FitsAt(f, s, q, x, y, z)
  PROVE  x = A /\ y = B /\ z = C
<1>1. /\ s <= x /\ x <= y /\ y <= z /\ z < q /\ WidthAt(f, x, y) /\ PrecAt(f, y, z)
      /\ ModAt(f, z, q - 1) /\ ConvOf(f[q]) # NONE
      /\ \A k \in (s + 1)..x : f[k] \in FlagChars
  BY DEF FitsAt
<1>2. FlagsDone(f, s, A) /\ WidthDone(f, A, B) /\ PrecDone(f, B, C)
  BY DEF Before
<1>3. f[z + 1] \notin {".", "*", "-", "+", SPACE, "#"} \cup DigitSet
  BY <1>1, AfterPrec
<1>4. f[y + 1] \notin {"*", "-", "+", SPACE, "#"} \cup DigitSet
  <2>1. CASE y = z
    BY <2>1, <1>3
  <2>2. CASE y # z
    <3>1. f[y + 1] = "."
      BY <2>2, <1>1 DEF PrecAt
    <3> QED BY <3>1, DigitSetIs DEF SPACE
  <2> QED BY <2>1, <2>2
<1>5. f[x + 1] \notin FlagChars
  <2>1. CASE x = y
    BY <2>1, <1>4, DigitSetIs, FlagCharsIn
  <2>2. CASE x # y
    <3>1. \/ y = x + 1 /\ f[x + 1] = "*"
          \/ Digits(f, x, y) /\ f[x + 1] # "0"
      BY <2>2, <1>1 DEF WidthAt
    <3>2. CASE f[x + 1] = "*"
      BY <3>2, FlagCharsIn DEF SPACE
    <3>3. CASE Digits(f, x, y) /\ f[x + 1] # "0"
      <4>1. f[x + 1] \in DigitSet
        BY <3>3, <2>2, <1>1 DEF Digits
      <4> QED BY <4>1, <3>3, DigitSetIs, FlagCharsIn DEF SPACE
    <3> QED BY <3>1, <3>2, <3>3
  <2> QED BY <2>1, <2>2
<1>6. x = A
  <2>1. ~(x < A)
    BY <1>1, <1>2, <1>5 DEF FlagsDone
  <2>2. ~(A < x)
    BY <1>1, <1>2 DEF FlagsDone
  <2> QED BY <2>1, <2>2
<1>7. y = B
  <2>1. CASE ~build["width"]
    BY <2>1, <1>1, <1>2, <1>6 DEF WidthDone, WidthAt
  <2>2. CASE build["width"] /\ f[A + 1] = "*"
    <3>1. B = A + 1
      BY <2>2, <1>2 DEF WidthDone
    <3>2. y # A
      BY <2>2, <1>4, <1>6
    <3>3. ~Digits(f, A, y)
      <4>1. "*" \notin DigitSet
        BY DigitSetIs
      <4> QED BY <4>1, <3>2, <2>2, <1>1, <1>6 DEF Digits
    <3> QED BY <3>1, <3>2, <3>3, <1>1, <1>6 DEF WidthAt
  <2>3. CASE build["width"] /\ f[A + 1] # "*"
    <3>1. A <= B /\ B + 1 <= Len(f) /\ Digits(f, A, B) /\ f[B + 1] \notin DigitSet
      BY <2>3, <1>2 DEF WidthDone
    <3>2. Digits(f, A, y)
      BY <2>3, <1>1, <1>6 DEF WidthAt, Digits
    <3>3. ~(y < B)
      BY <3>1, <1>1, <1>4, <1>6 DEF Digits
    <3>4. ~(B < y)
      BY <3>1, <3>2 DEF Digits
    <3> QED BY <3>3, <3>4
  <2> QED BY <2>1, <2>2, <2>3
<1>8. z = C
  <2>1. CASE ~(build["prec"] /\ f[B + 1] = ".")
    <3>1. C = B
      BY <2>1, <1>2 DEF PrecDone, PrecFrom
    <3> QED BY <3>1, <2>1, <1>1, <1>7 DEF PrecAt
  <2>2. CASE build["prec"] /\ f[B + 1] = "."
    <3>1. z # B /\ z > B
      BY <2>2, <1>1, <1>3, <1>7
    <3>2. \/ z = B + 2 /\ f[z] = "*"
          \/ Digits(f, B + 1, z)
          \/ z >= B + 2 /\ f[B + 2] = "-" /\ Digits(f, B + 2, z)
      BY <3>1, <1>1, <1>7 DEF PrecAt
    <3>3. "*" \notin DigitSet /\ "-" \notin DigitSet
      BY DigitSetIs
    <3>4. CASE C = B + 2 /\ f[B + 2] = "*"
      <4>1. z # B + 1
        BY <3>4, <1>3
      <4>2. ~Digits(f, B + 1, z)
        BY <4>1, <3>1, <3>3, <3>4 DEF Digits
      <4> QED BY <3>2, <3>4, <4>2
    <3>5. ASSUME NEW D \in Nat, PrecFrom(f, B, D), D <= C, C + 1 <= Len(f),
                 Digits(f, D, C), f[C + 1] \notin DigitSet
          PROVE  z = C
      <4>1. \/ D = B + 1 /\ f[B + 2] \notin {"*", "-"}
            \/ D = B + 2 /\ f[B + 2] = "-"
        BY <3>5 DEF PrecFrom
      <4>2. D <= z /\ Digits(f, D, z)
        <5>1. CASE D = B + 1 /\ f[B + 2] \notin {"*", "-"}
          <6>1. Digits(f, B + 1, z)
            BY <5>1, <3>2
          <6> QED BY <6>1, <5>1, <3>1
        <5>2. CASE D = B + 2 /\ f[B + 2] = "-"
          <6>1. z # B + 1
            BY <5>2, <1>3
          <6>2. ~Digits(f, B + 1, z)
            BY <6>1, <5>2, <3>1, <3>3 DEF Digits
          <6> QED BY <6>1, <6>2, <5>2, <3>1, <3>2
        <5> QED BY <4>1, <5>1, <5>2
      <4>3. ~(z < C)
        BY <4>2, <3>5, <1>3 DEF Digits
      <4>4. ~(C < z)
        BY <4>2, <3>5 DEF Digits
      <4> QED BY <4>3, <4>4
    <3> QED BY <2>2, <3>4, <3>5, <1>2 DEF PrecDone
  <2> QED BY <2>1, <2>2
<1> QED BY <1>6, <1>7, <1>8

-----------------------------------------------------------------------------
(* The modifier that is read is the one the text has. *)

\* The widths of the standard types, smallest first.
LEMMA Ordered ==
  /\ \A x \in Standard : TMax[x] \in Nat
  /\ TMax["CHAR"] <= TMax["SHORT"] /\ TMax["SHORT"] <= TMax["INT"]
  /\ TMax["INT"] <= TMax["LONG"] /\ TMax["LONG"] <= TMax["LL"]
  /\ \A n \in BitWidths, w \in {1, 2} : \E x \in Standard : MaxOf(n, w) = TMax[x]
<1>1. \A x \in Standard : TMax[x] \in Nat
  BY WidthsAssumption DEF Standard, IntTypes
<1> QED BY <1>1, StdintAssumption DEF MaxOf, BitWidths

\* What StdintAssumption says of the configuration of a run.
LEMMA BuildLaws ==
  ASSUME TypeOK
  PROVE  /\ build \in Builds
         /\ build["fixed"] => build["small"]
BY BuildTyped DEF TypeOK

\* NPF_LM_OF finds a modifier whose type is as wide as the one wanted.
LEMMA HoldingHas ==
  ASSUME build["small"]
  PROVE  /\ "hh" \in Holding(TMax["CHAR"]) /\ "h" \in Holding(TMax["SHORT"])
         /\ NONE \in Holding(TMax["INT"]) /\ "l" \in Holding(TMax["LONG"])
         /\ build["large"] => "ll" \in Holding(TMax["LL"])
<1>1. /\ TypeOf("hh") = "CHAR" /\ TypeOf("h") = "SHORT" /\ TypeOf(NONE) = "INT"
      /\ TypeOf("l") = "LONG" /\ TypeOf("ll") = "LL"
  BY DEF TypeOf, NONE
<1> QED BY <1>1 DEF Holding, LenMods, NONE

\* The narrowest modifier has the type asked for.
LEMMA LmHolds ==
  ASSUME TypeOK, NEW x \in Standard, build["small"], TMax[x] <= TMax["LONG"] \/ build["large"]
  PROVE  LmOf(TMax[x]) \in Holding(TMax[x])
<1> DEFINE max == TMax[x]
<1>1. /\ max \in Nat /\ TMax["CHAR"] \in Nat /\ TMax["SHORT"] \in Nat /\ TMax["INT"] \in Nat
      /\ TMax["LONG"] \in Nat /\ TMax["LL"] \in Nat
  BY Ordered DEF Standard
<1>2. max \in {TMax["CHAR"], TMax["SHORT"], TMax["INT"], TMax["LONG"], TMax["LL"]}
  BY DEF Standard
<1>5. max <= TMax["LONG"] \/ build["large"]
  OBVIOUS
<1>6. "hh" \in Holding(TMax["CHAR"]) /\ "h" \in Holding(TMax["SHORT"])
      /\ NONE \in Holding(TMax["INT"]) /\ "l" \in Holding(TMax["LONG"])
      /\ (build["large"] => "ll" \in Holding(TMax["LL"]))
  BY HoldingHas
<1>7. LmOf(max) \in Holding(max)
  <2> HIDE DEF max
  <2>1. CASE max <= TMax["CHAR"]
    <3>1. max = TMax["CHAR"] /\ LmOf(max) = "hh"
      BY <1>1, <1>2, <2>1, Ordered DEF LmOf
    <3> QED BY <3>1, <1>6, Zenon
  <2>2. CASE max > TMax["CHAR"] /\ max <= TMax["SHORT"]
    <3>1. max = TMax["SHORT"] /\ LmOf(max) = "h"
      BY <1>1, <1>2, <2>2, Ordered DEF LmOf
    <3> QED BY <3>1, <1>6, Zenon
  <2>3. CASE max > TMax["SHORT"] /\ max <= TMax["INT"]
    <3>1. max = TMax["INT"] /\ LmOf(max) = NONE
      BY <1>1, <1>2, <2>3, Ordered DEF LmOf
    <3> QED BY <3>1, <1>6, Zenon
  <2>4. CASE max > TMax["INT"] /\ max <= TMax["LONG"]
    <3>1. max = TMax["LONG"] /\ LmOf(max) = "l"
      BY <1>1, <1>2, <2>4, Ordered DEF LmOf
    <3> QED BY <3>1, <1>6, Zenon
  <2>5. CASE max > TMax["LONG"]
    <3>1. max = TMax["LL"] /\ LmOf(max) = "ll" /\ build["large"]
      BY <1>1, <1>2, <1>5, <2>5, Ordered DEF LmOf, Widest
    <3> QED BY <3>1, <1>6, Zenon
  <2> QED BY <1>1, <2>1, <2>2, <2>3, <2>4, <2>5
<1> QED BY <1>7

\* A build without 'll' holds no more than a long.
LEMMA NothingAbove ==
  ASSUME NEW max \in Nat, max > TMax["LONG"], ~build["large"]
  PROVE  Holding(max) = {}
<1> SUFFICES ASSUME NEW m \in Holding(max) PROVE FALSE
  OBVIOUS
<1>1. m \in {NONE, "h", "hh", "l"} /\ TMax[TypeOf(m)] = max
  BY DEF Holding, LenMods
<1>2. TypeOf(m) \in {"INT", "SHORT", "CHAR", "LONG"}
  BY <1>1 DEF TypeOf, NONE
<1>3. TMax["CHAR"] \in Nat /\ TMax["SHORT"] \in Nat /\ TMax["INT"] \in Nat /\ TMax["LONG"] \in Nat
  BY Ordered DEF Standard
<1> QED BY <1>1, <1>2, <1>3, Ordered

\* A width is carried by the grammar's modifiers just when the code has it: Has64 is Carried.
LEMMA CarriedIs ==
  ASSUME TypeOK, build["fixed"]
  PROVE  /\ Carried(64) <=> Has64
         /\ \A n \in BitWidths, w \in {1, 2} : (n = 64 => Has64) => LmOf(MaxOf(n, w)) \in Holding(MaxOf(n, w))
<1>1. \A n \in BitWidths : LeastMax[n] = MaxOf(n, 1) /\ FastMax[n] = MaxOf(n, 2)
  BY DEF MaxOf
<1>2. build["small"] /\ build \in Builds
  BY BuildLaws
<1>3. ASSUME NEW n \in BitWidths, NEW w \in {1, 2}, n = 64 => Has64
      PROVE  LmOf(MaxOf(n, w)) \in Holding(MaxOf(n, w))
  <2>1. PICK x \in Standard : MaxOf(n, w) = TMax[x]
    BY Ordered
  <2>2. TMax[x] <= TMax["LONG"] \/ build["large"]
    <3>1. CASE n = 64
      BY <1>3, <2>1, <3>1 DEF Has64, MaxOf
    <3>2. CASE n # 64
      BY <1>2, <2>1, <3>2, StdintAssumption DEF MaxOf, BitWidths
    <3> QED BY <3>1, <3>2
  <2> QED BY <1>2, <2>1, <2>2, LmHolds
<1>4. Has64 => Carried(64)
  <2> SUFFICES ASSUME Has64 PROVE Carried(64)
    OBVIOUS
  <2>1. 64 \in BitWidths
    BY DEF BitWidths
  <2>2. Holding(MaxOf(64, 1)) # {} /\ Holding(MaxOf(64, 2)) # {}
    BY <1>3, <2>1
  <2> QED BY <1>1, <2>1, <2>2 DEF Carried
<1>5. ~Has64 => ~Carried(64)
  <2> SUFFICES ASSUME ~Has64 PROVE ~Carried(64)
    OBVIOUS
  <2>1. 64 \in BitWidths
    BY DEF BitWidths
  <2>2. PICK x \in Standard : LeastMax[64] = TMax[x]
    BY <1>1, <2>1, Ordered
  <2>3. PICK y \in Standard : FastMax[64] = TMax[y]
    BY <1>1, <2>1, Ordered
  <2>4. LeastMax[64] \in Nat /\ FastMax[64] \in Nat /\ TMax["LONG"] \in Nat
    BY <2>2, <2>3, Ordered DEF Standard
  <2>5. ~build["large"] /\ (LeastMax[64] > TMax["LONG"] \/ FastMax[64] > TMax["LONG"])
    BY <2>4 DEF Has64
  <2>6. Holding(LeastMax[64]) = {} \/ Holding(FastMax[64]) = {}
    BY <2>4, <2>5, NothingAbove
  <2> QED BY <2>6 DEF Carried
<1> QED BY <1>3, <1>4, <1>5

\* The first digit tells the widths apart.
LEMMA FirstsAre ==
  /\ FirstOf(8) = "8" /\ FirstOf(16) = "1" /\ FirstOf(32) = "3" /\ FirstOf(64) = "6"
  /\ SecondOf(16) = "6" /\ SecondOf(32) = "2" /\ SecondOf(64) = "4"
BY DEF FirstOf, SecondOf

\* The digits behind a 'w', seen from where they begin.
LEMMA WideBits ==
  ASSUME NEW S, NEW f \in Seq(S), NEW C \in Nat, NEW q \in Nat, NEW D \in Nat,
         WideFrom(f, C, D), C < q, q <= Len(f), ModAt(f, C, q - 1), ConvOf(f[q]) # NONE
  PROVE  BitsAt(f, D, q - 1)
<1>1. build["fixed"] /\ f[C + 1] = "w"
  BY DEF WideFrom
<1>2. q - 1 # C
  <2>1. q - 1 = C => q = C + 1
    OBVIOUS
  <2> QED BY <2>1, <1>1, NoConv
<1>3. BitsAt(f, C + 1, q - 1) \/ (f[C + 2] = "f" /\ BitsAt(f, C + 2, q - 1))
  <2>0. "w" \notin {"h", "l", "L", "j", "z", "t"}
    OBVIOUS
  <2>1. ModAt(f, C, q - 1) /\ q - 1 # C /\ f[C + 1] = "w"
    BY <1>1, <1>2
  <2> DEFINE e == q - 1
  <2> HIDE DEF e
  <2>2. ModAt(f, C, e) /\ e # C
    BY <2>1 DEF e
  <2> DEFINE P == BitsAt(f, C + 1, e)
             Q == f[C + 2] = "f" /\ BitsAt(f, C + 2, e)
  <2>3. \/ f[C + 1] \in {"h", "l", "L", "j", "z", "t"}
        \/ P \/ Q
    <3>1. \/ e = C
          \/ f[C + 1] \in {"h", "l", "L", "j", "z", "t"}
          \/ P \/ Q
      <4> HIDE DEF P, Q
      <4>1. ModAt(f, C, e)
        BY <2>2
      <4> QED BY <4>1 DEF ModAt, P, Q
    <3> QED BY <3>1, <2>2
  <2>4. f[C + 1] \notin {"h", "l", "L", "j", "z", "t"}
    BY <1>1
  <2>5. P \/ Q
    <3> HIDE DEF P, Q
    <3> QED BY <2>3, <2>4, Zenon
  <2> QED BY <2>5 DEF e
<1>4. CASE D = C + 2 /\ f[C + 2] = "f"
  <2>1. ~BitsAt(f, C + 1, q - 1)
    <3>1. C + 1 + 1 = C + 2
      OBVIOUS
    <3> QED BY <3>1, <1>4 DEF BitsAt
  <2> QED BY <2>1, <1>3, <1>4
<1>5. CASE D = C + 1 /\ f[C + 2] # "f"
  BY <1>3, <1>5
<1> QED BY <1>4, <1>5 DEF WideFrom

\* So the conversion of a text is the character behind the modifier that was read.
LEMMA ModsForced ==
  ASSUME TypeOK, NEW S, NEW f \in Seq(S), NEW C \in Nat, NEW q \in Nat, NEW E \in Nat, NEW m,
         C < q, q <= Len(f), ModsDone(f, C, E, m), ModAt(f, C, q - 1), ConvOf(f[q]) # NONE
  PROVE  q = E + 1
<1> DEFINE e == q - 1
<1>0. e \in Nat /\ q = e + 1 /\ C <= e /\ ModAt(f, C, e) /\ ConvOf(f[e + 1]) # NONE
  OBVIOUS
<1> HIDE DEF e
<1>n. \A c \in {"w", "h", "l", "L", "j", "z", "t", "f"} : c # "f" => ConvOf(c) = NONE
  BY NoConv
<1>1. CASE E = C /\ m = NONE /\ C + 1 <= Len(f) /\ ~Starts(f[C + 1])
  <2>1. e = C
    BY <1>0, <1>1 DEF ModAt, Starts
  <2> QED BY <2>1, <1>0, <1>1
<1>2. CASE E = C + 1 /\ f[C + 1] = "h" /\ f[C + 2] # "h"
  <2>1. e # C
    BY <1>0, <1>2, NoConv
  <2>2. e = C + 1
    BY <1>0, <1>2, <2>1 DEF ModAt
  <2> QED BY <2>2, <1>0, <1>2
<1>3. CASE E = C + 1 /\ f[C + 1] = "l" /\ (build["large"] => f[C + 2] # "l")
  <2>1. e # C
    BY <1>0, <1>3, NoConv
  <2>2. e = C + 1
    BY <1>0, <1>3, <2>1 DEF ModAt
  <2> QED BY <2>2, <1>0, <1>3
<1>4. CASE E = C + 2 /\ ((f[C + 1] = "h" /\ f[C + 2] = "h") \/ (f[C + 1] = "l" /\ f[C + 2] = "l"))
  <2>1. e # C
    BY <1>0, <1>4, NoConv
  <2>2. e # C + 1
    <3>1. e = C + 1 => f[e + 1] = f[C + 2]
      OBVIOUS
    <3> QED BY <3>1, <1>0, <1>4, NoConv
  <2>3. e = C + 2
    BY <1>0, <1>4, <2>1, <2>2 DEF ModAt
  <2> QED BY <2>3, <1>0, <1>4
<1>5. CASE E = C + 1 /\ m = f[C + 1] /\ (m = "L" \/ m \in {"j", "z", "t"})
  <2>1. e # C
    BY <1>0, <1>5, NoConv
  <2>2. e = C + 1
    BY <1>0, <1>5, <2>1 DEF ModAt
  <2> QED BY <2>2, <1>0, <1>5
<1>6. ASSUME NEW D \in Nat, NEW n \in BitWidths,
             WideFrom(f, C, D), f[D + 1] = FirstOf(n),
             E = IF n = 8 THEN D + 1 ELSE D + 2
      PROVE  q = E + 1
  <2>1. BitsAt(f, D, e)
    BY <1>6, WideBits DEF e
  <2>2. \/ e = D + 1 /\ f[D + 1] = "8"
        \/ e = D + 2 /\ f[D + 1] \in {"1", "3", "6"}
    BY <2>1 DEF BitsAt
  <2>3. n = 8 \/ n \in {16, 32, 64}
    BY DEF BitWidths
  <2>4. n \in {16, 32, 64} => FirstOf(n) \in {"1", "3", "6"}
    BY FirstsAre
  <2>5. e = E
    BY <2>2, <2>3, <2>4, <1>6, FirstsAre
  <2> QED BY <2>5, <1>0
<1>7. \/ E = C /\ m = NONE /\ C + 1 <= Len(f) /\ ~Starts(f[C + 1])
      \/ E = C + 1 /\ f[C + 1] = "h" /\ f[C + 2] # "h"
      \/ E = C + 1 /\ f[C + 1] = "l" /\ (build["large"] => f[C + 2] # "l")
      \/ E = C + 2 /\ ((f[C + 1] = "h" /\ f[C + 2] = "h") \/ (f[C + 1] = "l" /\ f[C + 2] = "l"))
      \/ E = C + 1 /\ m = f[C + 1] /\ (m = "L" \/ m \in {"j", "z", "t"})
      \/ \E D \in Nat, n \in BitWidths :
           /\ WideFrom(f, C, D) /\ f[D + 1] = FirstOf(n)
           /\ E = IF n = 8 THEN D + 1 ELSE D + 2
  BY DEF ModsDone
<1> QED BY <1>1, <1>2, <1>3, <1>4, <1>5, <1>6, <1>7

\* No text goes on behind a width that was given up.
LEMMA StuckNone ==
  ASSUME TypeOK, NEW S, NEW f \in Seq(S), NEW C \in Nat, NEW q \in Nat, C < q, q <= Len(f),
         ModsStuck(f, C), ModAt(f, C, q - 1), ConvOf(f[q]) # NONE
  PROVE  FALSE
<1>1. PICK D \in Nat :
        /\ WideFrom(f, C, D) /\ D + 1 <= Len(f)
        /\ \/ f[D + 1] \notin {"8", "1", "3"} /\ ~(f[D + 1] = "6" /\ Has64)
           \/ \E n \in {16, 32, 64} : /\ D + 2 <= Len(f) /\ f[D + 1] = FirstOf(n)
                                      /\ f[D + 2] # SecondOf(n)
  BY DEF ModsStuck
<1>2. BitsAt(f, D, q - 1)
  BY <1>1, WideBits
<1>3. build["fixed"]
  BY <1>1 DEF WideFrom
<1>4. Carried(64) <=> Has64
  BY <1>3, CarriedIs
<1>5. /\ f[D + 1] \in {"8", "1", "3"} \/ (f[D + 1] = "6" /\ Has64)
      /\ f[D + 1] = "1" => f[D + 2] = "6"
      /\ f[D + 1] = "3" => f[D + 2] = "2"
      /\ f[D + 1] = "6" => f[D + 2] = "4"
  BY <1>2, <1>4 DEF BitsAt
<1>6. PICK n \in {16, 32, 64} : f[D + 1] = FirstOf(n) /\ f[D + 2] # SecondOf(n)
  BY <1>1, <1>5
<1> QED BY <1>5, <1>6, FirstsAre

-----------------------------------------------------------------------------
(* What the modifier read means, and what a text taken apart means.          *)

\* The modifiers of wN and of wfN are those that hold the type.
LEMMA ModsOfTexts ==
  /\ ModsOf(<<>>) = {NONE}
  /\ build["small"] => ModsOf(<<"h">>) = {"h"} /\ ModsOf(<<"h", "h">>) = {"hh"}
  /\ ModsOf(<<"l">>) = {"l"}
  /\ build["large"] => ModsOf(<<"l", "l">>) = {"ll"}
  /\ build["float"] => ModsOf(<<"L">>) = {"L"}
  /\ build["large"] => /\ ModsOf(<<"j">>) = {"j"} /\ ModsOf(<<"z">>) = {"z"}
                       /\ ModsOf(<<"t">>) = {"t"}
<1>1. ModsOf(<<>>) = {NONE}
  BY DEF ModsOf
<1>2. build["small"] => ModsOf(<<"h">>) = {"h"}
  BY DEF ModsOf
<1>3. build["small"] => ModsOf(<<"h", "h">>) = {"hh"}
  BY DEF ModsOf
<1>4. ModsOf(<<"l">>) = {"l"}
  BY DEF ModsOf
<1>5. build["large"] => ModsOf(<<"l", "l">>) = {"ll"}
  BY DEF ModsOf
<1>6. build["float"] => ModsOf(<<"L">>) = {"L"}
  BY DEF ModsOf
<1>7. build["large"] => ModsOf(<<"j">>) = {"j"}
  BY DEF ModsOf
<1>8. build["large"] => ModsOf(<<"z">>) = {"z"}
  BY DEF ModsOf
<1>9. build["large"] => ModsOf(<<"t">>) = {"t"}
  BY DEF ModsOf
<1> QED BY <1>1, <1>2, <1>3, <1>4, <1>5, <1>6, <1>7, <1>8, <1>9

\* The modifier found for a width is one the grammar allows.
LEMMA ModsOfWide ==
  ASSUME NEW n \in BitWidths, build["fixed"], Carried(n), NEW x
  PROVE  /\ x = WTexts[n] => Holding(LeastMax[n]) \subseteq ModsOf(x)
         /\ x = WfTexts[n] => Holding(FastMax[n]) \subseteq ModsOf(x)
<1> DEFINE of(k) == (IF x = WTexts[k] THEN Holding(LeastMax[k]) ELSE {})
                      \cup (IF x = WfTexts[k] THEN Holding(FastMax[k]) ELSE {})
           U == UNION {of(k) : k \in {k \in {8, 16, 32, 64} : build["fixed"] /\ Carried(k)}}
<1>1. of(n) \subseteq U
  <2>1. n \in {k \in {8, 16, 32, 64} : build["fixed"] /\ Carried(k)}
    BY DEF BitWidths
  <2> HIDE DEF of
  <2> QED BY <2>1
<1>2. x \in {WTexts[n], WfTexts[n]} => ModsOf(x) = U
  <2> SUFFICES ASSUME x \in {WTexts[n], WfTexts[n]} PROVE ModsOf(x) = U
    OBVIOUS
  <2>1. n \in {8, 16, 32, 64}
    BY DEF BitWidths
  <2>2. x[1] = "w" /\ x # <<>>
    <3>1. x \in {WTexts[8], WTexts[16], WTexts[32], WTexts[64],
                 WfTexts[8], WfTexts[16], WfTexts[32], WfTexts[64]}
      BY <2>1
    <3>2. ASSUME NEW d \in {WTexts[8], WTexts[16], WTexts[32], WTexts[64],
                 WfTexts[8], WfTexts[16], WfTexts[32], WfTexts[64]}
          PROVE  d[1] = "w" /\ d # <<>>
      BY WidthTexts
    <3> HIDE DEF of, U
    <3> QED BY <3>1, <3>2
  <2>3. /\ x # <<>> /\ x # <<"h">> /\ x # <<"h", "h">> /\ x # <<"l">> /\ x # <<"l", "l">>
        /\ x # <<"L">> /\ x # <<"j">> /\ x # <<"z">> /\ x # <<"t">>
    BY <2>2
  <2>4. ModsOf(x) = CASE x = <<>> -> {NONE}
    [] x = <<"h">> /\ build["small"] -> {"h"}
    [] x = <<"h", "h">> /\ build["small"] -> {"hh"}
    [] x = <<"l">> -> {"l"}
    [] x = <<"l", "l">> /\ build["large"] -> {"ll"}
    [] x = <<"L">> /\ build["float"] -> {"L"}
    [] x \in {<<"j">>, <<"z">>, <<"t">>} /\ build["large"] -> {x[1]}
    [] OTHER -> U
    BY DEF ModsOf
  <2> HIDE DEF U
  <2> QED BY <2>3, <2>4
<1>3. /\ x = WTexts[n] => Holding(LeastMax[n]) \subseteq of(n)
      /\ x = WfTexts[n] => Holding(FastMax[n]) \subseteq of(n)
  OBVIOUS
<1> HIDE DEF of, U
<1> QED BY <1>1, <1>2, <1>3

\* The modifier the parser settles on is one the grammar allows for the text read.
LEMMA ModsTold ==
  ASSUME TypeOK, NEW S, NEW f \in Seq(S), NEW C \in Nat, NEW E \in Nat, NEW m,
         ModsDone(f, C, E, m), E <= Len(f)
  PROVE  C <= E /\ m \in ModsOf(Part(f, C, E))
<1> DEFINE x == Part(f, C, E)
           Told == m \in ModsOf(x)
<1>0. C <= E
  BY DEF ModsDone, WideFrom
<1>p. x \in Seq(S) /\ Len(x) = E - C /\ \A k \in 1..(E - C) : x[k] = f[C + k]
  BY <1>0, PartOf
<1> HIDE DEF x
<1>a. ASSUME E = C + 1 PROVE \A c : f[C + 1] = c => x = <<c>>
  <2>2. Len(x) = 1 /\ x[1] = f[C + 1]
    BY <1>p, <1>a
  <2> QED BY <1>p, <2>2, OneChar
<1>b. ASSUME E = C + 2 PROVE \A c, d : f[C + 1] = c /\ f[C + 2] = d => x = <<c, d>>
  <2>2. Len(x) = 2 /\ x[1] = f[C + 1] /\ x[2] = f[C + 2]
    BY <1>p, <1>b
  <2> QED BY <1>p, <2>2, TwoChars
<1>c. ASSUME E = C + 3 PROVE \A c, d, e : f[C + 1] = c /\ f[C + 2] = d /\ f[C + 3] = e => x = <<c, d, e>>
  <2>2. Len(x) = 3 /\ x[1] = f[C + 1] /\ x[2] = f[C + 2] /\ x[3] = f[C + 3]
    BY <1>p, <1>c
  <2> QED BY <1>p, <2>2, ThreeChars
<1>d. ASSUME E = C + 4
      PROVE  \A c, d, e, g : f[C + 1] = c /\ f[C + 2] = d /\ f[C + 3] = e /\ f[C + 4] = g
                               => x = <<c, d, e, g>>
  <2>2. Len(x) = 4 /\ x[1] = f[C + 1] /\ x[2] = f[C + 2] /\ x[3] = f[C + 3] /\ x[4] = f[C + 4]
    BY <1>p, <1>d
  <2> QED BY <1>p, <2>2, FourChars
<1>1. ASSUME E = C, m = NONE PROVE Told
  <2>1. x = <<>>
    BY <1>1, <1>p, NoChar
  <2> QED BY <2>1, <1>1, ModsOfTexts
<1>2. ASSUME E = C + 1, m = "h", f[C + 1] = "h", build["small"] PROVE Told
  <2>1. x = <<"h">>
    BY <1>2, <1>a
  <2> QED BY <2>1, <1>2, ModsOfTexts
<1>3. ASSUME E = C + 1, m = "l", f[C + 1] = "l" PROVE Told
  <2>1. x = <<"l">>
    BY <1>3, <1>a
  <2> QED BY <2>1, <1>3, ModsOfTexts
<1>4. ASSUME E = C + 2, m = "hh", f[C + 1] = "h", f[C + 2] = "h", build["small"] PROVE Told
  <2>1. x = <<"h", "h">>
    BY <1>4, <1>b
  <2> QED BY <2>1, <1>4, ModsOfTexts
<1>5. ASSUME E = C + 2, m = "ll", f[C + 1] = "l", f[C + 2] = "l", build["large"] PROVE Told
  <2>1. x = <<"l", "l">>
    BY <1>5, <1>b
  <2> QED BY <2>1, <1>5, ModsOfTexts
<1>6. ASSUME E = C + 1, m = f[C + 1], m = "L", build["float"] PROVE Told
  <2>1. x = <<"L">>
    BY <1>6, <1>a
  <2> QED BY <2>1, <1>6, ModsOfTexts
<1>7. ASSUME E = C + 1, m = f[C + 1], m \in {"j", "z", "t"}, build["large"] PROVE Told
  <2>1. x = <<m>>
    BY <1>7, <1>a
  <2>2. ModsOf(<<"j">>) = {"j"} /\ ModsOf(<<"z">>) = {"z"} /\ ModsOf(<<"t">>) = {"t"}
    BY <1>7, ModsOfTexts
  <2>3. ModsOf(<<m>>) = {m}
    BY <2>2, <1>7
  <2> QED BY <2>1, <2>3
<1>8. ASSUME NEW D \in Nat, NEW n \in BitWidths,
             WideFrom(f, C, D), m = LmOf(MaxOf(n, D - C)),
             f[D + 1] = FirstOf(n), n = 64 => Has64,
             E = IF n = 8 THEN D + 1 ELSE D + 2,
             n # 8 => f[D + 2] = SecondOf(n)
      PROVE  Told
  <2>1. build["fixed"] /\ f[C + 1] = "w"
        /\ ((D = C + 2 /\ f[C + 2] = "f") \/ D = C + 1)
    BY <1>8 DEF WideFrom
  <2>2. n = 8 \/ n = 16 \/ n = 32 \/ n = 64
    BY DEF BitWidths
  <2>3. Carried(n)
    BY <1>8, <2>1, CarriedIs DEF Carried
  <2>4. CASE D = C + 1
    <3>1. D - C = 1 /\ m = LmOf(MaxOf(n, 1))
      BY <1>8, <2>4
    <3>2. m \in Holding(LeastMax[n])
      BY <1>8, <2>1, <3>1, CarriedIs DEF MaxOf
    <3>3. x = WTexts[n]
      <4>1. f[C + 2] = FirstOf(n) /\ (n # 8 => f[C + 3] = SecondOf(n))
            /\ E = IF n = 8 THEN C + 2 ELSE C + 3
        BY <1>8, <2>4
      <4>2. CASE n = 8
        BY <4>1, <4>2, <2>1, <1>b, WidthTexts, FirstsAre
      <4>3. CASE n # 8
        <5>1. x = <<"w", FirstOf(n), SecondOf(n)>>
          BY <4>1, <4>3, <2>1, <1>c
        <5> QED BY <5>1, <4>3, <2>2, WidthTexts, FirstsAre
      <4> QED BY <4>2, <4>3
    <3> QED BY <3>2, <3>3, <2>1, <2>3, ModsOfWide
  <2>5. CASE D = C + 2 /\ f[C + 2] = "f"
    <3>1. D - C = 2 /\ m = LmOf(MaxOf(n, 2))
      BY <1>8, <2>5
    <3>2. m \in Holding(FastMax[n])
      BY <1>8, <2>1, <3>1, CarriedIs DEF MaxOf
    <3>3. x = WfTexts[n]
      <4>1. f[C + 3] = FirstOf(n) /\ (n # 8 => f[C + 4] = SecondOf(n))
            /\ E = IF n = 8 THEN C + 3 ELSE C + 4
        BY <1>8, <2>5
      <4>2. CASE n = 8
        <5>1. x = <<"w", "f", FirstOf(n)>>
          BY <4>1, <4>2, <2>1, <2>5, <1>c
        <5> QED BY <5>1, <4>2, WidthTexts, FirstsAre
      <4>3. CASE n # 8
        <5>1. x = <<"w", "f", FirstOf(n), SecondOf(n)>>
          BY <4>1, <4>3, <2>1, <2>5, <1>d
        <5> QED BY <5>1, <4>3, <2>2, WidthTexts, FirstsAre
      <4> QED BY <4>2, <4>3
    <3> QED BY <3>2, <3>3, <2>1, <2>3, ModsOfWide
  <2> QED BY <2>1, <2>4, <2>5
<1>9. Told
  <2> HIDE DEF Told
  <2> QED BY <1>1, <1>2, <1>3, <1>4, <1>5, <1>6, <1>7, <1>8 DEF ModsDone
<1> QED BY <1>0, <1>9 DEF x

-----------------------------------------------------------------------------
(* The meanings of a text that is a part of the format.                      *)

MeaningAt(f, s, q, A, B, C) ==
  LET w == Part(f, A, B)
      p == Part(f, B, C)
  IN [flags |-> CharsOf(Part(f, s, A)),
      star  |-> w = <<"*">>,
      width |-> IF w = <<"*">> THEN 0 ELSE Number(w),
      prec_opt |-> CASE IsLiteral(p) -> LITERAL [] p = <<".", "*">> -> STAR [] OTHER -> NONE,
      prec  |-> IF IsLiteral(p) THEN Number(Tail(p)) ELSE 0,
      mods  |-> ModsOf(Part(f, C, q - 1)),
      conv  |-> ConvOf(f[q]), upper |-> IsUpper(f[q])]

\* The meanings of a text, one for each way to take it apart.
LEMMA MeaningsAre ==
  ASSUME NEW t, NEW m
  PROVE  m \in Meanings(t) <=>
           \E a, b, c \in 1..Len(t) : Fits(t, a, b, c) /\ m = Meaning(t, a, b, c)
<1>1. ASSUME m \in Meanings(t)
      PROVE  \E a, b, c \in 1..Len(t) : Fits(t, a, b, c) /\ m = Meaning(t, a, b, c)
  <2>1. PICK a \in 1..Len(t) :
          m \in UNION {{Meaning(t, a, b, c) : c \in {k \in 1..Len(t) : Fits(t, a, b, k)}}
                       : b \in 1..Len(t)}
    BY <1>1 DEF Meanings
  <2>2. PICK b \in 1..Len(t) :
          m \in {Meaning(t, a, b, c) : c \in {k \in 1..Len(t) : Fits(t, a, b, k)}}
    BY <2>1
  <2>3. PICK c \in {k \in 1..Len(t) : Fits(t, a, b, k)} : m = Meaning(t, a, b, c)
    BY <2>2
  <2> QED BY <2>3
<1>2. ASSUME NEW a \in 1..Len(t), NEW b \in 1..Len(t), NEW c \in 1..Len(t),
             Fits(t, a, b, c), m = Meaning(t, a, b, c)
      PROVE  m \in Meanings(t)
  <2> DEFINE of(x, y) == {Meaning(t, x, y, k) : k \in {k \in 1..Len(t) : Fits(t, x, y, k)}}
             all(x) == UNION {of(x, y) : y \in 1..Len(t)}
  <2>1. m \in of(a, b)
    BY <1>2
  <2>2. m \in all(a)
    <3> HIDE DEF of
    <3> QED BY <2>1
  <2>3. m \in UNION {all(x) : x \in 1..Len(t)}
    <3> HIDE DEF all
    <3> QED BY <2>2
  <2> QED BY <2>3 DEF Meanings
<1> QED BY <1>1, <1>2

TextOf(t, f, s, q) == t = SubSeq(f, s, q)

\* A text taken apart, as it is taken apart in the format.
LEMMA PartsLink ==
  ASSUME NEW S, NEW f \in Seq(S), NEW s \in 1..Len(f), NEW q \in s..Len(f), NEW t,
         TextOf(t, f, s, q),
         NEW a \in 1..Len(t), NEW b \in 1..Len(t), NEW c \in 1..Len(t),
         a <= b, b <= c, c < Len(t),
         NEW A, NEW B, NEW C, A = s + a - 1, B = s + b - 1, C = s + c - 1
  PROVE  /\ Part(t, 1, a) = Part(f, s, A)
         /\ Part(t, a, b) = Part(f, A, B)
         /\ Part(t, b, c) = Part(f, B, C)
         /\ Part(t, c, Len(t) - 1) = Part(f, C, q - 1)
         /\ t[1] = f[s] /\ t[Len(t)] = f[q]
         /\ C < q /\ s <= A /\ A <= B /\ B <= C
<1>1. Len(t) = q - s + 1 /\ \A k \in 1..(q - s + 1) : t[k] = f[s + k - 1]
  <2>1. t = SubSeq(f, s, q)
    BY DEF TextOf
  <2> QED BY ONLY <2>1, f \in Seq(S), s \in 1..Len(f), q \in s..Len(f)
<1>2. t[1] = f[s] /\ t[Len(t)] = f[q]
  <2>1. 1 \in 1..(q - s + 1) /\ s + 1 - 1 = s
    OBVIOUS
  <2>2. q - s + 1 \in 1..(q - s + 1) /\ s + (q - s + 1) - 1 = q
    OBVIOUS
  <2>3. t[1] = f[s + 1 - 1] /\ t[q - s + 1] = f[s + (q - s + 1) - 1]
    BY <2>1, <2>2, <1>1
  <2> QED BY <2>1, <2>2, <2>3, <1>1
<1>3. a \in Nat /\ b \in Nat /\ c \in Nat /\ 1 <= a /\ a <= b /\ b <= c /\ c <= q - s /\ 1 \in Nat
  BY <1>1
<1>4. Part(t, 1, a) = Part(f, s + 1 - 1, s + a - 1)
  BY <1>3, PartOfText DEF TextOf
<1>5. Part(t, a, b) = Part(f, s + a - 1, s + b - 1)
  BY <1>3, PartOfText DEF TextOf
<1>6. Part(t, b, c) = Part(f, s + b - 1, s + c - 1)
  <2>1. b \in Nat /\ c \in Nat /\ 1 <= b /\ b <= c /\ c <= q - s + 1
    BY <1>3
  <2> QED BY <2>1, PartOfText DEF TextOf
<1>7. Part(t, c, Len(t) - 1) = Part(f, s + c - 1, q - 1)
  <2> DEFINE d == q - s
  <2>1. c \in Nat /\ d \in Nat /\ 1 <= c /\ c <= d /\ d <= q - s + 1
    BY <1>3
  <2>2. Len(t) - 1 = d /\ s + d - 1 = q - 1
    BY <1>1
  <2> HIDE DEF d
  <2>3. Part(t, c, d) = Part(f, s + c - 1, s + d - 1)
    BY <2>1, PartOfText DEF TextOf
  <2> QED BY <2>2, <2>3
<1>8. s + 1 - 1 = s
  OBVIOUS
<1> QED BY <1>1, <1>2, <1>3, <1>4, <1>5, <1>6, <1>7, <1>8

\* A text that fits the grammar fits where it stands in the format, and means what stands there.
LEMMA FitsLink ==
  ASSUME NEW S, NEW f \in Seq(S), NEW s \in 1..Len(f), NEW q \in s..Len(f), NEW t,
         TextOf(t, f, s, q),
         NEW a \in 1..Len(t), NEW b \in 1..Len(t), NEW c \in 1..Len(t),
         Fits(t, a, b, c),
         NEW A, NEW B, NEW C, A = s + a - 1, B = s + b - 1, C = s + c - 1
  PROVE  FitsAt(f, s, q, A, B, C) /\ Meaning(t, a, b, c) = MeaningAt(f, s, q, A, B, C)
<1>1. a <= b /\ b <= c /\ c < Len(t)
  BY DEF Fits
<1>2. /\ Part(t, 1, a) = Part(f, s, A)
      /\ Part(t, a, b) = Part(f, A, B)
      /\ Part(t, b, c) = Part(f, B, C)
      /\ Part(t, c, Len(t) - 1) = Part(f, C, q - 1)
      /\ t[1] = f[s] /\ t[Len(t)] = f[q]
      /\ C < q /\ s <= A /\ A <= B /\ B <= C
  BY <1>1, PartsLink
<1>3. A \in Nat /\ B \in Nat /\ C \in Nat /\ q - 1 \in Nat /\ q <= Len(f) /\ s \in Nat
  BY <1>1
<1>p. A <= Len(f) /\ s <= A
  BY <1>2, <1>3
<1>4. /\ f[s] = "%" /\ IsFlags(Part(f, s, A)) /\ IsWidth(Part(f, A, B)) /\ IsPrec(Part(f, B, C))
      /\ ModsOf(Part(f, C, q - 1)) # {} /\ ConvOf(f[q]) # NONE
  BY <1>2 DEF Fits
<1>5. \A k \in (s + 1)..A : f[k] \in FlagChars
  BY <1>3, <1>4, <1>p, FlagsShape
<1>6. WidthAt(f, A, B)
  BY <1>2, <1>3, <1>4, WidthShape DEF WidthAt
<1>7. PrecAt(f, B, C)
  BY <1>2, <1>3, <1>4, PrecShape DEF PrecAt
<1>8. ModAt(f, C, q - 1)
  <2> DEFINE e == q - 1
  <2>1. e \in Nat /\ C <= e /\ e <= Len(f) /\ ModsOf(Part(f, C, e)) # {}
    BY <1>2, <1>3, <1>4
  <2> HIDE DEF e
  <2>2. ModAt(f, C, e)
    BY <2>1, <1>3, ModsShape
  <2> QED BY <2>2 DEF e
<1>9. FitsAt(f, s, q, A, B, C)
  BY <1>2, <1>4, <1>5, <1>6, <1>7, <1>8 DEF FitsAt
<1>10. Meaning(t, a, b, c) = MeaningAt(f, s, q, A, B, C)
  BY <1>2 DEF Meaning, MeaningAt
<1> QED BY <1>9, <1>10

\* And back: what fits in the format is a meaning of the text.
LEMMA FitsBack ==
  ASSUME NEW S, NEW f \in Seq(S), NEW s \in 1..Len(f), NEW q \in s..Len(f), NEW t,
         TextOf(t, f, s, q),
         NEW A \in Nat, NEW B \in Nat, NEW C \in Nat,
         s <= A, A <= B, B <= C, C < q,
         f[s] = "%", \A k \in (s + 1)..A : f[k] \in FlagChars,
         WidthAt(f, A, B), PrecAt(f, B, C),
         ModsOf(Part(f, C, q - 1)) # {}, ConvOf(f[q]) # NONE
  PROVE  MeaningAt(f, s, q, A, B, C) \in Meanings(t)
<1> DEFINE a == A - s + 1
           b == B - s + 1
           c == C - s + 1
<1>0. Len(t) = q - s + 1
  BY DEF TextOf
<1>1. /\ a \in 1..Len(t) /\ b \in 1..Len(t) /\ c \in 1..Len(t)
      /\ a <= b /\ b <= c /\ c < Len(t)
      /\ s + a - 1 = A /\ s + b - 1 = B /\ s + c - 1 = C
  BY <1>0
<1>3. A \in Nat /\ B \in Nat /\ C \in Nat /\ q - 1 \in Nat /\ q <= Len(f) /\ s \in Nat
  OBVIOUS
<1> HIDE DEF a, b, c
<1>2. /\ Part(t, 1, a) = Part(f, s, A)
      /\ Part(t, a, b) = Part(f, A, B)
      /\ Part(t, b, c) = Part(f, B, C)
      /\ Part(t, c, Len(t) - 1) = Part(f, C, q - 1)
      /\ t[1] = f[s] /\ t[Len(t)] = f[q]
  <2>1. A = s + a - 1 /\ B = s + b - 1 /\ C = s + c - 1
    BY <1>1
  <2>2. a \in 1..Len(t) /\ b \in 1..Len(t) /\ c \in 1..Len(t) /\ a <= b /\ b <= c /\ c < Len(t)
    BY <1>1
  <2> QED BY <2>1, <2>2, PartsLink
<1>p. A <= Len(f)
  OBVIOUS
<1>5. IsFlags(Part(f, s, A))
  BY <1>3, <1>p, FlagsShape
<1>6. IsWidth(Part(f, A, B))
  BY <1>3, WidthShape DEF WidthAt
<1>7. IsPrec(Part(f, B, C))
  BY <1>3, PrecShape DEF PrecAt
<1>9. Fits(t, a, b, c)
  BY <1>1, <1>2, <1>5, <1>6, <1>7 DEF Fits
<1>10. Meaning(t, a, b, c) = MeaningAt(f, s, q, A, B, C)
  BY <1>2 DEF Meaning, MeaningAt
<1> QED BY <1>1, <1>9, <1>10, MeaningsAre

\* What the parser has behind it is laid out as a text is.
LEMMA BeforeFits ==
  ASSUME NEW S, NEW f \in Seq(S), NEW s \in Nat, NEW A \in Nat, NEW B \in Nat, NEW C \in Nat,
         Before(f, s, A, B, C)
  PROVE  /\ s <= A /\ A <= B /\ B <= C /\ C <= Len(f)
         /\ \A k \in (s + 1)..A : f[k] \in FlagChars
         /\ WidthAt(f, A, B) /\ PrecAt(f, B, C)
<1>1. s <= A /\ (\A k \in (s + 1)..A : f[k] \in FlagChars) /\ f[A + 1] \notin FlagChars
      /\ A + 1 <= Len(f)
  BY DEF Before, FlagsDone
<1>2. A <= B /\ B <= Len(f) /\ WidthAt(f, A, B)
  <2>1. CASE ~build["width"] /\ B = A
    BY <2>1, <1>1 DEF WidthAt
  <2>2. CASE build["width"] /\ B = A + 1 /\ f[A + 1] = "*"
    BY <2>2, <1>1 DEF WidthAt
  <2>3. CASE build["width"] /\ A <= B /\ B + 1 <= Len(f) /\ Digits(f, A, B)
    <3>1. f[A + 1] # "0"
      BY <2>3, <1>1 DEF FlagChars
    <3> QED BY <2>3, <3>1 DEF WidthAt
  <2> QED BY <2>1, <2>2, <2>3 DEF Before, WidthDone
<1>3. B <= C /\ C <= Len(f) /\ PrecAt(f, B, C)
  <2>1. CASE C = B /\ B + 1 <= Len(f)
    BY <2>1 DEF PrecAt
  <2>2. CASE build["prec"] /\ C = B + 2 /\ C <= Len(f) /\ f[B + 1] = "." /\ f[B + 2] = "*"
    BY <2>2 DEF PrecAt
  <2>3. ASSUME NEW D \in Nat, PrecFrom(f, B, D), D <= C, C + 1 <= Len(f), Digits(f, D, C)
        PROVE  B <= C /\ C <= Len(f) /\ PrecAt(f, B, C)
    BY <2>3 DEF PrecFrom, PrecAt
  <2> QED BY <2>1, <2>2, <2>3 DEF Before, PrecDone
<1> QED BY <1>1, <1>2, <1>3

\* A text that parses means one thing: what the parser found.
LEMMA OneMeaning ==
  ASSUME TypeOK, NEW S, NEW f \in Seq(S), NEW s \in 1..Len(f), f[s] = "%",
         NEW A \in Nat, NEW B \in Nat, NEW C \in Nat, NEW E \in Nat, NEW m,
         Before(f, s, A, B, C), ModsDone(f, C, E, m), E + 1 <= Len(f), ConvOf(f[E + 1]) # NONE
  PROVE  /\ Meanings(SubSeq(f, s, E + 1)) = {MeaningAt(f, s, E + 1, A, B, C)}
         /\ m \in ModsOf(Part(f, C, E))
<1> DEFINE q == E + 1
           t == SubSeq(f, s, q)
<1>1. C <= E /\ m \in ModsOf(Part(f, C, E))
  BY ModsTold
<1>2. /\ s <= A /\ A <= B /\ B <= C /\ C <= Len(f)
      /\ \A k \in (s + 1)..A : f[k] \in FlagChars
      /\ WidthAt(f, A, B) /\ PrecAt(f, B, C)
  BY BeforeFits
<1>3. q \in s..Len(f) /\ q - 1 = E /\ C < q /\ ConvOf(f[q]) # NONE /\ q \in Nat /\ s \in Nat
  BY <1>1, <1>2
<1>x. TextOf(t, f, s, q)
  BY DEF TextOf
<1> HIDE DEF q, t
<1>4. MeaningAt(f, s, q, A, B, C) \in Meanings(t)
  <2>1. ModsOf(Part(f, C, q - 1)) # {}
    BY <1>1, <1>3
  <2> QED BY <2>1, <1>2, <1>3, <1>x, FitsBack
<1>5. ASSUME NEW r \in Meanings(t) PROVE r = MeaningAt(f, s, q, A, B, C)
  <2>1. PICK a \in 1..Len(t), b \in 1..Len(t), c \in 1..Len(t) :
           Fits(t, a, b, c) /\ r = Meaning(t, a, b, c)
    BY MeaningsAre
  <2>2. PICK x \in Nat, y \in Nat, z \in Nat : x = s + a - 1 /\ y = s + b - 1 /\ z = s + c - 1
    BY <1>3
  <2>3. FitsAt(f, s, q, x, y, z) /\ r = MeaningAt(f, s, q, x, y, z)
    BY <2>1, <2>2, <1>3, <1>x, FitsLink
  <2>4. q \in Nat /\ q <= Len(f) /\ s \in Nat /\ FitsAt(f, s, q, x, y, z)
    BY <1>3, <2>3
  <2>5. x = A /\ y = B /\ z = C
    BY ONLY <2>4, Before(f, s, A, B, C), f \in Seq(S), A \in Nat, B \in Nat, C \in Nat,
       x \in Nat, y \in Nat, z \in Nat, Forced
  <2> QED BY <2>3, <2>5
<1> QED BY <1>1, <1>4, <1>5 DEF q, t

\* What is dead begins no text that means anything.
LEMMA DeadNone ==
  ASSUME TypeOK, NEW S, NEW f \in Seq(S), NEW s \in 1..Len(f), NEW q \in s..Len(f), Dead(f, s)
  PROVE  Meanings(SubSeq(f, s, q)) = {}
<1> DEFINE t == SubSeq(f, s, q)
<1>x. TextOf(t, f, s, q)
  BY DEF TextOf
<1> HIDE DEF t
<1> SUFFICES ASSUME NEW r \in Meanings(t) PROVE FALSE
  BY DEF t
<1>1. PICK A \in Nat, B \in Nat, C \in Nat :
    /\ Before(f, s, A, B, C)
    /\ \/ ModsStuck(f, C)
       \/ \E E \in Nat, m \in LenMods :
            ModsDone(f, C, E, m) /\ E + 1 <= Len(f) /\ ConvOf(f[E + 1]) = NONE
  BY DEF Dead
<1>2. PICK a \in 1..Len(t), b \in 1..Len(t), c \in 1..Len(t) : Fits(t, a, b, c)
  BY MeaningsAre
<1> DEFINE x == s + a - 1
           y == s + b - 1
           z == s + c - 1
<1>3. FitsAt(f, s, q, x, y, z)
  BY <1>2, <1>x, FitsLink
<1>4. x \in Nat /\ y \in Nat /\ z \in Nat /\ q \in Nat /\ s \in Nat /\ q <= Len(f)
  OBVIOUS
<1> HIDE DEF x, y, z
<1>5. x = A /\ y = B /\ z = C
  BY <1>1, <1>3, <1>4, Forced
<1>6. C < q /\ ModAt(f, C, q - 1) /\ ConvOf(f[q]) # NONE
  BY <1>3, <1>5 DEF FitsAt
<1>7. ~ModsStuck(f, C)
  BY <1>4, <1>6, StuckNone
<1>8. PICK E \in Nat, m \in LenMods :
            ModsDone(f, C, E, m) /\ E + 1 <= Len(f) /\ ConvOf(f[E + 1]) = NONE
  BY <1>1, <1>7
<1>9. q = E + 1
  BY <1>4, <1>6, <1>8, ModsForced
<1> QED BY <1>6, <1>8, <1>9

\* A text that does not begin with a '%' means nothing.
LEMMA NoPercentNone ==
  ASSUME NEW S, NEW f \in Seq(S), NEW s \in 1..Len(f), NEW q \in s..Len(f), f[s] # "%"
  PROVE  Meanings(SubSeq(f, s, q)) = {}
<1> DEFINE t == SubSeq(f, s, q)
<1>x. t[1] = f[s]
  OBVIOUS
<1> HIDE DEF t
<1> SUFFICES ASSUME NEW r \in Meanings(t) PROVE FALSE
  BY DEF t
<1>2. PICK a \in 1..Len(t), b \in 1..Len(t), c \in 1..Len(t) : Fits(t, a, b, c)
  BY MeaningsAre
<1> QED BY <1>2, <1>x DEF Fits

-----------------------------------------------------------------------------
(* The numbers of a text.                                                    *)

\* The recursion by which a text of digits is read has its solution.
LEMMA NumberIs ==
  ASSUME NEW x, NEW n \in Nat, Len(x) = n, \A k \in 1..n : x[k] \in DigitSet
  PROVE  \E g \in [0..n -> Nat] :
            /\ g[0] = 0 /\ \A k \in 1..n : g[k] = 10 * g[k - 1] + DigitVals[x[k]]
            /\ Number(x) = g[n]
<1> DEFINE E(y, k) == 10 * y + DigitVals[x[k]]
           Step == [k \in 1..n |-> [y \in Nat |-> E(y, k)]]
           F == CHOOSE f : f = [k \in 0..n |-> IF k = 0 THEN 0 ELSE E(f[k - 1], k)]
<1>1. ASSUME NEW y \in Nat, NEW k \in 1..n PROVE E(y, k) \in Nat
  BY DigitTyped
<1>2. Turns(Step, n, Nat)
  <2> HIDE DEF E
  <2> QED BY <1>1 DEF Turns
<1>3. PICK f \in [0..n -> Nat] : f = [k \in 0..n |-> IF k = 0 THEN 0 ELSE Step[k][f[k - 1]]]
  <2> DEFINE T == Nat
             b == 0
  <2>1. b \in T /\ Turns(Step, n, T)
    BY <1>2
  <2> HIDE DEF Step, T, b
  <2>2. \E f \in [0..n -> T] : f = [k \in 0..n |-> IF k = 0 THEN b ELSE Step[k][f[k - 1]]]
    BY <2>1, Iteration
  <2> QED BY <2>2 DEF T, b
<1>4. f = [k \in 0..n |-> IF k = 0 THEN 0 ELSE E(f[k - 1], k)]
  <2>1. ASSUME NEW k \in 0..n
        PROVE  (IF k = 0 THEN 0 ELSE Step[k][f[k - 1]]) = (IF k = 0 THEN 0 ELSE E(f[k - 1], k))
    <3> HIDE DEF E
    <3>1. CASE k # 0
      <4>1. k \in 1..n /\ k - 1 \in 0..n
        BY <3>1
      <4>2. f[k - 1] \in Nat
        BY <4>1
      <4>3. Step[k][f[k - 1]] = E(f[k - 1], k)
        BY <4>1, <4>2
      <4> QED BY <3>1, <4>3, Zenon
    <3> QED BY <3>1
  <2> HIDE DEF E, Step
  <2> QED BY <2>1, <1>3, Zenon
<1>5. F = [k \in 0..n |-> IF k = 0 THEN 0 ELSE E(F[k - 1], k)]
  <2> HIDE DEF E
  <2> QED BY <1>4
<1>6. Number(x) = F[n]
  BY DEF Number
<1> HIDE DEF F
<1>7. F[0] = 0 /\ \A k \in 1..n : F[k] = 10 * F[k - 1] + DigitVals[x[k]]
  BY <1>5
<1>8. \A k \in 0..n : F[k] \in Nat
  <2> DEFINE T == {k \in 0..n : F[k] \in Nat}
  <2>1. 0 \in T
    BY <1>7
  <2>2. ASSUME NEW k \in 0..(n - 1), k \in T PROVE k + 1 \in T
    <3>1. k + 1 \in 1..n /\ (k + 1) - 1 = k
      OBVIOUS
    <3>2. F[k + 1] = E(F[k], k + 1)
      BY <3>1, <1>7
    <3> QED BY <3>1, <3>2, <2>2, <1>1
  <2>3. 0..n \subseteq T
    <3> HIDE DEF T
    <3> QED BY <2>1, <2>2, InductionUpTo
  <2> QED BY <2>3
<1>9. F \in [0..n -> Nat]
  <2> DEFINE G == [k \in 0..n |-> IF k = 0 THEN 0 ELSE E(F[k - 1], k)]
  <2>1. DOMAIN F = 0..n /\ F = [k \in DOMAIN F |-> F[k]]
    <3> HIDE DEF E
    <3> QED BY <1>5
  <2> QED BY <2>1, <1>8
<1> QED BY <1>6, <1>7, <1>9

\* A number with one more digit.
LEMMA NumberDigit ==
  ASSUME NEW S, NEW f \in Seq(S), NEW i \in Nat, NEW j \in Nat, i <= j, j <= Len(f), Digits(f, i, j)
  PROVE  /\ Number(Part(f, i, j)) \in Nat
         /\ i = j => Number(Part(f, i, j)) = 0
         /\ j + 1 <= Len(f) /\ f[j + 1] \in DigitSet
              => Number(Part(f, i, j + 1)) = 10 * Number(Part(f, i, j)) + DigitVals[f[j + 1]]
<1> DEFINE x == Part(f, i, j)
           n == j - i
<1>1. Len(x) = n /\ \A k \in 1..n : x[k] = f[i + k]
  BY PartOf
<1>2. n \in Nat /\ \A k \in 1..n : x[k] \in DigitSet
  BY <1>1 DEF Digits
<1> HIDE DEF x
<1>3. PICK g \in [0..n -> Nat] :
            /\ g[0] = 0 /\ \A k \in 1..n : g[k] = 10 * g[k - 1] + DigitVals[x[k]]
            /\ Number(x) = g[n]
  <2> HIDE DEF n
  <2> QED BY <1>1, <1>2, NumberIs
<1>4. Number(x) \in Nat /\ (i = j => Number(x) = 0)
  BY <1>2, <1>3
<1>5. ASSUME j + 1 <= Len(f), f[j + 1] \in DigitSet
      PROVE  Number(Part(f, i, j + 1)) = 10 * Number(x) + DigitVals[f[j + 1]]
  <2> DEFINE j1 == j + 1
             y == Part(f, i, j1)
             p == n + 1
  <2>1. j1 \in Nat /\ i <= j1 /\ j1 <= Len(f) /\ j1 - i = p /\ i + p = j1
    BY <1>5
  <2>2. Len(y) = p /\ \A k \in 1..p : y[k] = f[i + k]
    <3> HIDE DEF j1, p
    <3>1. Len(y) = j1 - i /\ \A k \in 1..(j1 - i) : y[k] = f[i + k]
      BY <2>1, PartOf
    <3> QED BY <3>1, <2>1
  <2>3. \A k \in 1..n : y[k] = x[k]
    BY <2>2, <1>1, <1>2
  <2>4. y[p] = f[j + 1]
    BY <2>1, <2>2, <1>2
  <2> HIDE DEF y
  <2>5. \A k \in 1..p : y[k] \in DigitSet
    <3> SUFFICES ASSUME NEW k \in 1..p PROVE y[k] \in DigitSet
      OBVIOUS
    <3>1. k \in 1..n \/ k = p
      BY <1>2
    <3> QED BY <3>1, <2>3, <2>4, <1>2, <1>5
  <2>6. p \in Nat
    BY <1>2
  <2>7. PICK h \in [0..p -> Nat] :
            /\ h[0] = 0 /\ \A k \in 1..p : h[k] = 10 * h[k - 1] + DigitVals[y[k]]
            /\ Number(y) = h[p]
    <3> HIDE DEF p
    <3> QED BY <2>2, <2>5, <2>6, NumberIs
  <2> DEFINE T == {k \in 0..n : h[k] = g[k]}
  <2>8. 0 \in T
    BY <1>2, <1>3, <2>7
  <2>9. ASSUME NEW k \in 0..(n - 1), k \in T PROVE k + 1 \in T
    <3>1. k + 1 \in 1..n /\ k + 1 \in 1..p /\ (k + 1) - 1 = k
      BY <1>2
    <3> HIDE DEF n, p
    <3>2. h[k + 1] = 10 * h[k + 1 - 1] + DigitVals[y[k + 1]]
      BY <3>1, <2>7
    <3>3. g[k + 1] = 10 * g[k + 1 - 1] + DigitVals[x[k + 1]]
      BY <3>1, <1>3
    <3>4. h[k] = g[k] /\ y[k + 1] = x[k + 1]
      BY <3>1, <2>3, <2>9
    <3>5. h[k + 1] = g[k + 1]
      BY <3>1, <3>2, <3>3, <3>4
    <3>6. k + 1 \in 0..n
      BY <1>2
    <3> QED BY <3>5, <3>6
  <2>10. 0..n \subseteq T
    <3> HIDE DEF T, n
    <3> QED BY <1>2, <2>8, <2>9, InductionUpTo
  <2>11. h[n] = g[n]
    BY <2>10, <1>2
  <2>12. h[p] = 10 * h[n] + DigitVals[y[p]]
    <3>1. p \in 1..p /\ p - 1 = n
      BY <1>2
    <3> QED BY <3>1, <2>7
  <2> QED BY <2>4, <2>7, <2>11, <2>12, <1>3 DEF y
<1> QED BY <1>4, <1>5 DEF x

\* The accumulator goes on telling the number, or that it is past the ceiling.
LEMMA StoredStep ==
  ASSUME NEW v \in Nat, NEW n \in Nat, NEW d \in 0..9, Stored(v, n)
  PROVE  Stored(IF v < FmtNumBig THEN v * 10 + d ELSE v, 10 * n + d)
<1> DEFINE w == IF v < FmtNumBig THEN v * 10 + d ELSE v
           m == 10 * n + d
<1>1. m \div 10 = n
  OBVIOUS
<1>2. FmtNumBig \in Nat
  BY WidthsAssumption
<1>3. n \div 10 \in Nat /\ n \div 10 <= n
  OBVIOUS
<1>4. CASE n \div 10 < FmtNumBig
  <2>1. v = n
    BY <1>4 DEF Stored
  <2> HIDE DEF m
  <2> QED BY <2>1, <1>1, <1>2 DEF Stored, m
<1>5. CASE ~(n \div 10 < FmtNumBig)
  <2>1. v >= FmtNumBig /\ ~(n < FmtNumBig)
    BY <1>2, <1>3, <1>5 DEF Stored
  <2>2. w = v
    BY <2>1, <1>2
  <2> HIDE DEF w, m
  <2>3. Stored(w, m)
    BY <2>1, <2>2, <1>1 DEF Stored
  <2> QED BY <2>3 DEF w, m
<1> QED BY <1>4, <1>5

-----------------------------------------------------------------------------
(* What fs says of the parts the parser has behind it.                       *)

FlagSet(f, s, A) == {f[k] : k \in (s + 1)..A}
FlagsSay(fl, x) ==
  /\ x.left_justified <=> "-" \in fl
  /\ x.leading_zero_pad <=> "0" \in fl
  /\ x.alt_form <=> "#" \in fl
  /\ x.prepend = (CASE "+" \in fl -> "+" [] fl \cap {"+", SPACE} = {SPACE} -> SPACE
                    [] OTHER -> NUL)
WidthSays(w, x) ==
  /\ x.field_width_opt = (IF w = <<"*">> THEN STAR ELSE NONE)
  /\ w # <<"*">> => Stored(x.field_width, Number(w))
PrecSays(p, x) ==
  /\ x.prec_opt = (CASE IsLiteral(p) -> LITERAL [] p = <<".", "*">> -> STAR [] OTHER -> NONE)
  /\ IsLiteral(p) => Stored(x.prec, Number(Tail(p)))

AtFlags(f, s, A, x) == FlagsDone(f, s, A) /\ FlagsSay(FlagSet(f, s, A), x)
AtDot(f, s, A, B, x) == /\ AtFlags(f, s, A, x) /\ WidthDone(f, A, B) /\ A <= B /\ B <= Len(f)
                        /\ WidthSays(Part(f, A, B), x)
AtMod(f, s, A, B, C, x) == /\ AtDot(f, s, A, B, x) /\ PrecDone(f, B, C) /\ B <= C /\ C <= Len(f)
                           /\ PrecSays(Part(f, B, C), x)

SameFlags(x, y) == /\ y.left_justified <=> x.left_justified
                   /\ y.leading_zero_pad <=> x.leading_zero_pad
                   /\ y.alt_form <=> x.alt_form
                   /\ y.prepend = x.prepend
SameWidth(x, y) == y.field_width_opt = x.field_width_opt /\ y.field_width = x.field_width
SamePrec(x, y) == y.prec_opt = x.prec_opt /\ y.prec = x.prec

\* The format is read further.
Longer(f, g) == /\ Len(f) <= Len(g)
                /\ \A k \in 1..Len(f) : g[k] = f[k]

\* What has been read stays: each fact about the part of the format behind the cursor holds of
\* every longer format, and of every struct that agrees on the fields it is about.
LEMMA LongerPart ==
  ASSUME NEW S, NEW f \in Seq(S), NEW g \in Seq(S), Longer(f, g),
         NEW i \in Nat, NEW j \in Nat, i <= j, j <= Len(f)
  PROVE  Part(g, i, j) = Part(f, i, j)
<1> DEFINE x == Part(f, i, j)
           y == Part(g, i, j)
<1>1. x \in Seq(S) /\ Len(x) = j - i /\ \A k \in 1..(j - i) : x[k] = f[i + k]
  BY PartOf
<1>2. y \in Seq(S) /\ Len(y) = j - i /\ \A k \in 1..(j - i) : y[k] = g[i + k]
  <2>1. j <= Len(g)
    BY DEF Longer
  <2> QED BY <2>1, PartOf
<1>3. \A k \in 1..(j - i) : y[k] = x[k]
  <2> SUFFICES ASSUME NEW k \in 1..(j - i) PROVE y[k] = x[k]
    OBVIOUS
  <2>1. i + k \in 1..Len(f)
    OBVIOUS
  <2> HIDE DEF x, y
  <2> QED BY <2>1, <1>1, <1>2 DEF Longer
<1> HIDE DEF x, y
<1>4. y = x
  BY <1>1, <1>2, <1>3, SeqEqual
<1> QED BY <1>4 DEF x, y

LEMMA LongerText ==
  ASSUME NEW S, NEW f \in Seq(S), NEW g \in Seq(S), Longer(f, g),
         NEW i \in Nat \ {0}, NEW j \in Nat, j <= Len(f), i <= j
  PROVE  SubSeq(g, i, j) = SubSeq(f, i, j)
<1> DEFINE i0 == i - 1
<1>1. i0 \in Nat /\ i0 <= j /\ i0 + 1 = i
  OBVIOUS
<1> HIDE DEF i0
<1>2. Part(g, i0, j) = Part(f, i0, j)
  BY <1>1, LongerPart
<1> QED BY <1>1, <1>2 DEF Part

LEMMA LongerFlags ==
  ASSUME NEW S, NEW f \in Seq(S), NEW g \in Seq(S), Longer(f, g), NEW s \in Nat, NEW A \in Nat, NEW x, NEW y,
         AtFlags(f, s, A, x), SameFlags(x, y)
  PROVE  AtFlags(g, s, A, y)
<1>1. \A k \in (s + 1)..A : k \in 1..Len(f) /\ g[k] = f[k]
  BY DEF AtFlags, FlagsDone, Longer
<1>2. FlagSet(g, s, A) = FlagSet(f, s, A)
  BY <1>1 DEF FlagSet
<1>3. FlagsDone(g, s, A)
  BY <1>1 DEF AtFlags, FlagsDone, Longer
<1>4. FlagsSay(FlagSet(f, s, A), y)
  BY DEF AtFlags, FlagsSay, SameFlags
<1> QED BY <1>2, <1>3, <1>4 DEF AtFlags

LEMMA LongerDigits ==
  ASSUME NEW S, NEW f \in Seq(S), NEW g \in Seq(S), Longer(f, g), NEW i \in Nat, NEW j \in Nat, j <= Len(f), Digits(f, i, j)
  PROVE  Digits(g, i, j)
BY DEF Longer, Digits

LEMMA LongerDot ==
  ASSUME NEW S, NEW f \in Seq(S), NEW g \in Seq(S), Longer(f, g), NEW s \in Nat, NEW A \in Nat, NEW B \in Nat, NEW x, NEW y,
         AtDot(f, s, A, B, x), SameFlags(x, y), SameWidth(x, y)
  PROVE  AtDot(g, s, A, B, y)
<1>1. AtFlags(g, s, A, y)
  BY LongerFlags DEF AtDot
<1>2. A <= B /\ B <= Len(f) /\ A + 1 <= Len(f) /\ WidthDone(f, A, B)
  BY DEF AtDot, AtFlags, FlagsDone
<1>3. WidthDone(g, A, B)
  BY <1>2, LongerDigits DEF WidthDone, Longer
<1>4. Part(g, A, B) = Part(f, A, B)
  BY <1>2, LongerPart
<1>5. WidthSays(Part(f, A, B), y)
  BY DEF AtDot, WidthSays, SameWidth
<1> QED BY <1>1, <1>2, <1>3, <1>4, <1>5 DEF AtDot, Longer

LEMMA LongerFrom ==
  ASSUME NEW S, NEW f \in Seq(S), NEW g \in Seq(S), Longer(f, g), NEW B \in Nat, NEW D \in Nat,
         PrecFrom(f, B, D)
  PROVE  PrecFrom(g, B, D)
BY DEF PrecFrom, Longer

LEMMA LongerPrec ==
  ASSUME NEW S, NEW f \in Seq(S), NEW g \in Seq(S), Longer(f, g), NEW B \in Nat, NEW C \in Nat,
         B <= C, C <= Len(f), PrecDone(f, B, C)
  PROVE  PrecDone(g, B, C)
<1>1. ASSUME NEW D \in Nat, PrecFrom(f, B, D), D <= C, C + 1 <= Len(f), Digits(f, D, C),
             f[C + 1] \notin DigitSet
      PROVE  PrecFrom(g, B, D) /\ Digits(g, D, C) /\ g[C + 1] \notin DigitSet /\ C + 1 <= Len(g)
  <2>1. PrecFrom(g, B, D)
    BY <1>1, LongerFrom
  <2>2. Digits(g, D, C)
    BY <1>1, LongerDigits
  <2> QED BY <1>1, <2>1, <2>2 DEF Longer
<1> QED BY <1>1 DEF PrecDone, Longer

LEMMA LongerMod ==
  ASSUME NEW S, NEW f \in Seq(S), NEW g \in Seq(S), Longer(f, g), NEW s \in Nat, NEW A \in Nat, NEW B \in Nat, NEW C \in Nat, NEW x, NEW y,
         AtMod(f, s, A, B, C, x), SameFlags(x, y), SameWidth(x, y), SamePrec(x, y)
  PROVE  AtMod(g, s, A, B, C, y)
<1>1. AtDot(g, s, A, B, y)
  BY LongerDot DEF AtMod
<1>2. B <= C /\ C <= Len(f) /\ PrecDone(f, B, C)
  BY DEF AtMod
<1>3. PrecDone(g, B, C)
  BY <1>2, LongerPrec
<1>4. Part(g, B, C) = Part(f, B, C)
  BY <1>2, LongerPart
<1>5. PrecSays(Part(f, B, C), y)
  BY DEF AtMod, PrecSays, SamePrec
<1> QED BY <1>1, <1>2, <1>3, <1>4, <1>5 DEF AtMod, Longer

LEMMA LongerWide ==
  ASSUME NEW S, NEW f \in Seq(S), NEW g \in Seq(S), Longer(f, g), NEW C \in Nat, NEW D,
         WideFrom(f, C, D)
  PROVE  WideFrom(g, C, D)
BY DEF WideFrom, Longer

LEMMA LongerDone ==
  ASSUME NEW S, NEW f \in Seq(S), NEW g \in Seq(S), Longer(f, g), NEW C \in Nat, NEW E \in Nat, NEW m,
         ModsDone(f, C, E, m)
  PROVE  ModsDone(g, C, E, m) /\ C <= E /\ E <= Len(f)
<1>1. ASSUME NEW D \in Nat, NEW n \in BitWidths,
             WideFrom(f, C, D), m = LmOf(MaxOf(n, D - C)), E <= Len(f),
             f[D + 1] = FirstOf(n), n = 64 => Has64,
             E = IF n = 8 THEN D + 1 ELSE D + 2,
             n # 8 => f[D + 2] = SecondOf(n)
      PROVE  ModsDone(g, C, E, m) /\ C <= E /\ E <= Len(f)
  <2>1. WideFrom(g, C, D) /\ E <= Len(g) /\ g[D + 1] = f[D + 1] /\ (n # 8 => g[D + 2] = f[D + 2])
        /\ C <= E
    <3>1. D >= C
      BY <1>1 DEF WideFrom
    <3> QED BY <1>1, <3>1, LongerWide DEF Longer
  <2> QED BY <1>1, <2>1 DEF ModsDone
<1>2. ASSUME \/ E = C /\ m = NONE /\ C + 1 <= Len(f) /\ ~Starts(f[C + 1])
             \/ E = C + 1 /\ m = "h" /\ C + 2 <= Len(f) /\ f[C + 1] = "h" /\ build["small"] /\ f[C + 2] # "h"
             \/ /\ E = C + 1 /\ m = "l" /\ C + 1 <= Len(f) /\ f[C + 1] = "l"
                /\ (build["large"] => C + 2 <= Len(f) /\ f[C + 2] # "l")
             \/ E = C + 2 /\ m = "hh" /\ E <= Len(f) /\ f[C + 1] = "h" /\ f[C + 2] = "h" /\ build["small"]
             \/ E = C + 2 /\ m = "ll" /\ E <= Len(f) /\ f[C + 1] = "l" /\ f[C + 2] = "l" /\ build["large"]
             \/ /\ E = C + 1 /\ m = f[C + 1] /\ E <= Len(f)
                /\ \/ m = "L" /\ build["float"]
                   \/ m \in {"j", "z", "t"} /\ build["large"]
      PROVE  ModsDone(g, C, E, m) /\ C <= E /\ E <= Len(f)
  <2>1. E <= Len(f) /\ C <= E /\ Len(f) <= Len(g)
    BY <1>2 DEF Longer
  <2>2. /\ C + 1 <= Len(f) => g[C + 1] = f[C + 1]
        /\ C + 2 <= Len(f) => g[C + 2] = f[C + 2]
    BY DEF Longer
  <2> QED BY <1>2, <2>1, <2>2 DEF ModsDone
<1> QED BY <1>1, <1>2 DEF ModsDone

LEMMA LongerDead ==
  ASSUME NEW S, NEW f \in Seq(S), NEW g \in Seq(S), Longer(f, g), NEW s \in Nat, Dead(f, s)
  PROVE  Dead(g, s)
<1>1. PICK A \in Nat, B \in Nat, C \in Nat :
    /\ Before(f, s, A, B, C)
    /\ \/ ModsStuck(f, C)
       \/ \E E \in Nat, m \in LenMods :
            ModsDone(f, C, E, m) /\ E + 1 <= Len(f) /\ ConvOf(f[E + 1]) = NONE
  BY DEF Dead
<1>2. Before(g, s, A, B, C)
  <2>0. /\ s <= A /\ A <= B /\ B <= C /\ C <= Len(f)
    BY <1>1, BeforeFits
  <2>1. FlagsDone(g, s, A)
    BY <1>1 DEF Before, FlagsDone, Longer
  <2>2. WidthDone(g, A, B)
    <3>1. A + 1 <= Len(f)
      BY <1>1 DEF Before, FlagsDone
    <3>2. CASE ~build["width"] /\ B = A
      BY <3>2 DEF WidthDone
    <3>3. CASE build["width"] /\ B = A + 1 /\ f[A + 1] = "*"
      BY <3>1, <3>3 DEF WidthDone, Longer
    <3>4. CASE /\ build["width"] /\ A <= B /\ B + 1 <= Len(f) /\ f[A + 1] # "*"
               /\ Digits(f, A, B) /\ f[B + 1] \notin DigitSet
      BY <3>1, <3>4, LongerDigits DEF WidthDone, Longer
    <3> QED BY <1>1, <3>2, <3>3, <3>4 DEF Before, WidthDone
  <2>3. PrecDone(g, B, C)
    BY <1>1, <2>0, LongerPrec DEF Before
  <2> QED BY <2>1, <2>2, <2>3 DEF Before
<1>3. ASSUME ModsStuck(f, C) PROVE ModsStuck(g, C)
  <2>1. PICK D \in Nat :
        /\ WideFrom(f, C, D) /\ D + 1 <= Len(f)
        /\ \/ f[D + 1] \notin {"8", "1", "3"} /\ ~(f[D + 1] = "6" /\ Has64)
           \/ \E n \in {16, 32, 64} : /\ D + 2 <= Len(f) /\ f[D + 1] = FirstOf(n)
                                      /\ f[D + 2] # SecondOf(n)
    BY <1>3 DEF ModsStuck
  <2>2. WideFrom(g, C, D) /\ D + 1 <= Len(g) /\ g[D + 1] = f[D + 1]
        /\ (D + 2 <= Len(f) => D + 2 <= Len(g) /\ g[D + 2] = f[D + 2])
    BY <2>1, LongerWide DEF Longer
  <2> QED BY <2>1, <2>2 DEF ModsStuck
<1>4. ASSUME NEW E \in Nat, NEW m \in LenMods, ModsDone(f, C, E, m), E + 1 <= Len(f), ConvOf(f[E + 1]) = NONE
      PROVE  ModsDone(g, C, E, m) /\ E + 1 <= Len(g) /\ ConvOf(g[E + 1]) = NONE
  BY <1>4, LongerDone DEF Longer
<1> QED BY <1>1, <1>2, <1>3, <1>4 DEF Dead

-----------------------------------------------------------------------------
(* Where the parser is, and what it has behind it: f is the format, c the    *)
(* cursor, s the '%' and x the struct.                                       *)

FlagsPlace(f, c, s, x) ==
  \E A \in Nat : /\ c = A + 1 /\ s <= A /\ A <= Len(f)
                 /\ \A k \in (s + 1)..A : f[k] \in FlagChars
                 /\ FlagsSay(FlagSet(f, s, A), x)
WidthPlace(f, c, s, x) ==
  \E A \in Nat : c = A + 1 /\ build["width"] /\ AtFlags(f, s, A, x)
WidthNumPlace(f, c, s, n, x) ==
  \E A, B \in Nat : /\ c = B + 1 /\ build["width"] /\ AtFlags(f, s, A, x)
                    /\ A <= B /\ B <= Len(f) /\ f[A + 1] # "*" /\ Digits(f, A, B)
                    /\ Stored(n, Number(Part(f, A, B))) /\ x.field_width_opt = NONE
DotPlace(f, c, s, x) ==
  \E A, B \in Nat : c = B + 1 /\ AtDot(f, s, A, B, x)
PrecPlace(f, c, s, x) ==
  \E A, B \in Nat : /\ c = B + 2 /\ AtDot(f, s, A, B, x) /\ B + 1 <= Len(f)
                    /\ build["prec"] /\ f[B + 1] = "." /\ x.prec_opt = NONE
PrecNumPlace(f, c, s, n, x) ==
  \E A, B, D, C \in Nat :
     /\ c = C + 1 /\ AtDot(f, s, A, B, x) /\ PrecFrom(f, B, D)
     /\ D <= C /\ C <= Len(f) /\ Digits(f, D, C) /\ Stored(n, Number(Part(f, D, C)))
     /\ x.prec_opt = IF D = B + 1 THEN LITERAL ELSE NONE
LenModPlace(f, c, s, x) ==
  \E A, B, C \in Nat : c = C + 1 /\ AtMod(f, s, A, B, C, x)
TwicePlace(f, c, s, x) ==
  \E A, B, C \in Nat : /\ c = C + 2 /\ AtMod(f, s, A, B, C, x) /\ C + 1 <= Len(f)
                       /\ f[C + 1] = x.length_modifier
                       /\ \/ x.length_modifier = "h" /\ build["small"]
                          \/ x.length_modifier = "l" /\ build["large"]
FastPlace(f, c, s, x) ==
  \E A, B, C \in Nat : /\ c = C + 2 /\ AtMod(f, s, A, B, C, x) /\ C + 1 <= Len(f)
                       /\ f[C + 1] = "w" /\ build["fixed"]
BitsPlace(f, c, s, w, x) ==
  \E A, B, C, D \in Nat : /\ c = D + 1 /\ AtMod(f, s, A, B, C, x) /\ WideFrom(f, C, D)
                          /\ D <= Len(f) /\ D - C = IF w THEN 2 ELSE 1
ConfirmPlace(f, c, s, d, x) ==
  \E A, B, C, D \in Nat : \E n \in {16, 32, 64} :
     /\ c = D + 2 /\ AtMod(f, s, A, B, C, x) /\ WideFrom(f, C, D) /\ D + 1 <= Len(f)
     /\ f[D + 1] = FirstOf(n) /\ d = SecondOf(n) /\ (n = 64 => Has64)
     /\ x.length_modifier = LmOf(MaxOf(n, D - C))
ConvPlace(f, c, s, x) ==
  \E A, B, C, E \in Nat : /\ c = E + 1 /\ AtMod(f, s, A, B, C, x)
                          /\ ModsDone(f, C, E, x.length_modifier)

PlaceAt(f, p, c, s, n, w, d, x) ==
  /\ ~build["width"] => x.field_width = 0
  /\ p = "flags" => FlagsPlace(f, c, s, x)
  /\ p = "width" => WidthPlace(f, c, s, x)
  /\ p = "widthnum" => WidthNumPlace(f, c, s, n, x)
  /\ p = "dot" => DotPlace(f, c, s, x)
  /\ p = "prec" => PrecPlace(f, c, s, x)
  /\ p = "precnum" => PrecNumPlace(f, c, s, n, x)
  /\ p = "lenmod" => LenModPlace(f, c, s, x)
  /\ p = "twice" => TwicePlace(f, c, s, x)
  /\ p = "fast" => FastPlace(f, c, s, x)
  /\ p = "bits" => BitsPlace(f, c, s, w, x)
  /\ p = "confirm" => ConfirmPlace(f, c, s, d, x)
  /\ p = "conv" => ConvPlace(f, c, s, x)

PlaceInv == PlaceAt(fmt, pc, cur, start, num, fast, second, fs)

Text1 == Seq(Chars \cup {NUL})
Walked == TypeOK /\ CursorInv /\ FsInv /\ PlaceInv

\* A step that reads a character makes the format longer, or leaves it.
LEMMA ReadOn ==
  ASSUME Walked, NEW c, Reads(c)
  PROVE  /\ fmt \in Text1 /\ fmt' \in Text1 /\ Longer(fmt, fmt')
         /\ cur \in Nat \ {0} /\ start \in Nat \ {0} /\ cur <= Len(fmt') /\ fmt'[cur] = c
         /\ fs \in FormatSpec /\ num \in Nat
<1>1. TypeOK /\ CursorInv
  BY DEF Walked
<1>2. /\ fmt' \in Seq(Chars \cup {NUL})
      /\ cur \in 1..Len(fmt') /\ fmt'[cur] = c
      /\ \A k \in 1..Len(fmt) : k <= Len(fmt') /\ fmt'[k] = fmt[k]
  BY <1>1, Reading
<1>3. fmt \in Seq(Chars \cup {NUL}) /\ fs \in FormatSpec /\ num \in Nat
      /\ cur \in Nat \ {0} /\ start \in Nat \ {0}
  BY <1>1 DEF TypeOK
<1>4. Len(fmt) <= Len(fmt')
  <2>1. Len(fmt) \in Nat /\ Len(fmt') \in Nat
    BY <1>2, <1>3
  <2>2. CASE Len(fmt) = 0
    BY <2>1, <2>2
  <2>3. CASE Len(fmt) # 0
    <3>1. Len(fmt) \in 1..Len(fmt)
      BY <2>1, <2>3
    <3> QED BY <3>1, <1>2
  <2> QED BY <2>2, <2>3
<1> QED BY <1>2, <1>3, <1>4 DEF Longer, Text1

\* Setting the modifier leaves the other fields.
LEMMA SpecFields ==
  ASSUME NEW x \in FormatSpec, NEW m
  PROVE  LET y == [x EXCEPT !.length_modifier = m]
         IN SameFlags(x, y) /\ SameWidth(x, y) /\ SamePrec(x, y) /\ y.length_modifier = m
BY DEF FormatSpec, SameFlags, SameWidth, SamePrec

\* One more flag.
LEMMA FlagSaid ==
  ASSUME NEW x \in FormatSpec, NEW fl, NEW c \in {"-", "0", "#", "+", SPACE}, NEW y,
         FlagsSay(fl, x),
         y = CASE c = "-" -> [x EXCEPT !.left_justified = TRUE]
             [] c = "0" -> [x EXCEPT !.leading_zero_pad = TRUE]
             [] c = "#" -> [x EXCEPT !.alt_form = TRUE]
             [] OTHER -> IF x.prepend = "+" THEN x ELSE [x EXCEPT !.prepend = c]
  PROVE  FlagsSay(fl \cup {c}, y)
<1> DEFINE g == fl \cup {c}
<1>0. /\ x.left_justified <=> "-" \in fl
      /\ x.leading_zero_pad <=> "0" \in fl
      /\ x.alt_form <=> "#" \in fl
      /\ x.prepend = (CASE "+" \in fl -> "+" [] fl \cap {"+", SPACE} = {SPACE} -> SPACE
                    [] OTHER -> NUL)
  BY DEF FlagsSay
<1>9. SPACE \notin {"-", "0", "#", "+", NUL} /\ "+" # NUL
  BY DEF SPACE, NUL
<1>1. CASE c = "-"
  <2>1. y = [x EXCEPT !.left_justified = TRUE]
    BY <1>1
  <2>2. y.left_justified /\ (y.leading_zero_pad <=> x.leading_zero_pad)
        /\ (y.alt_form <=> x.alt_form) /\ y.prepend = x.prepend
    BY <2>1 DEF FormatSpec
  <2>3. "-" \in g /\ ("0" \in g <=> "0" \in fl) /\ ("#" \in g <=> "#" \in fl)
        /\ ("+" \in g <=> "+" \in fl) /\ g \cap {"+", SPACE} = fl \cap {"+", SPACE}
    BY <1>1, <1>9
  <2> HIDE DEF g
  <2>4. FlagsSay(g, y)
    BY <1>0, <2>2, <2>3 DEF FlagsSay
  <2> QED BY <2>4 DEF g
<1>2. CASE c = "0"
  <2>1. y = [x EXCEPT !.leading_zero_pad = TRUE]
    BY <1>2
  <2>2. y.leading_zero_pad /\ (y.left_justified <=> x.left_justified)
        /\ (y.alt_form <=> x.alt_form) /\ y.prepend = x.prepend
    BY <2>1 DEF FormatSpec
  <2>3. "0" \in g /\ ("-" \in g <=> "-" \in fl) /\ ("#" \in g <=> "#" \in fl)
        /\ ("+" \in g <=> "+" \in fl) /\ g \cap {"+", SPACE} = fl \cap {"+", SPACE}
    BY <1>2, <1>9
  <2> HIDE DEF g
  <2>4. FlagsSay(g, y)
    BY <1>0, <2>2, <2>3 DEF FlagsSay
  <2> QED BY <2>4 DEF g
<1>3. CASE c = "#"
  <2>1. y = [x EXCEPT !.alt_form = TRUE]
    BY <1>3
  <2>2. y.alt_form /\ (y.left_justified <=> x.left_justified)
        /\ (y.leading_zero_pad <=> x.leading_zero_pad) /\ y.prepend = x.prepend
    BY <2>1 DEF FormatSpec
  <2>3. "#" \in g /\ ("-" \in g <=> "-" \in fl) /\ ("0" \in g <=> "0" \in fl)
        /\ ("+" \in g <=> "+" \in fl) /\ g \cap {"+", SPACE} = fl \cap {"+", SPACE}
    BY <1>3, <1>9
  <2> HIDE DEF g
  <2>4. FlagsSay(g, y)
    BY <1>0, <2>2, <2>3 DEF FlagsSay
  <2> QED BY <2>4 DEF g
<1>4. CASE c \in {"+", SPACE}
  <2>1. y = IF x.prepend = "+" THEN x ELSE [x EXCEPT !.prepend = c]
    BY <1>4, <1>9
  <2>2. (y.alt_form <=> x.alt_form) /\ (y.left_justified <=> x.left_justified)
        /\ (y.leading_zero_pad <=> x.leading_zero_pad)
        /\ y.prepend = IF x.prepend = "+" THEN "+" ELSE c
    BY <2>1 DEF FormatSpec
  <2>3. ("#" \in g <=> "#" \in fl) /\ ("-" \in g <=> "-" \in fl) /\ ("0" \in g <=> "0" \in fl)
    BY <1>4, <1>9
  <2>4. y.prepend = (CASE "+" \in g -> "+" [] g \cap {"+", SPACE} = {SPACE} -> SPACE
                    [] OTHER -> NUL)
    <3>1. CASE "+" \in fl
      BY <3>1, <1>0, <2>2
    <3>2. CASE "+" \notin fl
      <4>1. x.prepend # "+"
        BY <3>2, <1>0, <1>9
      <4>2. CASE c = "+"
        BY <4>1, <4>2, <2>2
      <4>3. CASE c = SPACE
        <5>1. "+" \notin g /\ g \cap {"+", SPACE} = {SPACE}
          BY <3>2, <4>3, <1>9
        <5> HIDE DEF g
        <5> QED BY <4>1, <4>3, <5>1, <2>2
      <4> QED BY <1>4, <4>2, <4>3
    <3> QED BY <3>1, <3>2
  <2> HIDE DEF g
  <2>5. FlagsSay(g, y)
    BY <1>0, <2>2, <2>3, <2>4 DEF FlagsSay
  <2> QED BY <2>5 DEF g
<1> QED BY <1>1, <1>2, <1>3, <1>4

\* The place of the walk, taken out of the invariant.
LEMMA PlaceHere ==
  ASSUME Walked
  PROVE  /\ pc = "flags" => FlagsPlace(fmt, cur, start, fs)
         /\ pc = "width" => WidthPlace(fmt, cur, start, fs)
         /\ pc = "widthnum" => WidthNumPlace(fmt, cur, start, num, fs)
         /\ pc = "dot" => DotPlace(fmt, cur, start, fs)
         /\ pc = "prec" => PrecPlace(fmt, cur, start, fs)
         /\ pc = "precnum" => PrecNumPlace(fmt, cur, start, num, fs)
         /\ pc = "lenmod" => LenModPlace(fmt, cur, start, fs)
         /\ pc = "twice" => TwicePlace(fmt, cur, start, fs)
         /\ pc = "fast" => FastPlace(fmt, cur, start, fs)
         /\ pc = "bits" => BitsPlace(fmt, cur, start, fast, fs)
         /\ pc = "confirm" => ConfirmPlace(fmt, cur, start, second, fs)
         /\ pc = "conv" => ConvPlace(fmt, cur, start, fs)
BY DEF Walked, PlaceInv, PlaceAt

\* One lemma for each action of the parser: it leads from its place to the next.
\* The '%'.
LEMMA PercentTo ==
  ASSUME Walked, Percent
  PROVE  FlagsPlace(fmt', cur', start', fs')
<1>1. /\ Reads("%") /\ cur' = cur + 1 /\ start' = cur
      /\ fs' = [fs EXCEPT !.left_justified = FALSE, !.leading_zero_pad = FALSE,
                      !.prepend = NUL, !.alt_form = FALSE]
  BY DEF Percent, Advance
<1>2. fmt' \in Text1 /\ cur \in Nat \ {0} /\ cur <= Len(fmt') /\ fs \in FormatSpec
  BY <1>1, ReadOn
<1>3. FlagSet(fmt', cur, cur) = {}
  BY <1>2 DEF FlagSet
<1>4. ~fs'.left_justified /\ ~fs'.leading_zero_pad /\ ~fs'.alt_form /\ fs'.prepend = NUL
  BY <1>1, <1>2 DEF FormatSpec
<1>5. {} \cap {"+", SPACE} # {SPACE}
  OBVIOUS
<1>6. FlagsSay({}, fs')
  BY <1>4, <1>5 DEF FlagsSay
<1> QED BY <1>1, <1>2, <1>3, <1>6 DEF FlagsPlace

\* A flag.
LEMMA FlagTo ==
  ASSUME Walked, NEW c, Flag(c)
  PROVE  FlagsPlace(fmt', cur', start', fs')
<1>1. /\ pc = "flags" /\ IsFlag(c) /\ Reads(c) /\ cur' = cur + 1 /\ start' = start
      /\ fs' = CASE c = "-" -> [fs EXCEPT !.left_justified = TRUE]
             [] c = "0" -> [fs EXCEPT !.leading_zero_pad = TRUE]
             [] c = "#" -> [fs EXCEPT !.alt_form = TRUE]
             [] OTHER -> IF fs.prepend = "+" THEN fs ELSE [fs EXCEPT !.prepend = c]
  BY DEF Flag, Advance
<1>2. /\ fmt' \in Text1 /\ fmt \in Text1 /\ Longer(fmt, fmt')
      /\ cur \in Nat \ {0} /\ start \in Nat \ {0} /\ cur <= Len(fmt') /\ fmt'[cur] = c
      /\ fs \in FormatSpec
  BY <1>1, ReadOn
<1>3. PICK A \in Nat :
                 /\ cur = A + 1 /\ start <= A /\ A <= Len(fmt)
                 /\ \A k \in (start + 1)..A : fmt[k] \in FlagChars
                 /\ FlagsSay(FlagSet(fmt, start, A), fs)
  BY <1>1, PlaceHere DEF FlagsPlace
<1>4. c \in FlagChars /\ c \in {"-", "0", "#", "+", SPACE}
  BY <1>1 DEF IsFlag, FlagChars
<1>5. \A k \in (start + 1)..A : fmt'[k] = fmt[k]
  BY <1>2, <1>3 DEF Longer
<1>6. FlagSet(fmt', start, cur) = FlagSet(fmt, start, A) \cup {c}
  <2>1. \A k \in (start + 1)..cur : k \in (start + 1)..A \/ k = cur
    BY <1>2, <1>3
  <2>2. (start + 1)..A \subseteq (start + 1)..cur /\ cur \in (start + 1)..cur
    BY <1>2, <1>3
  <2> QED BY <2>1, <2>2, <1>2, <1>5 DEF FlagSet
<1>7. FlagsSay(FlagSet(fmt, start, A) \cup {c}, fs')
  <2> DEFINE fl == FlagSet(fmt, start, A)
             y == CASE c = "-" -> [fs EXCEPT !.left_justified = TRUE]
                    [] c = "0" -> [fs EXCEPT !.leading_zero_pad = TRUE]
                    [] c = "#" -> [fs EXCEPT !.alt_form = TRUE]
                    [] OTHER -> IF fs.prepend = "+" THEN fs ELSE [fs EXCEPT !.prepend = c]
  <2>1. FlagsSay(fl, fs) /\ fs' = y
    BY <1>1, <1>3, Zenon
  <2> HIDE DEF fl
  <2>2. FlagsSay(fl \cup {c}, y)
    BY <1>2, <1>4, <2>1, FlagSaid
  <2> HIDE DEF y
  <2>3. FlagsSay(fl \cup {c}, fs')
    BY <2>1, <2>2, Zenon
  <2> QED BY <2>3 DEF fl
<1>8. \A k \in (start + 1)..cur : fmt'[k] \in FlagChars
  <2> SUFFICES ASSUME NEW k \in (start + 1)..cur PROVE fmt'[k] \in FlagChars
    OBVIOUS
  <2>1. k \in (start + 1)..A \/ k = cur
    BY <1>2, <1>3
  <2>2. CASE k = cur
    BY <2>2, <1>2, <1>4
  <2>3. CASE k \in (start + 1)..A
    BY <2>3, <1>3, <1>5
  <2> QED BY <2>1, <2>2, <2>3
<1>9. cur \in Nat /\ start <= cur /\ cur' = cur + 1 /\ start' = start
  BY <1>1, <1>2, <1>3
<1>10. FlagsSay(FlagSet(fmt', start, cur), fs')
  BY <1>6, <1>7
<1>11. FlagsPlace(fmt', cur', start, fs')
  BY <1>2, <1>8, <1>9, <1>10 DEF FlagsPlace
<1> QED BY <1>9, <1>11

\* The flags are all read.
LEMMA FlagsEndTo ==
  ASSUME Walked, NEW c, FlagsEnd(c)
  PROVE  /\ pc' = "width" => WidthPlace(fmt', cur', start', fs')
         /\ pc' = "dot" => DotPlace(fmt', cur', start', fs')
         /\ pc' \in {"width", "dot"}
<1>1. /\ pc = "flags" /\ ~IsFlag(c) /\ Reads(c) /\ cur' = cur /\ start' = start
      /\ fs' = fs /\ pc' = IF build["width"] THEN "width" ELSE "dot"
  BY DEF FlagsEnd, Goto
<1>2. /\ fmt' \in Text1 /\ fmt \in Text1 /\ Longer(fmt, fmt')
      /\ cur \in Nat \ {0} /\ start \in Nat \ {0} /\ cur <= Len(fmt') /\ fmt'[cur] = c
      /\ fs \in FormatSpec
  BY <1>1, ReadOn
<1>3. PICK A \in Nat :
                 /\ cur = A + 1 /\ start <= A /\ A <= Len(fmt)
                 /\ \A k \in (start + 1)..A : fmt[k] \in FlagChars
                 /\ FlagsSay(FlagSet(fmt, start, A), fs)
  BY <1>1, PlaceHere DEF FlagsPlace
<1>4. c \notin FlagChars
  BY <1>1 DEF IsFlag, FlagChars
<1>5. \A k \in (start + 1)..A : fmt'[k] = fmt[k]
  BY <1>2, <1>3 DEF Longer
<1>6. FlagSet(fmt', start, A) = FlagSet(fmt, start, A)
  BY <1>5 DEF FlagSet
<1>7. FlagsDone(fmt', start, A)
  BY <1>2, <1>3, <1>4, <1>5 DEF FlagsDone
<1>8. AtFlags(fmt', start, A, fs')
  <2>1. FlagsSay(FlagSet(fmt', start, A), fs')
    BY <1>1, <1>3, <1>6, Zenon
  <2> QED BY <1>7, <2>1 DEF AtFlags
<1>9. ASSUME ~build["width"] PROVE AtDot(fmt', start, A, A, fs')
  <2>1. WidthDone(fmt', A, A)
    BY <1>9 DEF WidthDone
  <2>2. A <= Len(fmt')
    BY <1>2, <1>3
  <2>3. Part(fmt', A, A) = <<>> /\ Part(fmt', A, A) # <<"*">> /\ Number(Part(fmt', A, A)) = 0
    <3>1. Digits(fmt', A, A)
      BY DEF Digits
    <3>2. Number(Part(fmt', A, A)) = 0
      BY <3>1, <2>2, <1>2, NumberDigit DEF Text1
    <3> DEFINE x == Part(fmt', A, A)
    <3>a. x \in Text1 /\ Len(x) = A - A
      <4>1. A <= A /\ fmt' \in Seq(Chars \cup {NUL})
        BY <1>2 DEF Text1
      <4>2. x \in Seq(Chars \cup {NUL}) /\ Len(x) = A - A
        BY ONLY <2>2, <4>1, A \in Nat, PartOf
      <4> QED BY <4>2 DEF Text1
    <3>3. x \in Seq(Chars \cup {NUL}) /\ Len(x) = 0
      BY <3>a DEF Text1
    <3> HIDE DEF x
    <3>4. x = <<>>
      BY <3>3, NoChar DEF x
    <3>5. x # <<"*">>
      BY <3>4
    <3> QED BY <3>2, <3>4, <3>5 DEF x
  <2>4. fs.field_width_opt = NONE /\ fs.field_width = 0
    BY <1>9 DEF Walked, PlaceInv, PlaceAt, FsInv, FsFits
  <2>5. Stored(0, 0)
    <3>1. FmtNumBig \in Nat
      BY WidthsAssumption
    <3>2. 0 \div 10 = 0
      OBVIOUS
    <3> QED BY <3>1, <3>2 DEF Stored
  <2>6. WidthSays(Part(fmt', A, A), fs')
    BY <1>1, <2>3, <2>4, <2>5 DEF WidthSays
  <2> QED BY <1>8, <2>1, <2>2, <2>6 DEF AtDot
<1> QED BY <1>1, <1>3, <1>8, <1>9 DEF WidthPlace, DotPlace

\* A star, or the first character of a width.
LEMMA WidthTo ==
  ASSUME Walked, NEW c, Width(c)
  PROVE  /\ pc' = "widthnum" => WidthNumPlace(fmt', cur', start', num', fs')
         /\ pc' = "dot" => DotPlace(fmt', cur', start', fs')
         /\ pc' \in {"widthnum", "dot"}
<1>1. /\ pc = "width" /\ Reads(c) /\ start' = start /\ num' = 0
      /\ fs' = [fs EXCEPT !.field_width_opt = IF c = "*" THEN STAR ELSE NONE]
      /\ IF c = "*" THEN pc' = "dot" /\ cur' = cur + 1 ELSE pc' = "widthnum" /\ cur' = cur
  BY DEF Width, Goto, Advance
<1>2. /\ fmt' \in Text1 /\ fmt \in Text1 /\ Longer(fmt, fmt')
      /\ cur \in Nat \ {0} /\ start \in Nat \ {0} /\ cur <= Len(fmt') /\ fmt'[cur] = c
      /\ fs \in FormatSpec
  BY <1>1, ReadOn
<1>3. PICK A \in Nat : cur = A + 1 /\ build["width"] /\ AtFlags(fmt, start, A, fs)
  BY <1>1, PlaceHere DEF WidthPlace
<1>4. SameFlags(fs, fs') /\ fs'.field_width_opt = IF c = "*" THEN STAR ELSE NONE
  BY <1>1, <1>2 DEF SameFlags, FormatSpec
<1>5. AtFlags(fmt', start, A, fs')
  BY <1>2, <1>3, <1>4, LongerFlags DEF Text1
<1>6. ASSUME c = "*" PROVE AtDot(fmt', start, A, cur, fs')
  <2>1. WidthDone(fmt', A, cur)
    BY <1>2, <1>3, <1>6 DEF WidthDone
  <2>2. A <= cur /\ cur <= Len(fmt') /\ cur \in Nat /\ cur = A + 1
    BY <1>2, <1>3
  <2>3. Part(fmt', A, cur) = <<"*">>
    BY <2>2, <1>2, <1>6, WidthShape DEF Text1
  <2>4. WidthSays(Part(fmt', A, cur), fs')
    BY <2>3, <1>4, <1>6 DEF WidthSays
  <2> QED BY <1>5, <2>1, <2>2, <2>4 DEF AtDot
<1>7. ASSUME c # "*" PROVE WidthNumPlace(fmt', cur, start, 0, fs')
  <2>1. A <= Len(fmt') /\ fmt'[A + 1] # "*" /\ Digits(fmt', A, A)
    BY <1>2, <1>3, <1>7 DEF Digits
  <2>2. Number(Part(fmt', A, A)) = 0
    BY <2>1, <1>2, NumberDigit DEF Text1
  <2>3. Stored(0, 0)
    <3>1. FmtNumBig \in Nat
      BY WidthsAssumption
    <3>2. 0 \div 10 = 0
      OBVIOUS
    <3> QED BY <3>1, <3>2 DEF Stored
  <2> QED BY <1>3, <1>4, <1>5, <1>7, <2>1, <2>2, <2>3 DEF WidthNumPlace
<1> QED BY <1>1, <1>2, <1>6, <1>7 DEF DotPlace

\* One more digit of a number that begins behind i.
LEMMA OneMoreDigit ==
  ASSUME NEW f \in Text1, NEW g \in Text1, Longer(f, g), NEW i \in Nat, NEW j \in Nat, i <= j, j <= Len(f),
         Digits(f, i, j), j + 1 <= Len(g), g[j + 1] \in DigitSet,
         NEW n \in Nat, Stored(n, Number(Part(f, i, j)))
  PROVE  /\ Digits(g, i, j + 1)
         /\ Stored(IF n < FmtNumBig THEN n * 10 + DigitVals[g[j + 1]] ELSE n,
                   Number(Part(g, i, j + 1)))
<1>0. f \in Seq(Chars \cup {NUL}) /\ g \in Seq(Chars \cup {NUL})
  BY DEF Text1
<1>1. Digits(g, i, j)
  BY <1>0, LongerDigits
<1>2. Digits(g, i, j + 1)
  <2> SUFFICES ASSUME NEW k \in (i + 1)..(j + 1) PROVE g[k] \in DigitSet
    BY DEF Digits
  <2>1. k \in (i + 1)..j \/ k = j + 1
    OBVIOUS
  <2> QED BY <2>1, <1>1 DEF Digits
<1>3. Part(g, i, j) = Part(f, i, j)
  BY <1>0, LongerPart
<1>4. j <= Len(g)
  BY DEF Longer
<1> DEFINE v == Number(Part(f, i, j))
           d == DigitVals[g[j + 1]]
<1>5. v \in Nat /\ Number(Part(g, i, j + 1)) = 10 * v + d
  BY <1>0, <1>1, <1>3, <1>4, NumberDigit
<1>6. d \in 0..9
  BY DigitSetIs DEF DigitVals
<1>7. Stored(n, v)
  OBVIOUS
<1> HIDE DEF v, d
<1>8. Stored(IF n < FmtNumBig THEN n * 10 + d ELSE n, 10 * v + d)
  BY <1>5, <1>6, <1>7, StoredStep
<1>9. Stored(IF n < FmtNumBig THEN n * 10 + d ELSE n, Number(Part(g, i, j + 1)))
  BY <1>5, <1>8
<1> QED BY <1>2, <1>9 DEF d

LEMMA SameFieldsOf ==
  ASSUME NEW x
  PROVE  SameFlags(x, x) /\ SameWidth(x, x) /\ SamePrec(x, x)
BY DEF SameFlags, SameWidth, SamePrec

\* A digit of a width or of a precision.
LEMMA NumDigitTo ==
  ASSUME Walked, NEW c, NumDigit(c)
  PROVE  /\ pc' = "widthnum" => WidthNumPlace(fmt', cur', start', num', fs')
         /\ pc' = "precnum" => PrecNumPlace(fmt', cur', start', num', fs')
         /\ pc' \in {"widthnum", "precnum"}
<1>1. /\ pc \in {"widthnum", "precnum"} /\ c \in DigitSet /\ Reads(c)
      /\ cur' = cur + 1 /\ pc' = pc /\ start' = start /\ fs' = fs
      /\ num' = IF num < FmtNumBig THEN num * 10 + DigitVals[c] ELSE num
  BY DEF NumDigit, Advance
<1>2. /\ fmt' \in Text1 /\ fmt \in Text1 /\ Longer(fmt, fmt')
      /\ cur \in Nat \ {0} /\ start \in Nat \ {0} /\ cur <= Len(fmt') /\ fmt'[cur] = c
      /\ fs \in FormatSpec /\ num \in Nat
  BY <1>1, ReadOn
<1>3. ASSUME pc = "widthnum" PROVE WidthNumPlace(fmt', cur + 1, start, num', fs)
  <2>1. PICK A \in Nat, B \in Nat :
          /\ cur = B + 1 /\ build["width"] /\ AtFlags(fmt, start, A, fs)
          /\ A <= B /\ B <= Len(fmt) /\ fmt[A + 1] # "*" /\ Digits(fmt, A, B)
          /\ Stored(num, Number(Part(fmt, A, B))) /\ fs.field_width_opt = NONE
    BY <1>3, PlaceHere DEF WidthNumPlace
  <2>2. AtFlags(fmt', start, A, fs)
    BY <1>2, <2>1, SameFieldsOf, LongerFlags DEF Text1
  <2>3. Digits(fmt', A, B + 1) /\ Stored(num', Number(Part(fmt', A, B + 1)))
    BY <1>1, <1>2, <2>1, OneMoreDigit
  <2>4. A + 1 <= Len(fmt)
    BY <2>1 DEF AtFlags, FlagsDone
  <2>5. fmt'[A + 1] # "*"
    BY <2>1, <2>4, <1>2 DEF Longer
  <2>6. A <= B + 1 /\ B + 1 <= Len(fmt') /\ B + 1 \in Nat /\ cur + 1 = (B + 1) + 1
    BY <1>2, <2>1
  <2> QED BY <2>1, <2>2, <2>3, <2>5, <2>6 DEF WidthNumPlace
<1>4. ASSUME pc = "precnum" PROVE PrecNumPlace(fmt', cur + 1, start, num', fs)
  <2>1. PICK A \in Nat, B \in Nat, D \in Nat, C \in Nat :
          /\ cur = C + 1 /\ AtDot(fmt, start, A, B, fs) /\ PrecFrom(fmt, B, D)
          /\ D <= C /\ C <= Len(fmt) /\ Digits(fmt, D, C) /\ Stored(num, Number(Part(fmt, D, C)))
          /\ fs.prec_opt = IF D = B + 1 THEN LITERAL ELSE NONE
    BY <1>4, PlaceHere DEF PrecNumPlace
  <2>2. AtDot(fmt', start, A, B, fs)
    BY <1>2, <2>1, SameFieldsOf, LongerDot DEF Text1
  <2>3. Digits(fmt', D, C + 1) /\ Stored(num', Number(Part(fmt', D, C + 1)))
    BY <1>1, <1>2, <2>1, OneMoreDigit
  <2>5. PrecFrom(fmt', B, D)
    BY <1>2, <2>1, LongerFrom DEF Text1
  <2>6. D <= C + 1 /\ C + 1 <= Len(fmt') /\ C + 1 \in Nat /\ cur + 1 = (C + 1) + 1
    BY <1>2, <2>1
  <2> QED BY <2>1, <2>2, <2>3, <2>5, <2>6 DEF PrecNumPlace
<1> QED BY <1>1, <1>3, <1>4

\* A number is read, the width or the precision.
LEMMA WidthRead ==
  ASSUME Walked, NEW c, NumEnd(c), pc = "widthnum"
  PROVE  pc' = "dot" /\ DotPlace(fmt', cur', start', fs')
<1>1. /\ c \notin DigitSet /\ Reads(c) /\ cur' = cur /\ pc' = "dot" /\ start' = start
      /\ fs' = [fs EXCEPT !.field_width = num]
  BY DEF NumEnd, Goto
<1>2. /\ fmt' \in Text1 /\ fmt \in Text1 /\ Longer(fmt, fmt')
      /\ cur \in Nat \ {0} /\ start \in Nat \ {0} /\ cur <= Len(fmt') /\ fmt'[cur] = c
      /\ fs \in FormatSpec /\ num \in Nat
  BY <1>1, ReadOn
<1>3. PICK A \in Nat, B \in Nat :
        /\ cur = B + 1 /\ build["width"] /\ AtFlags(fmt, start, A, fs)
        /\ A <= B /\ B <= Len(fmt) /\ fmt[A + 1] # "*" /\ Digits(fmt, A, B)
        /\ Stored(num, Number(Part(fmt, A, B))) /\ fs.field_width_opt = NONE
  BY PlaceHere DEF WidthNumPlace
<1>4. SameFlags(fs, fs') /\ fs'.field_width_opt = NONE /\ fs'.field_width = num
  BY <1>1, <1>2, <1>3 DEF SameFlags, FormatSpec
<1>5. AtFlags(fmt', start, A, fs')
  BY <1>2, <1>3, <1>4, LongerFlags DEF Text1
<1>6. A + 1 <= Len(fmt)
  BY <1>3 DEF AtFlags, FlagsDone
<1>7. fmt'[A + 1] # "*" /\ Digits(fmt', A, B)
  BY <1>2, <1>3, <1>6, LongerDigits DEF Longer, Text1
<1>8. WidthDone(fmt', A, B)
  BY <1>1, <1>2, <1>3, <1>7 DEF WidthDone
<1>9. Part(fmt', A, B) = Part(fmt, A, B)
  BY <1>2, <1>3, LongerPart DEF Text1
<1>10. Part(fmt', A, B) # <<"*">> /\ B <= Len(fmt')
  <2>1. B <= Len(fmt')
    BY <1>2, <1>3
  <2>2. Part(fmt', A, B) = <<"*">> <=> B = A + 1 /\ fmt'[B] = "*"
    BY <2>1, <1>2, <1>3, WidthShape DEF Text1
  <2> QED BY <2>1, <2>2, <1>7
<1>11. WidthSays(Part(fmt', A, B), fs')
  BY <1>3, <1>4, <1>9, <1>10 DEF WidthSays
<1>12. AtDot(fmt', start, A, B, fs')
  BY <1>3, <1>5, <1>8, <1>10, <1>11 DEF AtDot
<1> QED BY <1>1, <1>3, <1>12 DEF DotPlace

\* The precision is read.
LEMMA PrecRead ==
  ASSUME Walked, NEW c, NumEnd(c), pc = "precnum"
  PROVE  pc' = "lenmod" /\ LenModPlace(fmt', cur', start', fs')
<1>1. /\ c \notin DigitSet /\ Reads(c) /\ cur' = cur /\ pc' = "lenmod" /\ start' = start
      /\ fs' = [fs EXCEPT !.prec = num]
  BY DEF NumEnd, Goto
<1>2. /\ fmt' \in Text1 /\ fmt \in Text1 /\ Longer(fmt, fmt')
      /\ cur \in Nat \ {0} /\ start \in Nat \ {0} /\ cur <= Len(fmt') /\ fmt'[cur] = c
      /\ fs \in FormatSpec /\ num \in Nat
  BY <1>1, ReadOn
<1>3. PICK A \in Nat, B \in Nat, D \in Nat, C \in Nat :
        /\ cur = C + 1 /\ AtDot(fmt, start, A, B, fs) /\ PrecFrom(fmt, B, D)
        /\ D <= C /\ C <= Len(fmt) /\ Digits(fmt, D, C) /\ Stored(num, Number(Part(fmt, D, C)))
        /\ fs.prec_opt = IF D = B + 1 THEN LITERAL ELSE NONE
  BY PlaceHere DEF PrecNumPlace
<1>4. /\ SameFlags(fs, fs') /\ SameWidth(fs, fs')
      /\ fs'.prec = num /\ fs'.prec_opt = IF D = B + 1 THEN LITERAL ELSE NONE
  BY <1>1, <1>2, <1>3 DEF SameFlags, SameWidth, FormatSpec
<1>5. AtDot(fmt', start, A, B, fs')
  BY <1>2, <1>3, <1>4, LongerDot DEF Text1
<1>6. PrecFrom(fmt', B, D) /\ Digits(fmt', D, C)
  BY <1>2, <1>3, LongerFrom, LongerDigits DEF Text1
<1>7. PrecDone(fmt', B, C)
  BY <1>1, <1>2, <1>3, <1>6 DEF PrecDone
<1>8. /\ build["prec"] /\ B + 2 <= Len(fmt') /\ fmt'[B + 1] = "."
      /\ \/ D = B + 1 /\ fmt'[B + 2] \notin {"*", "-"}
         \/ D = B + 2 /\ fmt'[B + 2] = "-"
  BY <1>6 DEF PrecFrom
<1>9. B < C /\ C <= Len(fmt')
  BY <1>2, <1>3, <1>8
<1> DEFINE p == Part(fmt', B, C)
<1>10. /\ p = <<".", "*">> <=> C = B + 2 /\ fmt'[B + 1] = "." /\ fmt'[C] = "*"
       /\ IsLiteral(p) <=>
              /\ B < C /\ ~(C = B + 2 /\ fmt'[B + 1] = "." /\ fmt'[C] = "*")
              /\ C = B + 1 \/ fmt'[B + 2] # "-"
       /\ Tail(p) = Part(fmt', B + 1, C)
  <2>1. fmt' \in Seq(Chars \cup {NUL}) /\ B <= C
    BY <1>2, <1>9 DEF Text1
  <2> QED BY <2>1, <1>9, PrecShape
<1>11. Part(fmt', D, C) = Part(fmt, D, C)
  BY <1>2, <1>3, LongerPart DEF Text1
<1> HIDE DEF p
<1>12. PrecSays(p, fs')
  <2>1. CASE D = B + 1
    <3>1. IsLiteral(p)
      BY <1>8, <1>9, <1>10, <2>1
    <3>a. Tail(p) = Part(fmt', D, C)
      BY <2>1, <1>10
    <3>b. Tail(p) = Part(fmt, D, C)
      BY <3>a, <1>11
    <3>2. Stored(num, Number(Tail(p)))
      BY <3>b, <1>3, Zenon
    <3>3. fs'.prec_opt = LITERAL
      BY <1>4, <2>1
    <3>4. Stored(fs'.prec, Number(Tail(p)))
      BY <3>2, <1>4, Zenon
    <3>5. p # <<".", "*">>
      BY <3>1 DEF IsLiteral
    <3> QED BY <3>1, <3>3, <3>4, <3>5 DEF PrecSays
  <2>2. CASE D = B + 2 /\ fmt'[B + 2] = "-"
    <3>1. ~IsLiteral(p) /\ p # <<".", "*">>
      BY <1>3, <1>8, <1>9, <1>10, <2>2
    <3>2. fs'.prec_opt = NONE
      BY <1>4, <2>2
    <3> QED BY <3>1, <3>2 DEF PrecSays
  <2> QED BY <2>1, <2>2, <1>8
<1>13. AtMod(fmt', start, A, B, C, fs')
  BY <1>5, <1>7, <1>9, <1>12 DEF AtMod, p
<1> QED BY <1>1, <1>3, <1>13 DEF LenModPlace

\* A part of the format between two equal places is empty.
LEMMA EmptyPart ==
  ASSUME NEW f \in Text1, NEW B \in Nat, B <= Len(f)
  PROVE  Part(f, B, B) = <<>>
<1> DEFINE x == Part(f, B, B)
<1>1. f \in Seq(Chars \cup {NUL}) /\ B <= B
  BY DEF Text1
<1>2. x \in Seq(Chars \cup {NUL}) /\ Len(x) = B - B
  BY ONLY <1>1, B \in Nat, B <= Len(f), PartOf
<1>3. x \in Text1 /\ Len(x) = 0
  BY <1>2 DEF Text1
<1>4. x \in Seq(Chars \cup {NUL}) /\ Len(x) = 0
  BY <1>3 DEF Text1
<1> HIDE DEF x
<1>5. x = <<>>
  BY <1>4, NoChar DEF x
<1> QED BY <1>5 DEF x

\* With the '.', or without.
LEMMA DotTo ==
  ASSUME Walked, NEW c, Dot(c)
  PROVE  /\ pc' = "prec" => PrecPlace(fmt', cur', start', fs')
         /\ pc' = "lenmod" => LenModPlace(fmt', cur', start', fs')
         /\ pc' \in {"prec", "lenmod"}
<1>1. /\ pc = "dot" /\ Reads(c) /\ start' = start
      /\ fs' = IF build["prec"] THEN [fs EXCEPT !.prec = 0, !.prec_opt = NONE] ELSE fs
      /\ IF build["prec"] /\ c = "." THEN pc' = "prec" /\ cur' = cur + 1
                                     ELSE pc' = "lenmod" /\ cur' = cur
  BY DEF Dot, Goto, Advance
<1>2. /\ fmt' \in Text1 /\ fmt \in Text1 /\ Longer(fmt, fmt')
      /\ cur \in Nat \ {0} /\ start \in Nat \ {0} /\ cur <= Len(fmt') /\ fmt'[cur] = c
      /\ fs \in FormatSpec
  BY <1>1, ReadOn
<1>3. PICK A \in Nat, B \in Nat : cur = B + 1 /\ AtDot(fmt, start, A, B, fs)
  BY <1>1, PlaceHere DEF DotPlace
<1>4. SameFlags(fs, fs') /\ SameWidth(fs, fs') /\ fs'.prec_opt = NONE
  <2>1. CASE build["prec"]
    <3>1. fs' = [fs EXCEPT !.prec = 0, !.prec_opt = NONE]
      BY <1>1, <2>1
    <3> QED BY <3>1, <1>2 DEF SameFlags, SameWidth, FormatSpec
  <2>2. CASE ~build["prec"]
    <3>1. fs' = fs
      BY <1>1, <2>2
    <3>2. fs.prec_opt = NONE
      BY <2>2 DEF Walked, FsInv, FsFits
    <3> QED BY <3>1, <3>2, SameFieldsOf
  <2> QED BY <2>1, <2>2
<1>5. AtDot(fmt', start, A, B, fs')
  BY <1>2, <1>3, <1>4, LongerDot DEF Text1
<1>6. ASSUME build["prec"], c = "." PROVE PrecPlace(fmt', cur + 1, start, fs')
  <2>1. cur + 1 = B + 2 /\ B + 1 <= Len(fmt') /\ fmt'[B + 1] = "."
    BY <1>2, <1>3, <1>6
  <2> QED BY <1>4, <1>5, <1>6, <2>1 DEF PrecPlace
<1>7. ASSUME ~(build["prec"] /\ c = ".") PROVE LenModPlace(fmt', cur, start, fs')
  <2>1. B <= Len(fmt') /\ B <= B
    BY <1>2, <1>3
  <2>2. PrecDone(fmt', B, B)
    BY <1>2, <1>3, <1>7 DEF PrecDone
  <2>3. Part(fmt', B, B) = <<>>
    BY <1>2, <2>1, EmptyPart
  <2>4. <<>> # <<".", "*">> /\ ~IsLiteral(<<>>)
    BY DEF IsLiteral
  <2>5. PrecSays(<<>>, fs')
    BY <1>4, <2>4 DEF PrecSays
  <2>6. AtMod(fmt', start, A, B, B, fs')
    BY <1>5, <2>1, <2>2, <2>3, <2>5 DEF AtMod
  <2> QED BY <1>3, <2>6 DEF LenModPlace
<1> QED BY <1>1, <1>6, <1>7

\* A star, a '-', or the first character of a precision.
LEMMA PrecTo ==
  ASSUME Walked, NEW c, Prec(c)
  PROVE  /\ pc' = "precnum" => PrecNumPlace(fmt', cur', start', num', fs')
         /\ pc' = "lenmod" => LenModPlace(fmt', cur', start', fs')
         /\ pc' \in {"precnum", "lenmod"}
<1>1. /\ pc = "prec" /\ Reads(c) /\ start' = start /\ num' = 0
      /\ fs' = [fs EXCEPT !.prec_opt = CASE c = "*" -> STAR [] c = "-" -> @ [] OTHER -> LITERAL]
      /\ pc' = (IF c = "*" THEN "lenmod" ELSE "precnum")
      /\ cur' = IF c \in {"*", "-"} THEN cur + 1 ELSE cur
  BY DEF Prec, Goto
<1>2. /\ fmt' \in Text1 /\ fmt \in Text1 /\ Longer(fmt, fmt')
      /\ cur \in Nat \ {0} /\ start \in Nat \ {0} /\ cur <= Len(fmt') /\ fmt'[cur] = c
      /\ fs \in FormatSpec
  BY <1>1, ReadOn
<1>3. PICK A \in Nat, B \in Nat :
        /\ cur = B + 2 /\ AtDot(fmt, start, A, B, fs) /\ B + 1 <= Len(fmt)
        /\ build["prec"] /\ fmt[B + 1] = "." /\ fs.prec_opt = NONE
  BY <1>1, PlaceHere DEF PrecPlace
<1>4. /\ SameFlags(fs, fs') /\ SameWidth(fs, fs')
      /\ fs'.prec_opt = CASE c = "*" -> STAR [] c = "-" -> NONE [] OTHER -> LITERAL
  <2>1. /\ fs'.left_justified = fs.left_justified /\ fs'.leading_zero_pad = fs.leading_zero_pad
        /\ fs'.alt_form = fs.alt_form /\ fs'.prepend = fs.prepend
        /\ fs'.field_width = fs.field_width /\ fs'.field_width_opt = fs.field_width_opt
        /\ fs'.prec_opt = CASE c = "*" -> STAR [] c = "-" -> fs.prec_opt [] OTHER -> LITERAL
    BY <1>1, <1>2 DEF FormatSpec
  <2> QED BY <2>1, <1>3 DEF SameFlags, SameWidth
<1>5. AtDot(fmt', start, A, B, fs')
  BY <1>2, <1>3, <1>4, LongerDot DEF Text1
<1>6. fmt'[B + 1] = "." /\ B + 2 <= Len(fmt') /\ fmt'[B + 2] = c
  <2>1. B + 1 \in 1..Len(fmt)
    BY <1>2, <1>3 DEF Text1
  <2> QED BY <2>1, <1>2, <1>3 DEF Longer
<1>7. ASSUME c = "*" PROVE LenModPlace(fmt', cur + 1, start, fs')
  <2> DEFINE C == B + 2
  <2>1. C \in Nat /\ C = B + 2 /\ B < C /\ B <= C /\ C <= Len(fmt') /\ cur + 1 = C + 1 /\ fmt'[C] = "*"
    BY <1>2, <1>3, <1>6, <1>7
  <2> HIDE DEF C
  <2>2. PrecDone(fmt', B, C)
    BY <1>3, <1>6, <1>7, <2>1 DEF PrecDone
  <2>3. Part(fmt', B, C) = <<".", "*">>
    <3>1. fmt' \in Seq(Chars \cup {NUL})
      BY <1>2 DEF Text1
    <3> QED BY <3>1, <2>1, <1>6, PrecShape
  <2>4. ~IsLiteral(<<".", "*">>)
    BY DEF IsLiteral
  <2>5. PrecSays(<<".", "*">>, fs')
    BY <1>4, <1>7, <2>4 DEF PrecSays
  <2>6. AtMod(fmt', start, A, B, C, fs')
    BY <1>5, <2>1, <2>2, <2>3, <2>5 DEF AtMod
  <2> QED BY <2>1, <2>6 DEF LenModPlace
<1>8. Stored(0, 0)
  <2>1. FmtNumBig \in Nat
    BY WidthsAssumption
  <2>2. 0 \div 10 = 0
    OBVIOUS
  <2> QED BY <2>1, <2>2 DEF Stored
<1>9. ASSUME NEW D \in Nat, PrecFrom(fmt', B, D), D <= Len(fmt'),
             fs'.prec_opt = IF D = B + 1 THEN LITERAL ELSE NONE
      PROVE  PrecNumPlace(fmt', D + 1, start, 0, fs')
  <2>1. Digits(fmt', D, D)
    BY DEF Digits
  <2>2. Number(Part(fmt', D, D)) = 0
    <3>1. fmt' \in Seq(Chars \cup {NUL}) /\ D <= D
      BY <1>2 DEF Text1
    <3> QED BY ONLY <3>1, <2>1, D \in Nat, D <= Len(fmt'), NumberDigit
  <2>3. Stored(0, Number(Part(fmt', D, D)))
    BY <2>2, <1>8
  <2>4. D <= D
    OBVIOUS
  <2> QED BY <1>5, <1>9, <2>1, <2>3, <2>4 DEF PrecNumPlace
<1>10. ASSUME c = "-" PROVE PrecNumPlace(fmt', cur + 1, start, 0, fs')
  <2> DEFINE D == B + 2
  <2>1. D \in Nat /\ D = B + 2 /\ D # B + 1 /\ D <= Len(fmt') /\ cur + 1 = D + 1
    BY <1>2, <1>3, <1>6
  <2> HIDE DEF D
  <2>2. PrecFrom(fmt', B, D)
    BY <1>3, <1>6, <1>10, <2>1 DEF PrecFrom
  <2>3. fs'.prec_opt = NONE
    BY <1>4, <1>10
  <2>4. PrecNumPlace(fmt', D + 1, start, 0, fs')
    BY <2>1, <2>2, <2>3, <1>9
  <2> QED BY <2>1, <2>4
<1>11. ASSUME c \notin {"*", "-"} PROVE PrecNumPlace(fmt', cur, start, 0, fs')
  <2> DEFINE D == B + 1
  <2>1. D \in Nat /\ D = B + 1 /\ D <= Len(fmt') /\ cur = D + 1
    BY <1>2, <1>3, <1>6
  <2> HIDE DEF D
  <2>2. PrecFrom(fmt', B, D)
    BY <1>3, <1>6, <1>11, <2>1 DEF PrecFrom
  <2>3. fs'.prec_opt = LITERAL
    BY <1>4, <1>11
  <2>4. PrecNumPlace(fmt', D + 1, start, 0, fs')
    BY <2>1, <2>2, <2>3, <1>9
  <2> QED BY <2>1, <2>4
<1> QED BY <1>1, <1>7, <1>10, <1>11

\* What stands behind the parser at the modifier is as the grammar takes it apart.
LEMMA AtModBefore ==
  ASSUME NEW f, NEW s, NEW A, NEW B, NEW C, NEW x, AtMod(f, s, A, B, C, x)
  PROVE  Before(f, s, A, B, C)
BY DEF AtMod, AtDot, AtFlags, Before

\* The first character of a modifier, or none.
LEMMA LenModTo ==
  ASSUME Walked, NEW c, LenMod(c)
  PROVE  /\ pc' = "fast" => FastPlace(fmt', cur', start', fs')
         /\ pc' = "twice" => TwicePlace(fmt', cur', start', fs')
         /\ pc' = "conv" => ConvPlace(fmt', cur', start', fs')
         /\ pc' \in {"fast", "twice", "conv"}
<1>1. /\ pc = "lenmod" /\ Reads(c) /\ start' = start
  BY DEF LenMod
<1>2. /\ fmt' \in Text1 /\ fmt \in Text1 /\ Longer(fmt, fmt')
      /\ cur \in Nat \ {0} /\ start \in Nat \ {0} /\ cur <= Len(fmt') /\ fmt'[cur] = c
      /\ fs \in FormatSpec
  BY <1>1, ReadOn
<1>3. PICK A \in Nat, B \in Nat, C \in Nat : cur = C + 1 /\ AtMod(fmt, start, A, B, C, fs)
  BY <1>1, PlaceHere DEF LenModPlace
<1>4. ASSUME NEW m, SetMod(m)
      PROVE  AtMod(fmt', start, A, B, C, fs') /\ fs'.length_modifier = m
  <2>1. SameFlags(fs, fs') /\ SameWidth(fs, fs') /\ SamePrec(fs, fs') /\ fs'.length_modifier = m
    BY <1>2, <1>4, SpecFields DEF SetMod
  <2> QED BY <1>2, <1>3, <2>1, LongerMod DEF Text1
<1>5. C + 1 <= Len(fmt') /\ fmt'[C + 1] = c
  BY <1>2, <1>3
<1>6. ASSUME c = "w", build["fixed"], pc' = "fast", cur' = cur + 1, SetMod(NONE)
      PROVE  FastPlace(fmt', cur', start, fs')
  <2>1. cur' = C + 2
    BY <1>3, <1>6
  <2> QED BY <2>1, <1>4, <1>5, <1>6 DEF FastPlace
<1>7. ASSUME c = "h", build["small"], pc' = "twice", cur' = cur + 1, SetMod("h")
      PROVE  TwicePlace(fmt', cur', start, fs')
  <2>1. cur' = C + 2
    BY <1>3, <1>7
  <2> QED BY <2>1, <1>4, <1>5, <1>7 DEF TwicePlace
<1>8. ASSUME c = "l", build["large"], pc' = "twice", cur' = cur + 1, SetMod("l")
      PROVE  TwicePlace(fmt', cur', start, fs')
  <2>1. cur' = C + 2
    BY <1>3, <1>8
  <2> QED BY <2>1, <1>4, <1>5, <1>8 DEF TwicePlace
<1>9. ASSUME c = "l", ~build["large"], cur' = cur + 1, SetMod("l")
      PROVE  ConvPlace(fmt', cur', start, fs')
  <2>1. cur' = (C + 1) + 1 /\ C + 1 \in Nat
    BY <1>3, <1>9
  <2>2. ModsDone(fmt', C, C + 1, "l")
    BY <1>5, <1>9 DEF ModsDone
  <2> QED BY <2>1, <2>2, <1>4, <1>9 DEF ConvPlace
<1>10. ASSUME \/ c = "L" /\ build["float"]
              \/ c \in {"j", "z", "t"} /\ build["large"],
              cur' = cur + 1, SetMod(c)
      PROVE  ConvPlace(fmt', cur', start, fs')
  <2>1. cur' = (C + 1) + 1 /\ C + 1 \in Nat
    BY <1>3, <1>10
  <2>2. ModsDone(fmt', C, C + 1, c)
    BY <1>5, <1>10 DEF ModsDone
  <2> QED BY <2>1, <2>2, <1>4, <1>10 DEF ConvPlace
<1>11. ASSUME ~Starts(c), cur' = cur, SetMod(NONE)
      PROVE  ConvPlace(fmt', cur', start, fs')
  <2>1. ModsDone(fmt', C, C, NONE)
    BY <1>5, <1>11 DEF ModsDone
  <2> QED BY <2>1, <1>3, <1>4, <1>11 DEF ConvPlace
<1>12. \/ c = "w" /\ build["fixed"] /\ pc' = "fast" /\ cur' = cur + 1 /\ SetMod(NONE)
       \/ c = "h" /\ build["small"] /\ pc' = "twice" /\ cur' = cur + 1 /\ SetMod("h")
       \/ c = "l" /\ build["large"] /\ pc' = "twice" /\ cur' = cur + 1 /\ SetMod("l")
       \/ c = "l" /\ ~build["large"] /\ pc' = "conv" /\ cur' = cur + 1 /\ SetMod("l")
       \/ /\ \/ c = "L" /\ build["float"]
             \/ c \in {"j", "z", "t"} /\ build["large"]
          /\ pc' = "conv" /\ cur' = cur + 1 /\ SetMod(c)
       \/ ~Starts(c) /\ pc' = "conv" /\ cur' = cur /\ SetMod(NONE)
  BY DEF LenMod, Goto, Advance, Starts
<1> QED BY <1>1, <1>6, <1>7, <1>8, <1>9, <1>10, <1>11, <1>12

\* The second 'h' or 'l', or none.
LEMMA TwiceTo ==
  ASSUME Walked, NEW c, Twice(c)
  PROVE  pc' = "conv" /\ ConvPlace(fmt', cur', start', fs')
<1>1. /\ pc = "twice" /\ Reads(c) /\ start' = start /\ pc' = "conv"
      /\ IF c = fs.length_modifier
         THEN cur' = cur + 1 /\ SetMod(IF c = "h" THEN "hh" ELSE "ll")
         ELSE cur' = cur /\ fs' = fs
  BY DEF Twice, Goto, Advance
<1>2. /\ fmt' \in Text1 /\ fmt \in Text1 /\ Longer(fmt, fmt')
      /\ cur \in Nat \ {0} /\ start \in Nat \ {0} /\ cur <= Len(fmt') /\ fmt'[cur] = c
      /\ fs \in FormatSpec
  BY <1>1, ReadOn
<1>3. PICK A \in Nat, B \in Nat, C \in Nat :
        /\ cur = C + 2 /\ AtMod(fmt, start, A, B, C, fs) /\ C + 1 <= Len(fmt)
        /\ fmt[C + 1] = fs.length_modifier
        /\ \/ fs.length_modifier = "h" /\ build["small"]
           \/ fs.length_modifier = "l" /\ build["large"]
  BY <1>1, PlaceHere DEF TwicePlace
<1>4. C + 2 <= Len(fmt') /\ fmt'[C + 2] = c /\ fmt'[C + 1] = fs.length_modifier
      /\ C + 1 <= Len(fmt')
  <2>1. C + 1 \in 1..Len(fmt)
    BY <1>2, <1>3 DEF Text1
  <2> QED BY <2>1, <1>2, <1>3 DEF Longer
<1>5. ASSUME NEW m, SetMod(m)
      PROVE  AtMod(fmt', start, A, B, C, fs') /\ fs'.length_modifier = m
  <2>1. SameFlags(fs, fs') /\ SameWidth(fs, fs') /\ SamePrec(fs, fs') /\ fs'.length_modifier = m
    BY <1>2, <1>5, SpecFields DEF SetMod
  <2> QED BY <1>2, <1>3, <2>1, LongerMod DEF Text1
<1>6. ASSUME c = fs.length_modifier PROVE ConvPlace(fmt', cur', start, fs')
  <2> DEFINE m == IF c = "h" THEN "hh" ELSE "ll"
  <2>1. cur' = (C + 2) + 1 /\ C + 2 \in Nat /\ SetMod(m)
    BY <1>1, <1>3, <1>6
  <2>2. ModsDone(fmt', C, C + 2, m)
    <3>1. CASE c = "h"
      BY <3>1, <1>3, <1>4, <1>6 DEF ModsDone
    <3>2. CASE c # "h"
      <4>1. c = "l" /\ build["large"] /\ m = "ll"
        BY <3>2, <1>3, <1>6
      <4> QED BY <4>1, <1>4, <1>6 DEF ModsDone
    <3> QED BY <3>1, <3>2
  <2> HIDE DEF m
  <2> QED BY <2>1, <2>2, <1>5 DEF ConvPlace
<1>7. ASSUME c # fs.length_modifier PROVE ConvPlace(fmt', cur', start, fs')
  <2>1. cur' = (C + 1) + 1 /\ C + 1 \in Nat /\ fs' = fs
    BY <1>1, <1>3, <1>7
  <2>2. AtMod(fmt', start, A, B, C, fs')
    BY <1>2, <1>3, <2>1, SameFieldsOf, LongerMod DEF Text1
  <2>3. ModsDone(fmt', C, C + 1, fs.length_modifier)
    BY <1>3, <1>4, <1>7 DEF ModsDone
  <2> QED BY <2>1, <2>2, <2>3 DEF ConvPlace
<1> QED BY <1>1, <1>6, <1>7

\* The 'f' of wfN, or none.
LEMMA FastTo ==
  ASSUME Walked, NEW c, Fast(c)
  PROVE  pc' = "bits" /\ BitsPlace(fmt', cur', start', fast', fs')
<1>1. /\ pc = "fast" /\ Reads(c) /\ start' = start /\ pc' = "bits" /\ fs' = fs
      /\ cur' = (IF c = "f" THEN cur + 1 ELSE cur)
  BY DEF Fast, Goto
<1>f. fast' <=> c = "f"
  BY Zenon DEF Fast
<1>2. /\ fmt' \in Text1 /\ fmt \in Text1 /\ Longer(fmt, fmt')
      /\ cur \in Nat \ {0} /\ start \in Nat \ {0} /\ cur <= Len(fmt') /\ fmt'[cur] = c
      /\ fs \in FormatSpec
  BY <1>1, ReadOn
<1>3. PICK A \in Nat, B \in Nat, C \in Nat :
        /\ cur = C + 2 /\ AtMod(fmt, start, A, B, C, fs) /\ C + 1 <= Len(fmt)
        /\ fmt[C + 1] = "w" /\ build["fixed"]
  BY <1>1, PlaceHere DEF FastPlace
<1>4. C + 2 <= Len(fmt') /\ fmt'[C + 2] = c /\ fmt'[C + 1] = "w"
  <2>1. C + 1 \in 1..Len(fmt)
    BY <1>2, <1>3 DEF Text1
  <2> QED BY <2>1, <1>2, <1>3 DEF Longer
<1>5. AtMod(fmt', start, A, B, C, fs')
  BY <1>1, <1>2, <1>3, SameFieldsOf, LongerMod DEF Text1
<1> DEFINE D == IF c = "f" THEN C + 2 ELSE C + 1
<1>6. WideFrom(fmt', C, D)
  BY <1>3, <1>4 DEF WideFrom
<1>7. cur' = D + 1 /\ D \in Nat /\ D <= Len(fmt')
  BY <1>1, <1>3, <1>4
<1>8. D - C = IF fast' THEN 2 ELSE 1
  BY <1>f
<1> HIDE DEF D
<1>9. BitsPlace(fmt', cur', start, fast', fs')
  BY <1>5, <1>6, <1>7, <1>8 DEF BitsPlace
<1> QED BY <1>1, <1>9

LEMMA LmWide ==
  ASSUME NEW n, NEW w, w = IF fast THEN 2 ELSE 1
  PROVE  LmOfW(n) = LmOf(MaxOf(n, w))
<1>1. (IF fast THEN FastMax[n] ELSE LeastMax[n]) = MaxOf(n, w)
  BY DEF MaxOf
<1> QED BY <1>1, Zenon DEF LmOfW

\* The first digit of N; a wrong one ends what can be a specification.
LEMMA BitsTo ==
  ASSUME Walked, NEW c, Bits(c)
  PROVE  /\ pc' = "conv" => ConvPlace(fmt', cur', start', fs')
         /\ pc' = "confirm" => ConfirmPlace(fmt', cur', start', second', fs')
         /\ pc' = "fetch" => Dead(fmt', start)
         /\ pc' \in {"conv", "confirm", "fetch"}
<1>1. /\ pc = "bits" /\ Reads(c) /\ start' = start
      /\ \/ c = "8" /\ SetMod(LmOfW(8)) /\ pc' = "conv" /\ cur' = cur + 1
         \/ /\ c \in {"1", "3"} \/ (c = "6" /\ Has64)
            /\ SetMod(LmOfW(CASE c = "1" -> 16 [] c = "3" -> 32 [] OTHER -> 64))
            /\ second' = (CASE c = "1" -> "6" [] c = "3" -> "2" [] OTHER -> "4")
            /\ pc' = "confirm" /\ cur' = cur + 1
         \/ c \notin {"8", "1", "3"} /\ ~(c = "6" /\ Has64) /\ pc' = "fetch"
  BY DEF Bits, Goto, Advance, Fail
<1>2. /\ fmt' \in Text1 /\ fmt \in Text1 /\ Longer(fmt, fmt')
      /\ cur \in Nat \ {0} /\ start \in Nat \ {0} /\ cur <= Len(fmt') /\ fmt'[cur] = c
      /\ fs \in FormatSpec
  BY <1>1, ReadOn
<1>3. PICK A \in Nat, B \in Nat, C \in Nat, D \in Nat :
        /\ cur = D + 1 /\ AtMod(fmt, start, A, B, C, fs) /\ WideFrom(fmt, C, D)
        /\ D <= Len(fmt) /\ D - C = IF fast THEN 2 ELSE 1
  BY <1>1, PlaceHere DEF BitsPlace
<1>4. ASSUME NEW m, SetMod(m)
      PROVE  AtMod(fmt', start, A, B, C, fs') /\ fs'.length_modifier = m
  <2>1. SameFlags(fs, fs') /\ SameWidth(fs, fs') /\ SamePrec(fs, fs') /\ fs'.length_modifier = m
    BY <1>2, <1>4, SpecFields DEF SetMod
  <2> QED BY <1>2, <1>3, <2>1, LongerMod DEF Text1
<1>5. WideFrom(fmt', C, D)
  BY <1>2, <1>3, LongerWide DEF Text1
<1>6. D + 1 <= Len(fmt') /\ fmt'[D + 1] = c
  BY <1>2, <1>3
<1>7. ASSUME NEW n PROVE LmOfW(n) = LmOf(MaxOf(n, D - C))
  BY <1>3, LmWide
<1>8. ASSUME c = "8", SetMod(LmOfW(8)), cur' = cur + 1
      PROVE  ConvPlace(fmt', cur', start, fs')
  <2>1. cur' = (D + 1) + 1 /\ D + 1 \in Nat
    BY <1>3, <1>8
  <2>2. 8 \in BitWidths /\ FirstOf(8) = "8"
    BY DEF BitWidths, FirstOf
  <2> DEFINE m == LmOf(MaxOf(8, D - C))
  <2>3. SetMod(m)
    BY <1>7, <1>8, Zenon
  <2>4. m = LmOf(MaxOf(8, D - C))
    OBVIOUS
  <2> HIDE DEF m
  <2>5. ModsDone(fmt', C, D + 1, m)
    BY <1>5, <1>6, <1>8, <2>2, <2>4 DEF ModsDone
  <2> QED BY <2>1, <2>3, <2>5, <1>4 DEF ConvPlace
<1>9. ASSUME NEW n \in {16, 32, 64}, c = FirstOf(n), second' = SecondOf(n), n = 64 => Has64,
             SetMod(LmOfW(n)), cur' = cur + 1
      PROVE  ConfirmPlace(fmt', cur', start, second', fs')
  <2> DEFINE m == LmOf(MaxOf(n, D - C))
  <2>1. SetMod(m)
    BY <1>7, <1>9, Zenon
  <2>2. m = LmOf(MaxOf(n, D - C))
    OBVIOUS
  <2> HIDE DEF m
  <2>3. AtMod(fmt', start, A, B, C, fs') /\ fs'.length_modifier = LmOf(MaxOf(n, D - C))
    BY <2>1, <2>2, <1>4
  <2>4. cur' = D + 2 /\ fmt'[D + 1] = FirstOf(n)
    BY <1>3, <1>6, <1>9
  <2> QED BY <2>3, <2>4, <1>5, <1>6, <1>9 DEF ConfirmPlace
<1>10. ASSUME \/ c \in {"1", "3"}
              \/ c = "6" /\ Has64,
              SetMod(LmOfW(CASE c = "1" -> 16 [] c = "3" -> 32 [] OTHER -> 64)),
              second' = (CASE c = "1" -> "6" [] c = "3" -> "2" [] OTHER -> "4"),
              cur' = cur + 1
      PROVE  ConfirmPlace(fmt', cur', start, second', fs')
  <2> DEFINE n == CASE c = "1" -> 16 [] c = "3" -> 32 [] OTHER -> 64
  <2>1. n \in {16, 32, 64} /\ c = FirstOf(n) /\ second' = SecondOf(n) /\ (n = 64 => Has64)
    BY <1>10 DEF FirstOf, SecondOf
  <2>2. SetMod(LmOfW(n))
    BY <1>10
  <2> HIDE DEF n
  <2> QED BY <2>1, <2>2, <1>9, <1>10
<1>11. ASSUME c \notin {"8", "1", "3"}, ~(c = "6" /\ Has64)
       PROVE  Dead(fmt', start)
  <2>1. ModsStuck(fmt', C)
    BY <1>5, <1>6, <1>11 DEF ModsStuck
  <2>2. AtMod(fmt', start, A, B, C, fs)
    BY <1>2, <1>3, SameFieldsOf, LongerMod DEF Text1
  <2>3. Before(fmt', start, A, B, C)
    BY <2>2, AtModBefore
  <2> QED BY <2>1, <2>3 DEF Dead
<1>12. CASE c = "8" /\ SetMod(LmOfW(8)) /\ pc' = "conv" /\ cur' = cur + 1
  BY <1>1, <1>8, <1>12
<1>13. CASE /\ c \in {"1", "3"} \/ (c = "6" /\ Has64)
            /\ SetMod(LmOfW(CASE c = "1" -> 16 [] c = "3" -> 32 [] OTHER -> 64))
            /\ second' = (CASE c = "1" -> "6" [] c = "3" -> "2" [] OTHER -> "4")
            /\ pc' = "confirm" /\ cur' = cur + 1
  <2>1. ConfirmPlace(fmt', cur', start, second', fs')
    BY <1>10, <1>13
  <2> QED BY <1>1, <1>13, <2>1
<1>14. CASE c \notin {"8", "1", "3"} /\ ~(c = "6" /\ Has64) /\ pc' = "fetch"
  BY <1>11, <1>14
<1> QED BY <1>1, <1>12, <1>13, <1>14

\* The second digit of N; a wrong one ends what can be a specification.
LEMMA ConfirmTo ==
  ASSUME Walked, NEW c, Confirm(c)
  PROVE  /\ pc' = "conv" => ConvPlace(fmt', cur', start', fs')
         /\ pc' = "fetch" => Dead(fmt', start)
         /\ pc' \in {"conv", "fetch"}
<1>1. /\ pc = "confirm" /\ Reads(c) /\ start' = start /\ fs' = fs
      /\ IF c = second THEN pc' = "conv" /\ cur' = cur + 1 ELSE pc' = "fetch"
  BY DEF Confirm, Goto, Advance, Fail
<1>2. /\ fmt' \in Text1 /\ fmt \in Text1 /\ Longer(fmt, fmt')
      /\ cur \in Nat \ {0} /\ start \in Nat \ {0} /\ cur <= Len(fmt') /\ fmt'[cur] = c
      /\ fs \in FormatSpec
  BY <1>1, ReadOn
<1>3. PICK A \in Nat, B \in Nat, C \in Nat, D \in Nat, n \in {16, 32, 64} :
        /\ cur = D + 2 /\ AtMod(fmt, start, A, B, C, fs) /\ WideFrom(fmt, C, D) /\ D + 1 <= Len(fmt)
        /\ fmt[D + 1] = FirstOf(n) /\ second = SecondOf(n) /\ (n = 64 => Has64)
        /\ fs.length_modifier = LmOf(MaxOf(n, D - C))
  BY <1>1, PlaceHere DEF ConfirmPlace
<1>4. AtMod(fmt', start, A, B, C, fs') /\ Before(fmt', start, A, B, C)
  <2>1. AtMod(fmt, start, A, B, C, fs)
    BY <1>3
  <2>2. AtMod(fmt', start, A, B, C, fs)
    BY <1>2, <2>1, SameFieldsOf, LongerMod DEF Text1
  <2>3. AtMod(fmt', start, A, B, C, fs')
    BY <2>2, <1>1, Zenon
  <2> QED BY <2>3, AtModBefore
<1>5. WideFrom(fmt', C, D)
  BY <1>2, <1>3, LongerWide DEF Text1
<1>6. D + 2 <= Len(fmt') /\ fmt'[D + 2] = c /\ D + 1 <= Len(fmt') /\ fmt'[D + 1] = FirstOf(n)
  <2>1. D + 1 \in 1..Len(fmt)
    BY <1>2, <1>3 DEF Text1
  <2> QED BY <2>1, <1>2, <1>3 DEF Longer
<1>7. ASSUME c = second, cur' = cur + 1 PROVE ConvPlace(fmt', cur', start, fs')
  <2> DEFINE E == D + 2
  <2>1. E \in Nat /\ E = D + 2 /\ cur' = E + 1
    BY <1>3, <1>7
  <2>2. n \in BitWidths /\ n # 8
    BY DEF BitWidths
  <2>3. E = (IF n = 8 THEN D + 1 ELSE D + 2) /\ E <= Len(fmt')
    BY <2>2, <1>6
  <2> HIDE DEF E
  <2>4. ModsDone(fmt', C, E, fs.length_modifier)
    BY <1>3, <1>5, <1>6, <1>7, <2>1, <2>2, <2>3 DEF ModsDone
  <2> QED BY <2>1, <2>4, <1>1, <1>4 DEF ConvPlace
<1>8. ASSUME c # second PROVE Dead(fmt', start)
  <2>1. ModsStuck(fmt', C)
    BY <1>3, <1>5, <1>6, <1>8 DEF ModsStuck
  <2> QED BY <2>1, <1>4 DEF Dead
<1>9. CASE c = second
  BY <1>1, <1>7, <1>9
<1>10. CASE c # second
  BY <1>1, <1>8, <1>10
<1> QED BY <1>9, <1>10

\* What has been handed on for the text of f from s to q is its one meaning.
Told(f, s, q, x) == LET t == SubSeq(f, s, q)
                    IN Cardinality(Meanings(t)) = 1 /\ \A m \in Meanings(t) : Says(x, m)

LEMMA BoolIs ==
  ASSUME NEW x \in BOOLEAN, NEW c, NEW fl, x <=> c \in fl
  PROVE  x = (c \in fl)
OBVIOUS

\* The flags in the struct, as the grammar states them.
LEMMA FlagsSaid ==
  ASSUME NEW x \in FormatSpec, NEW fl, FlagsSay(fl, x)
  PROVE  /\ x.left_justified = ("-" \in fl) /\ x.leading_zero_pad = ("0" \in fl)
         /\ x.alt_form = ("#" \in fl)
         /\ x.prepend = (CASE "+" \in fl -> "+" [] fl \cap {"+", SPACE} = {SPACE} -> SPACE
                    [] OTHER -> NUL)
<1>1. x.left_justified \in BOOLEAN /\ x.leading_zero_pad \in BOOLEAN /\ x.alt_form \in BOOLEAN
  BY DEF FormatSpec
<1>2. /\ x.left_justified <=> "-" \in fl
      /\ x.leading_zero_pad <=> "0" \in fl
      /\ x.alt_form <=> "#" \in fl
      /\ x.prepend = (CASE "+" \in fl -> "+" [] fl \cap {"+", SPACE} = {SPACE} -> SPACE
                    [] OTHER -> NUL)
  BY DEF FlagsSay
<1>3. x.left_justified = ("-" \in fl)
  <2> DEFINE b == x.left_justified
  <2>1. b \in BOOLEAN /\ (b <=> "-" \in fl)
    BY <1>1, <1>2
  <2> HIDE DEF b
  <2>2. b = ("-" \in fl)
    BY ONLY <2>1, BoolIs
  <2> QED BY <2>2, Zenon DEF b
<1>4. x.leading_zero_pad = ("0" \in fl)
  <2> DEFINE b == x.leading_zero_pad
  <2>1. b \in BOOLEAN /\ (b <=> "0" \in fl)
    BY <1>1, <1>2
  <2> HIDE DEF b
  <2>2. b = ("0" \in fl)
    BY ONLY <2>1, BoolIs
  <2> QED BY <2>2, Zenon DEF b
<1>5. x.alt_form = ("#" \in fl)
  <2> DEFINE b == x.alt_form
  <2>1. b \in BOOLEAN /\ (b <=> "#" \in fl)
    BY <1>1, <1>2
  <2> HIDE DEF b
  <2>2. b = ("#" \in fl)
    BY ONLY <2>1, BoolIs
  <2> QED BY <2>2, Zenon DEF b
<1> QED BY <1>2, <1>3, <1>4, <1>5

\* The struct says what the parts behind the parser mean.
LEMMA SaysAt ==
  ASSUME NEW f \in Text1, NEW s \in Nat, NEW A \in Nat, NEW B \in Nat, NEW C \in Nat, NEW E \in Nat,
         NEW y \in FormatSpec, AtMod(f, s, A, B, C, y), y.length_modifier \in ModsOf(Part(f, C, E)),
         y.conv_spec = ConvOf(f[E + 1]), y.case_adjust = IF IsUpper(f[E + 1]) THEN 0 ELSE 32,
         NEW m, m = MeaningAt(f, s, E + 1, A, B, C)
  PROVE  Says(y, m)
<1> DEFINE fl == FlagSet(f, s, A)
           w == Part(f, A, B)
           p == Part(f, B, C)
<1>1. FlagsSay(fl, y) /\ WidthSays(w, y) /\ PrecSays(p, y) /\ s <= A /\ A <= Len(f)
  BY DEF AtMod, AtDot, AtFlags, FlagsDone
<1>2. CharsOf(Part(f, s, A)) = fl
  <2>1. f \in Seq(Chars \cup {NUL})
    BY DEF Text1
  <2> QED BY <2>1, <1>1, CharsOfPart DEF FlagSet
<1>u. m.upper <=> IsUpper(f[E + 1])
  BY Zenon DEF MeaningAt
<1>s. m.star <=> w = <<"*">>
  BY Zenon DEF MeaningAt
<1>f. m.flags = CharsOf(Part(f, s, A))
  BY Zenon DEF MeaningAt
<1>w. m.width = (IF w = <<"*">> THEN 0 ELSE Number(w))
  BY Zenon DEF MeaningAt
<1>p. m.prec_opt = (CASE IsLiteral(p) -> LITERAL [] p = <<".", "*">> -> STAR [] OTHER -> NONE)
  BY Zenon DEF MeaningAt
<1>q. m.prec = (IF IsLiteral(p) THEN Number(Tail(p)) ELSE 0)
  BY Zenon DEF MeaningAt
<1>m. m.mods = ModsOf(Part(f, C, (E + 1) - 1))
  BY Zenon DEF MeaningAt
<1>c. m.conv = ConvOf(f[E + 1])
  BY Zenon DEF MeaningAt
<1> HIDE DEF fl, w, p
<1>3. /\ m.flags = fl /\ (m.star <=> w = <<"*">>)
      /\ m.width = (IF w = <<"*">> THEN 0 ELSE Number(w))
      /\ m.prec_opt = (CASE IsLiteral(p) -> LITERAL [] p = <<".", "*">> -> STAR [] OTHER -> NONE)
      /\ m.prec = (IF IsLiteral(p) THEN Number(Tail(p)) ELSE 0)
      /\ m.mods = ModsOf(Part(f, C, (E + 1) - 1))
      /\ m.conv = ConvOf(f[E + 1])
  BY <1>2, <1>f, <1>w, <1>p, <1>q, <1>m, <1>c, <1>s
<1>4. (E + 1) - 1 = E
  OBVIOUS
<1>5. m.mods = ModsOf(Part(f, C, E))
  BY <1>3, <1>4
<1>6. /\ y.left_justified = ("-" \in m.flags) /\ y.leading_zero_pad = ("0" \in m.flags)
      /\ y.alt_form = ("#" \in m.flags)
      /\ y.prepend = (CASE "+" \in m.flags -> "+" [] m.flags \cap {"+", SPACE} = {SPACE} -> SPACE
                    [] OTHER -> NUL)
  <2>1. FlagsSay(m.flags, y)
    BY <1>1, <1>3, Zenon
  <2> HIDE DEF FlagsSay
  <2> DEFINE g == m.flags
  <2>2. FlagsSay(g, y)
    BY <2>1
  <2> HIDE DEF g
  <2>3. /\ y.left_justified = ("-" \in g) /\ y.leading_zero_pad = ("0" \in g)
        /\ y.alt_form = ("#" \in g)
        /\ y.prepend = (CASE "+" \in g -> "+" [] g \cap {"+", SPACE} = {SPACE} -> SPACE
                    [] OTHER -> NUL)
    BY <2>2, FlagsSaid, Zenon
  <2> QED BY <2>3, Zenon DEF g
<1>7. y.field_width_opt = (IF m.star THEN STAR ELSE NONE) /\ (~m.star => Stored(y.field_width, m.width))
  <2>1. CASE w = <<"*">>
    BY <2>1, <1>1, <1>3 DEF WidthSays
  <2>2. CASE w # <<"*">>
    <3>1. Stored(y.field_width, Number(w)) /\ m.width = Number(w)
      BY <2>2, <1>1, <1>3 DEF WidthSays
    <3>2. Stored(y.field_width, m.width)
      BY <3>1, Zenon
    <3> QED BY <2>2, <3>2, <1>1, <1>3 DEF WidthSays
  <2> QED BY <2>1, <2>2
<1>8. y.prec_opt = m.prec_opt /\ (m.prec_opt = LITERAL => Stored(y.prec, m.prec))
  <2>1. y.prec_opt = m.prec_opt
    BY <1>1, <1>3 DEF PrecSays
  <2>2. ASSUME m.prec_opt = LITERAL PROVE Stored(y.prec, m.prec)
    <3>1. IsLiteral(p)
      BY <2>2, <1>3 DEF LITERAL, STAR, NONE
    <3>2. Stored(y.prec, Number(Tail(p))) /\ m.prec = Number(Tail(p))
      BY <3>1, <1>1, <1>3 DEF PrecSays
    <3> QED BY <3>2, Zenon
  <2> QED BY <2>1, <2>2
<1>9. y.length_modifier \in m.mods /\ y.conv_spec = m.conv
  BY <1>3, <1>5
<1>10. y.case_adjust = (IF m.upper THEN 0 ELSE 32)
  BY <1>u
<1> QED BY <1>6, <1>7, <1>8, <1>9, <1>10, Zenon DEF Says

\* The conversion: with a good one the text has its one meaning and the struct says it;
\* with a bad one no text that begins here means anything.
LEMMA ConvTo ==
  ASSUME Walked, NEW c, Conv(c), fs' \in FormatSpec
  PROVE  IF ConvOf(c) = NONE THEN Dead(fmt', start) ELSE Told(fmt', start, cur, fs')
<1>1. /\ pc = "conv" /\ Reads(c) /\ start' = start
      /\ IF ConvOf(c) = NONE THEN fs' = fs
         ELSE fs' = [fs EXCEPT !.conv_spec = ConvOf(c),
                               !.case_adjust = IF IsUpper(c) THEN 0 ELSE 32]
  BY DEF Conv
<1>2. /\ fmt' \in Text1 /\ fmt \in Text1 /\ Longer(fmt, fmt')
      /\ cur \in Nat \ {0} /\ start \in Nat \ {0} /\ cur <= Len(fmt') /\ fmt'[cur] = c
      /\ fs \in FormatSpec
  BY <1>1, ReadOn
<1>3. PICK A \in Nat, B \in Nat, C \in Nat, E \in Nat :
        /\ cur = E + 1 /\ AtMod(fmt, start, A, B, C, fs)
        /\ ModsDone(fmt, C, E, fs.length_modifier)
  BY <1>1, PlaceHere DEF ConvPlace
<1>4. ModsDone(fmt', C, E, fs.length_modifier)
  BY <1>2, <1>3, LongerDone DEF Text1
<1>5. E + 1 <= Len(fmt') /\ fmt'[E + 1] = c
  BY <1>2, <1>3
<1>6. AtMod(fmt', start, A, B, C, fs) /\ Before(fmt', start, A, B, C)
  <2>1. AtMod(fmt', start, A, B, C, fs)
    BY <1>2, <1>3, SameFieldsOf, LongerMod DEF Text1
  <2> QED BY <2>1, AtModBefore
<1>7. ASSUME ConvOf(c) = NONE PROVE Dead(fmt', start)
  <2>1. fs.length_modifier \in LenMods
    BY <1>2 DEF FormatSpec
  <2> QED BY <2>1, <1>4, <1>5, <1>6, <1>7 DEF Dead
<1>8. ASSUME ConvOf(c) # NONE PROVE Told(fmt', start, cur, fs')
  <2>1. /\ SameFlags(fs, fs') /\ SameWidth(fs, fs') /\ SamePrec(fs, fs')
        /\ fs'.length_modifier = fs.length_modifier
        /\ fs'.conv_spec = ConvOf(c) /\ fs'.case_adjust = IF IsUpper(c) THEN 0 ELSE 32
    <3>1. fs' = [fs EXCEPT !.conv_spec = ConvOf(c),
                               !.case_adjust = IF IsUpper(c) THEN 0 ELSE 32]
      BY <1>1, <1>8
    <3> QED BY <3>1, <1>2 DEF FormatSpec, SameFlags, SameWidth, SamePrec
  <2>2. AtMod(fmt', start, A, B, C, fs')
    BY <1>2, <1>3, <2>1, LongerMod DEF Text1
  <2> DEFINE f == fmt'
             t == SubSeq(f, start, cur)
             u == MeaningAt(f, start, E + 1, A, B, C)
  <2>3. start \in 1..Len(f) /\ f[start] = "%" /\ TypeOK
    <3>1. start < cur /\ fmt[start] = "%" /\ TypeOK /\ start \in 1..Len(fmt)
      <4>1. pc \in InParser
        BY <1>1 DEF InParser, Places
      <4>2. start < cur /\ fmt[start] = "%" /\ TypeOK /\ cur <= Len(fmt) + 1
        BY <4>1 DEF Walked, CursorInv
      <4> QED BY <4>2, <1>2 DEF Text1
    <3> QED BY <3>1, <1>2 DEF Longer
  <2>f. f \in Seq(Chars \cup {NUL})
    BY <1>2 DEF Text1
  <2>g. Before(f, start, A, B, C) /\ ModsDone(f, C, E, fs.length_modifier)
        /\ E + 1 <= Len(f) /\ ConvOf(f[E + 1]) # NONE /\ f \in Text1 /\ cur = E + 1
        /\ AtMod(f, start, A, B, C, fs') /\ f[E + 1] = c
    BY <1>2, <1>3, <1>4, <1>5, <1>6, <1>8, <2>2
  <2> HIDE DEF f
  <2>4. Meanings(SubSeq(f, start, E + 1)) = {u} /\ fs.length_modifier \in ModsOf(Part(f, C, E))
    BY <2>3, <2>f, <2>g, OneMeaning
  <2>5. Meanings(t) = {u}
    BY <2>4, <2>g
  <2> HIDE DEF t, u
  <2>6. Says(fs', u)
    <3>1. fs'.length_modifier \in ModsOf(Part(f, C, E))
      BY <2>1, <2>4
    <3>2. u = MeaningAt(f, start, E + 1, A, B, C)
      BY DEF u
    <3> DEFINE y == fs'
    <3>3. y \in FormatSpec /\ AtMod(f, start, A, B, C, y) /\ y.length_modifier \in ModsOf(Part(f, C, E))
          /\ y.conv_spec = ConvOf(f[E + 1]) /\ y.case_adjust = IF IsUpper(f[E + 1]) THEN 0 ELSE 32
      BY <2>1, <2>g, <3>1
    <3>4. start \in Nat
      BY <1>2
    <3> HIDE DEF y
    <3>5. Says(y, u)
      BY <2>g, <3>2, <3>3, <3>4, SaysAt
    <3> QED BY <3>5 DEF y
  <2>7. Cardinality({u}) = 1
    BY FS_Singleton
  <2>8. \A m \in Meanings(t) : Says(fs', m)
    BY <2>5, <2>6, Zenon
  <2>9. Told(f, start, cur, fs')
    BY <2>5, <2>7, <2>8, Zenon DEF Told, t
  <2> QED BY <2>9 DEF f
<1> QED BY <1>7, <1>8

-----------------------------------------------------------------------------
(* The configuration never changes, and with it the grammar.                 *)

\* The tables of the next state.
LEMMA SameTables ==
  ASSUME build' = build
  PROVE  /\ FlagChars' = FlagChars
         /\ \A c : Starts(c)' <=> Starts(c)
         /\ \A c : ConvOf(c)' = ConvOf(c)
         /\ \A n : LmOf(n)' = LmOf(n)
         /\ Has64' <=> Has64
         /\ \A x : ModsOf(x)' = ModsOf(x)
<1>1. FlagChars' = FlagChars
  BY DEF FlagChars
<1>2. \A c : Starts(c)' <=> Starts(c)
  BY DEF Starts
<1>3. \A c : ConvOf(c)' = ConvOf(c)
  BY DEF ConvOf
<1>4. \A n : LmOf(n)' = LmOf(n)
  BY DEF LmOf, Widest
<1>5. Has64' <=> Has64
  BY DEF Has64
<1>6. \A x : ModsOf(x)' = ModsOf(x)
  BY DEF ModsOf, Holding, Carried
<1> QED BY <1>1, <1>2, <1>3, <1>4, <1>5, <1>6

\* The parts of a text in the next state.
LEMMA SameParts ==
  ASSUME build' = build
  PROVE  /\ \A f, s, A : FlagsDone(f, s, A)' <=> FlagsDone(f, s, A)
         /\ \A f, A, B : WidthDone(f, A, B)' <=> WidthDone(f, A, B)
         /\ \A f, B, D : PrecFrom(f, B, D)' <=> PrecFrom(f, B, D)
         /\ \A f, B, C : PrecDone(f, B, C)' <=> PrecDone(f, B, C)
         /\ \A f, C, D : WideFrom(f, C, D)' <=> WideFrom(f, C, D)
         /\ \A f, C, E, m : ModsDone(f, C, E, m)' <=> ModsDone(f, C, E, m)
         /\ \A f, C : ModsStuck(f, C)' <=> ModsStuck(f, C)
<1>1. \A f, s, A : FlagsDone(f, s, A)' <=> FlagsDone(f, s, A)
  BY SameTables DEF FlagsDone
<1>2. \A f, A, B : WidthDone(f, A, B)' <=> WidthDone(f, A, B)
  BY DEF WidthDone
<1>3. \A f, B, D : PrecFrom(f, B, D)' <=> PrecFrom(f, B, D)
  BY DEF PrecFrom
<1>4. \A f, B, C : PrecDone(f, B, C)' <=> PrecDone(f, B, C)
  BY <1>3 DEF PrecDone
<1>5. \A f, C, D : WideFrom(f, C, D)' <=> WideFrom(f, C, D)
  BY DEF WideFrom
<1>6. \A f, C, E, m : ModsDone(f, C, E, m)' <=> ModsDone(f, C, E, m)
  BY <1>5, SameTables DEF ModsDone
<1>7. \A f, C : ModsStuck(f, C)' <=> ModsStuck(f, C)
  BY <1>5, SameTables DEF ModsStuck
<1> QED BY <1>1, <1>2, <1>3, <1>4, <1>5, <1>6, <1>7

\* What stands behind the parser, in the next state.
LEMMA SameAt ==
  ASSUME build' = build
  PROVE  /\ \A f, s, A, x : AtFlags(f, s, A, x)' <=> AtFlags(f, s, A, x)
         /\ \A f, s, A, B, x : AtDot(f, s, A, B, x)' <=> AtDot(f, s, A, B, x)
         /\ \A f, s, A, B, C, x : AtMod(f, s, A, B, C, x)' <=> AtMod(f, s, A, B, C, x)
         /\ \A f, s : Dead(f, s)' <=> Dead(f, s)
<1>1. \A f, s, A, x : AtFlags(f, s, A, x)' <=> AtFlags(f, s, A, x)
  BY SameParts DEF AtFlags
<1>2. \A f, s, A, B, x : AtDot(f, s, A, B, x)' <=> AtDot(f, s, A, B, x)
  BY <1>1, SameParts DEF AtDot
<1>3. \A f, s, A, B, C, x : AtMod(f, s, A, B, C, x)' <=> AtMod(f, s, A, B, C, x)
  BY <1>2, SameParts DEF AtMod
<1>4. \A f, s, A, B, C : Before(f, s, A, B, C)' <=> Before(f, s, A, B, C)
  BY SameParts DEF Before
<1>5. \A f, s : Dead(f, s)' <=> Dead(f, s)
  BY <1>4, SameParts, SameTables DEF Dead
<1> QED BY <1>1, <1>2, <1>3, <1>5

\* The places of the walk, in the next state.
LEMMA SamePlaces ==
  ASSUME build' = build, NEW f, NEW c, NEW s, NEW n, NEW w, NEW d, NEW x
  PROVE  /\ FlagsPlace(f, c, s, x)' <=> FlagsPlace(f, c, s, x)
         /\ WidthPlace(f, c, s, x)' <=> WidthPlace(f, c, s, x)
         /\ WidthNumPlace(f, c, s, n, x)' <=> WidthNumPlace(f, c, s, n, x)
         /\ DotPlace(f, c, s, x)' <=> DotPlace(f, c, s, x)
         /\ PrecPlace(f, c, s, x)' <=> PrecPlace(f, c, s, x)
         /\ PrecNumPlace(f, c, s, n, x)' <=> PrecNumPlace(f, c, s, n, x)
         /\ LenModPlace(f, c, s, x)' <=> LenModPlace(f, c, s, x)
         /\ TwicePlace(f, c, s, x)' <=> TwicePlace(f, c, s, x)
         /\ FastPlace(f, c, s, x)' <=> FastPlace(f, c, s, x)
         /\ BitsPlace(f, c, s, w, x)' <=> BitsPlace(f, c, s, w, x)
         /\ ConfirmPlace(f, c, s, d, x)' <=> ConfirmPlace(f, c, s, d, x)
         /\ ConvPlace(f, c, s, x)' <=> ConvPlace(f, c, s, x)
<1>1. FlagsPlace(f, c, s, x)' <=> FlagsPlace(f, c, s, x)
  BY SameTables DEF FlagsPlace
<1>2. WidthPlace(f, c, s, x)' <=> WidthPlace(f, c, s, x)
  BY SameAt DEF WidthPlace
<1>3. WidthNumPlace(f, c, s, n, x)' <=> WidthNumPlace(f, c, s, n, x)
  BY SameAt DEF WidthNumPlace
<1>4. DotPlace(f, c, s, x)' <=> DotPlace(f, c, s, x)
  BY SameAt DEF DotPlace
<1>5. PrecPlace(f, c, s, x)' <=> PrecPlace(f, c, s, x)
  BY SameAt DEF PrecPlace
<1>6. PrecNumPlace(f, c, s, n, x)' <=> PrecNumPlace(f, c, s, n, x)
  BY SameAt, SameParts DEF PrecNumPlace
<1>7. LenModPlace(f, c, s, x)' <=> LenModPlace(f, c, s, x)
  BY SameAt DEF LenModPlace
<1>8. TwicePlace(f, c, s, x)' <=> TwicePlace(f, c, s, x)
  BY SameAt DEF TwicePlace
<1>9. FastPlace(f, c, s, x)' <=> FastPlace(f, c, s, x)
  BY SameAt DEF FastPlace
<1>10. BitsPlace(f, c, s, w, x)' <=> BitsPlace(f, c, s, w, x)
  BY SameAt, SameParts DEF BitsPlace
<1>11. ConfirmPlace(f, c, s, d, x)' <=> ConfirmPlace(f, c, s, d, x)
  <2>1. /\ \A A, B, C : AtMod(f, s, A, B, C, x)' <=> AtMod(f, s, A, B, C, x)
        /\ \A C, D : WideFrom(f, C, D)' <=> WideFrom(f, C, D)
        /\ \A m : LmOf(m)' = LmOf(m)
        /\ Has64' <=> Has64
    BY SameAt, SameParts, SameTables
  <2> DEFINE P(A, B, C, D, k) ==
        /\ c = D + 2 /\ AtMod(f, s, A, B, C, x) /\ WideFrom(f, C, D) /\ D + 1 <= Len(f)
        /\ f[D + 1] = FirstOf(k) /\ d = SecondOf(k) /\ (k = 64 => Has64)
        /\ x.length_modifier = LmOf(MaxOf(k, D - C))
  <2>2. \A A, B, C, D, k : P(A, B, C, D, k)' <=> P(A, B, C, D, k)
    BY ONLY <2>1
  <2>3. ConfirmPlace(f, c, s, d, x) <=> \E A, B, C, D \in Nat : \E k \in {16, 32, 64} : P(A, B, C, D, k)
    BY DEF ConfirmPlace
  <2>4. ConfirmPlace(f, c, s, d, x)' <=> \E A, B, C, D \in Nat : \E k \in {16, 32, 64} : P(A, B, C, D, k)'
    BY DEF ConfirmPlace
  <2> HIDE DEF P
  <2> QED BY <2>2, <2>3, <2>4
<1>12. ConvPlace(f, c, s, x)' <=> ConvPlace(f, c, s, x)
  BY SameAt, SameParts DEF ConvPlace
<1> QED
  BY <1>1, <1>2, <1>3, <1>4, <1>5, <1>6, <1>7, <1>8, <1>9, <1>10, <1>11, <1>12

\* The meanings, in the next state.
LEMMA SameGrammar ==
  ASSUME build' = build
  PROVE  /\ \A t : Meanings(t)' = Meanings(t)
         /\ \A f, s, q, x : Told(f, s, q, x)' <=> Told(f, s, q, x)
<1>1. \A x : IsFlags(x)' <=> IsFlags(x)
  BY SameTables DEF IsFlags
<1>2. \A x : IsWidth(x)' <=> IsWidth(x)
  BY DEF IsWidth
<1>3. \A x : IsPrec(x)' <=> IsPrec(x)
  BY DEF IsPrec
<1>4. \A t, a, b, c : Fits(t, a, b, c)' <=> Fits(t, a, b, c)
  BY <1>1, <1>2, <1>3, SameTables DEF Fits
<1>5. \A t, a, b, c : Meaning(t, a, b, c)' = Meaning(t, a, b, c)
  BY SameTables DEF Meaning
<1>6. \A t : Meanings(t)' = Meanings(t)
  BY <1>4, <1>5 DEF Meanings
<1>7. \A f, s, q, x : Told(f, s, q, x)' <=> Told(f, s, q, x)
  BY <1>6 DEF Told
<1> QED BY <1>6, <1>7

\* A build without widths never stores one.
LEMMA WidthKept ==
  ASSUME Walked, [Next]_vars, ~build["width"]
  PROVE  fs'.field_width = 0
<1>1. fs \in FormatSpec /\ fs.field_width = 0
  BY DEF Walked, TypeOK, PlaceInv, PlaceAt
<1>2. ASSUME fs' = fs PROVE fs'.field_width = 0
  BY <1>1, <1>2
<1>3. ASSUME NEW m, fs' = [fs EXCEPT !.length_modifier = m] PROVE fs'.field_width = 0
  BY <1>1, <1>3 DEF FormatSpec
<1>4. ASSUME NEW c, NumEnd(c) PROVE fs'.field_width = 0
  <2>1. pc # "widthnum"
    BY PlaceHere DEF WidthNumPlace
  <2>2. fs' = [fs EXCEPT !.prec = num]
    BY <1>4, <2>1 DEF NumEnd
  <2> QED BY <2>2, <1>1 DEF FormatSpec
<1>5. ASSUME NEW c, Fetch(c) PROVE fs'.field_width = 0
  <2>1. fs' = fs \/ fs' = [fs EXCEPT !.left_justified = FALSE, !.leading_zero_pad = FALSE,
                      !.prepend = NUL, !.alt_form = FALSE]
    BY <1>5 DEF Fetch, FetchChar, FetchEnd, Percent
  <2> QED BY <2>1, <1>1 DEF FormatSpec
<1>6. ASSUME NEW c, Flag(c) PROVE fs'.field_width = 0
  <2>1. \/ fs' = [fs EXCEPT !.left_justified = TRUE]
        \/ fs' = [fs EXCEPT !.leading_zero_pad = TRUE]
        \/ fs' = [fs EXCEPT !.alt_form = TRUE]
        \/ fs' = fs
        \/ fs' = [fs EXCEPT !.prepend = c]
    BY <1>6 DEF Flag
  <2> QED BY <2>1, <1>1 DEF FormatSpec
<1>7. ASSUME NEW c, FlagsEnd(c) PROVE fs'.field_width = 0
  BY <1>2, <1>7 DEF FlagsEnd
<1>8. ASSUME NEW c, Width(c) PROVE fs'.field_width = 0
  BY <1>1, <1>8 DEF Width, FormatSpec
<1>9. ASSUME NEW c, NumDigit(c) PROVE fs'.field_width = 0
  BY <1>2, <1>9 DEF NumDigit
<1>10. ASSUME NEW c, Dot(c) PROVE fs'.field_width = 0
  BY <1>1, <1>10 DEF Dot, FormatSpec
<1>11. ASSUME NEW c, Prec(c) PROVE fs'.field_width = 0
  BY <1>1, <1>11 DEF Prec, FormatSpec
<1>12. ASSUME NEW c, LenMod(c) PROVE fs'.field_width = 0
  <2>1. \E m : fs' = [fs EXCEPT !.length_modifier = m]
    BY <1>12 DEF LenMod, SetMod
  <2> QED BY <2>1, <1>3
<1>13. ASSUME NEW c, Twice(c) PROVE fs'.field_width = 0
  <2>1. fs' = fs \/ \E m : fs' = [fs EXCEPT !.length_modifier = m]
    BY <1>13 DEF Twice, SetMod
  <2> QED BY <2>1, <1>2, <1>3
<1>14. ASSUME NEW c, Fast(c) PROVE fs'.field_width = 0
  BY <1>2, <1>14 DEF Fast
<1>15. ASSUME NEW c, Bits(c) PROVE fs'.field_width = 0
  <2>1. fs' = fs \/ \E m : fs' = [fs EXCEPT !.length_modifier = m]
    BY <1>15 DEF Bits, SetMod
  <2> QED BY <2>1, <1>2, <1>3
<1>16. ASSUME NEW c, Confirm(c) PROVE fs'.field_width = 0
  BY <1>2, <1>16 DEF Confirm
<1>17. ASSUME NEW c, Conv(c) PROVE fs'.field_width = 0
  <2>1. fs' = fs \/ \E a, b : fs' = [fs EXCEPT !.conv_spec = a, !.case_adjust = b]
    BY <1>17 DEF Conv
  <2> QED BY <2>1, <1>1 DEF FormatSpec
<1>18. Done \/ UNCHANGED vars => fs' = fs
  BY DEF Done, vars
<1> QED
  BY <1>2, <1>4, <1>5, <1>6, <1>7, <1>8, <1>9, <1>10, <1>11, <1>12, <1>13, <1>14, <1>15, <1>16,
     <1>17, <1>18 DEF Next, Parse

\* Every step leaves the parser at a place it can be.
LEMMA PlaceStep ==
  ASSUME Walked, [Next]_vars
  PROVE  PlaceInv'
<1> DEFINE There == PlaceAt(fmt', pc', cur', start', num', fast', second', fs')
<1>0. ~build["width"] => fs'.field_width = 0
  BY WidthKept
<1>1. ASSUME NEW c, Fetch(c) PROVE There
  <2>1. pc' \in {"fetch", "done"} \/ Percent
    BY <1>1 DEF Fetch, FetchChar, FetchEnd, Goto
  <2>2. CASE pc' \in {"fetch", "done"}
    BY <2>2, <1>0 DEF PlaceAt
  <2>3. CASE Percent
    <3>1. pc' = "flags"
      BY <2>3 DEF Percent, Goto
    <3> QED BY <2>3, <3>1, <1>0, PercentTo DEF PlaceAt
  <2> QED BY <2>1, <2>2, <2>3
<1>2. ASSUME NEW c, Flag(c) PROVE There
  <2>1. pc' = "flags"
    BY <1>2 DEF Flag
  <2> QED BY <1>0, <1>2, <2>1, FlagTo DEF PlaceAt
<1>3. ASSUME NEW c, FlagsEnd(c) PROVE There
  BY <1>0, <1>3, FlagsEndTo DEF PlaceAt
<1>4. ASSUME NEW c, Width(c) PROVE There
  BY <1>0, <1>4, WidthTo DEF PlaceAt
<1>5. ASSUME NEW c, NumDigit(c) PROVE There
  BY <1>0, <1>5, NumDigitTo DEF PlaceAt
<1>6. ASSUME NEW c, NumEnd(c) PROVE There
  <2>1. pc \in {"widthnum", "precnum"}
    BY <1>6 DEF NumEnd
  <2>2. CASE pc = "widthnum"
    BY <1>0, <1>6, <2>2, WidthRead DEF PlaceAt
  <2>3. CASE pc = "precnum"
    BY <1>0, <1>6, <2>3, PrecRead DEF PlaceAt
  <2> QED BY <2>1, <2>2, <2>3
<1>7. ASSUME NEW c, Dot(c) PROVE There
  BY <1>0, <1>7, DotTo DEF PlaceAt
<1>8. ASSUME NEW c, Prec(c) PROVE There
  BY <1>0, <1>8, PrecTo DEF PlaceAt
<1>9. ASSUME NEW c, LenMod(c) PROVE There
  BY <1>0, <1>9, LenModTo DEF PlaceAt
<1>10. ASSUME NEW c, Twice(c) PROVE There
  BY <1>0, <1>10, TwiceTo DEF PlaceAt
<1>11. ASSUME NEW c, Fast(c) PROVE There
  BY <1>0, <1>11, FastTo DEF PlaceAt
<1>12. ASSUME NEW c, Bits(c) PROVE There
  BY <1>0, <1>12, BitsTo DEF PlaceAt
<1>13. ASSUME NEW c, Confirm(c) PROVE There
  BY <1>0, <1>13, ConfirmTo DEF PlaceAt
<1>14. ASSUME NEW c, Conv(c) PROVE There
  <2>1. pc' = "fetch"
    BY <1>14 DEF Conv, Goto, Fail
  <2> QED BY <1>0, <2>1 DEF PlaceAt
<1>15. ASSUME Done \/ UNCHANGED vars PROVE There
  <2>1. There <=> PlaceInv
    BY <1>15 DEF Done, vars, PlaceInv
  <2> QED BY <2>1 DEF Walked
<1>16. There
  BY <1>1, <1>2, <1>3, <1>4, <1>5, <1>6, <1>7, <1>8, <1>9, <1>10, <1>11, <1>12, <1>13, <1>14, <1>15
     DEF Next, Parse
<1>17. build' = build
  BY FsStep DEF Walked
<1> HIDE DEF There
<1>18. There <=> PlaceInv'
  <2>1. \A f, p, c, s, n, w, d, x : PlaceAt(f, p, c, s, n, w, d, x)' <=> PlaceAt(f, p, c, s, n, w, d, x)
    BY <1>17, SamePlaces DEF PlaceAt
  <2> QED BY <2>1 DEF There, PlaceInv
<1> QED BY <1>16, <1>18

-----------------------------------------------------------------------------
(* What has been handed on. *)

ItemTold(f, x) ==
  /\ x.at >= 1 /\ x.len >= 1 /\ x.at + x.len - 1 <= Len(f)
  /\ x.parsed => Told(f, x.at, x.at + x.len - 1, x.spec)
  /\ ~x.parsed => f[x.at] # "%" \/ Dead(f, x.at)
ItemsInv == \A k \in 1..Len(items) : ItemTold(fmt, items[k])

\* An item handed on stays told as the format is read further.
LEMMA LongerItem ==
  ASSUME NEW f \in Text1, NEW g \in Text1, Longer(f, g), NEW x \in Item, ItemTold(f, x)
  PROVE  ItemTold(g, x)
<1> DEFINE i == x.at
           j == x.at + x.len - 1
<1>1. i \in Nat \ {0} /\ j \in Nat /\ i <= j /\ j <= Len(f) /\ Len(f) <= Len(g) /\ x.len >= 1
  BY DEF Item, ItemTold, Longer, Text1
<1>2. f \in Seq(Chars \cup {NUL}) /\ g \in Seq(Chars \cup {NUL})
  BY DEF Text1
<1>3. x.parsed => Told(f, i, j, x.spec)
  BY DEF ItemTold
<1>4. ~x.parsed => f[i] # "%" \/ Dead(f, i)
  BY DEF ItemTold
<1> HIDE DEF i, j
<1>5. SubSeq(g, i, j) = SubSeq(f, i, j)
  BY <1>1, <1>2, LongerText
<1>6. x.parsed => Told(g, i, j, x.spec)
  BY <1>3, <1>5, Zenon DEF Told
<1>7. g[i] = f[i]
  BY <1>1 DEF Longer
<1>8. ~x.parsed => g[i] # "%" \/ Dead(g, i)
  <2>1. i \in Nat
    BY <1>1
  <2>2. Dead(f, i) => Dead(g, i)
    BY <2>1, <1>2, LongerDead
  <2> QED BY <2>2, <1>4, <1>7
<1>9. j <= Len(g)
  BY <1>1, <1>2
<1> QED BY <1>1, <1>6, <1>8, <1>9 DEF ItemTold, i, j

\* A character printed as it stands.
LEMMA VerbatimTold ==
  ASSUME NEW f \in Text1, NEW p \in Nat \ {0}, p <= Len(f), f[p] # "%" \/ Dead(f, p)
  PROVE  ItemTold(f, Verbatim(p))
<1>1. Verbatim(p).at = p /\ Verbatim(p).len = 1 /\ ~Verbatim(p).parsed
  BY VerbatimTyped
<1>2. p >= 1 /\ p + 1 - 1 <= Len(f)
  BY DEF Text1
<1> DEFINE v == Verbatim(p)
<1>3. v.at = p /\ v.len = 1 /\ ~v.parsed
  BY <1>1
<1> HIDE DEF v
<1>4. ItemTold(f, v)
  BY <1>2, <1>3 DEF ItemTold
<1> QED BY <1>4 DEF v

LEMMA StartHere ==
  ASSUME Walked, pc \in InParser
  PROVE  start \in Nat \ {0} /\ start < cur /\ start <= Len(fmt)
BY DEF Walked, TypeOK, CursorInv

\* A step hands on at most one item, and that one is told.
LEMMA NewItem ==
  ASSUME Walked, fs' \in FormatSpec, [Next]_vars
  PROVE  /\ fmt' = fmt \/ Longer(fmt, fmt')
         /\ fmt' \in Text1
         /\ items' = items \/ \E x \in Item : items' = Append(items, x) /\ ItemTold(fmt', x)
<1> DEFINE Goal == /\ fmt' = fmt \/ Longer(fmt, fmt')
                   /\ fmt' \in Text1
                   /\ items' = items \/ \E x \in Item : items' = Append(items, x) /\ ItemTold(fmt', x)
<1>0. fmt \in Text1 /\ cur \in Nat /\ start \in Nat
  BY DEF Walked, TypeOK, Text1
<1>1. ASSUME NEW c, Reads(c), items' = items PROVE Goal
  BY <1>1, ReadOn
<1>2. ASSUME NEW c, Reads(c), pc \in InParser, Dead(fmt', start), items' = Append(items, Verbatim(start))
      PROVE Goal
  <2>1. fmt' \in Text1 /\ Longer(fmt, fmt')
    BY <1>2, ReadOn
  <2>2. start \in Nat \ {0} /\ start <= Len(fmt')
    BY <1>2, <2>1, StartHere DEF Longer, Text1
  <2>3. ItemTold(fmt', Verbatim(start))
    BY <1>2, <2>1, <2>2, VerbatimTold
  <2>4. Verbatim(start) \in Item
    BY <2>2, VerbatimTyped
  <2> QED BY <1>2, <2>1, <2>3, <2>4
<1>3. ASSUME NEW c, FetchChar(c) PROVE Goal
  <2>1. Reads(c) /\ c # "%" /\ items' = Append(items, Verbatim(cur))
    BY <1>3 DEF FetchChar
  <2>2. /\ fmt' \in Text1 /\ Longer(fmt, fmt')
        /\ cur \in Nat \ {0} /\ cur <= Len(fmt') /\ fmt'[cur] = c
    BY <2>1, ReadOn
  <2>3. ItemTold(fmt', Verbatim(cur))
    BY <2>1, <2>2, VerbatimTold
  <2>4. Verbatim(cur) \in Item
    BY <2>2, VerbatimTyped
  <2> QED BY <2>1, <2>2, <2>3, <2>4
<1>4. ASSUME NEW c, Bits(c) PROVE Goal
  <2>1. Reads(c) /\ pc \in InParser
    BY <1>4 DEF Bits, InParser, Places
  <2>2. items' = items \/ (items' = Append(items, Verbatim(start)) /\ pc' = "fetch")
    BY <1>4 DEF Bits, Fail, Goto
  <2>3. pc' = "fetch" => Dead(fmt', start)
    BY <1>4, BitsTo
  <2> QED BY <2>1, <2>2, <2>3, <1>1, <1>2
<1>5. ASSUME NEW c, Confirm(c) PROVE Goal
  <2>1. Reads(c) /\ pc \in InParser
    BY <1>5 DEF Confirm, InParser, Places
  <2>2. items' = items \/ (items' = Append(items, Verbatim(start)) /\ pc' = "fetch")
    BY <1>5 DEF Confirm, Fail, Goto
  <2>3. pc' = "fetch" => Dead(fmt', start)
    BY <1>5, ConfirmTo
  <2> QED BY <2>1, <2>2, <2>3, <1>1, <1>2
<1>6. ASSUME NEW c, Conv(c) PROVE Goal
  <2>1. Reads(c) /\ pc \in InParser
    BY <1>6 DEF Conv, InParser, Places
  <2>2. CASE ConvOf(c) = NONE
    <3>1. items' = Append(items, Verbatim(start))
      BY <1>6, <2>2 DEF Conv, Fail
    <3>2. Dead(fmt', start)
      BY <1>6, <2>2, ConvTo
    <3> QED BY <2>1, <3>1, <3>2, <1>2
  <2>3. CASE ConvOf(c) # NONE
    <3> DEFINE x == [at |-> start, len |-> cur + 1 - start, parsed |-> TRUE, spec |-> fs']
    <3>1. items' = Append(items, x)
      BY <1>6, <2>3 DEF Conv
    <3>2. Told(fmt', start, cur, fs')
      BY <1>6, <2>3, ConvTo
    <3>3. fmt' \in Text1 /\ Longer(fmt, fmt') /\ cur <= Len(fmt') /\ cur \in Nat
      BY <2>1, ReadOn
    <3>4. start \in Nat \ {0} /\ start < cur
      BY <2>1, StartHere
    <3>5. /\ x.at = start /\ x.len = cur + 1 - start /\ x.parsed = TRUE /\ x.spec = fs'
          /\ x.at \in Nat /\ x.len \in Nat
      BY <3>3, <3>4
    <3>6. x \in Item
      BY <3>3, <3>4 DEF Item
    <3>7. x.parsed
      OBVIOUS
    <3>8. x.at + x.len - 1 = cur /\ x.at >= 1 /\ x.len >= 1
      BY <3>3, <3>4, <3>5
    <3> HIDE DEF x
    <3>9. Told(fmt', x.at, x.at + x.len - 1, x.spec)
      BY <3>2, <3>5, <3>8
    <3>10. ItemTold(fmt', x)
      BY <3>3, <3>7, <3>8, <3>9 DEF ItemTold
    <3> QED BY <3>1, <3>3, <3>6, <3>10
  <2> QED BY <2>2, <2>3
<1>7. ASSUME NEW c,
             \/ FetchEnd \/ Percent
             \/ Flag(c) \/ FlagsEnd(c) \/ Width(c) \/ NumDigit(c) \/ NumEnd(c)
             \/ Dot(c) \/ Prec(c) \/ LenMod(c) \/ Twice(c) \/ Fast(c)
      PROVE Goal
  <2>1. items' = items /\ \E d : Reads(d)
    BY <1>7 DEF FetchEnd, Percent, Flag, FlagsEnd, Width, NumDigit, NumEnd, Dot, Prec, LenMod, Twice, Fast
  <2> QED BY <2>1, <1>1
<1>8. ASSUME Done \/ UNCHANGED vars PROVE Goal
  BY <1>0, <1>8 DEF Done, vars
<1> HIDE DEF Goal
<1>9. Goal
  BY <1>3, <1>4, <1>5, <1>6, <1>7, <1>8 DEF Next, Fetch, Parse
<1> QED BY <1>9 DEF Goal

\* Every item stays told.
LEMMA ItemsStep ==
  ASSUME Walked, ItemsInv, fs' \in FormatSpec, [Next]_vars
  PROVE  ItemsInv'
<1>1. /\ fmt' = fmt \/ Longer(fmt, fmt')
      /\ fmt' \in Text1 /\ fmt \in Text1 /\ items \in Seq(Item)
      /\ items' = items \/ \E x \in Item : items' = Append(items, x) /\ ItemTold(fmt', x)
  BY NewItem DEF Walked, TypeOK, Text1
<1>2. \A k \in 1..Len(items) : ItemTold(fmt', items[k])
  <2> SUFFICES ASSUME NEW k \in 1..Len(items) PROVE ItemTold(fmt', items[k])
    OBVIOUS
  <2>1. ItemTold(fmt, items[k]) /\ items[k] \in Item
    BY <1>1 DEF ItemsInv
  <2>2. CASE fmt' = fmt
    BY <2>1, <2>2
  <2>3. CASE Longer(fmt, fmt')
    <3> DEFINE x == items[k]
               g == fmt'
    <3>1. ItemTold(fmt, x) /\ x \in Item /\ g \in Text1 /\ Longer(fmt, g)
      BY <2>1, <2>3, <1>1
    <3> HIDE DEF x, g
    <3>2. ItemTold(g, x)
      BY <3>1, <1>1, LongerItem
    <3> QED BY <3>2 DEF x, g
  <2> QED BY <1>1, <2>2, <2>3
<1>3. \A k \in 1..Len(items') : ItemTold(fmt', items'[k])
  <2>1. CASE items' = items
    BY <1>2, <2>1
  <2>2. ASSUME NEW x \in Item, items' = Append(items, x), ItemTold(fmt', x)
        PROVE  \A k \in 1..Len(items') : ItemTold(fmt', items'[k])
    <3>1. Len(items') = Len(items) + 1 /\ items'[Len(items) + 1] = x
          /\ \A k \in 1..Len(items) : items'[k] = items[k]
      BY <1>1, <2>2
    <3> SUFFICES ASSUME NEW k \in 1..Len(items') PROVE ItemTold(fmt', items'[k])
      OBVIOUS
    <3>2. k \in 1..Len(items) \/ k = Len(items) + 1
      BY <3>1, <1>1
    <3> QED BY <3>1, <3>2, <1>2, <2>2
  <2> QED BY <1>1, <2>1, <2>2
<1>4. build' = build
  BY FsStep DEF Walked
<1>5. \A f, x : ItemTold(f, x)' <=> ItemTold(f, x)
  BY <1>4, SameGrammar, SameAt DEF ItemTold
<1> QED BY <1>3, <1>5 DEF ItemsInv

-----------------------------------------------------------------------------
(* The grammar. *)

GrammarInv == WalkInv /\ PlaceInv /\ ItemsInv

\* The invariant says what ParsesGrammar does.
LEMMA GrammarFollows ==
  ASSUME GrammarInv
  PROVE  ParsesGrammar
<1>1. TypeOK /\ fmt \in Seq(Chars \cup {NUL}) /\ items \in Seq(Item)
  BY DEF GrammarInv, WalkInv, TypeOK
<1>2. ASSUME NEW k \in 1..Len(items), items[k].parsed
      PROVE  /\ Cardinality(Meanings(Text(items[k]))) = 1
             /\ \A m \in Meanings(Text(items[k])) : Says(items[k].spec, m)
  <2>1. ItemTold(fmt, items[k])
    BY DEF GrammarInv, ItemsInv
  <2>2. Told(fmt, items[k].at, items[k].at + items[k].len - 1, items[k].spec)
    BY <1>2, <2>1 DEF ItemTold
  <2> QED BY <2>2, Zenon DEF Told, Text
<1>3. ASSUME NEW k \in 1..Len(items), ~items[k].parsed, NEW q \in items[k].at..Len(fmt)
      PROVE  Meanings(SubSeq(fmt, items[k].at, q)) = {}
  <2> DEFINE s == items[k].at
  <2>1. ItemTold(fmt, items[k]) /\ items[k] \in Item
    BY <1>1 DEF GrammarInv, ItemsInv
  <2>2. s \in Nat /\ s >= 1 /\ (fmt[s] # "%" \/ Dead(fmt, s))
    BY <1>3, <2>1 DEF ItemTold, Item
  <2>3. s \in 1..Len(fmt) /\ q \in s..Len(fmt)
    BY <1>3, <1>1, <2>2
  <2> HIDE DEF s
  <2>4. Meanings(SubSeq(fmt, s, q)) = {}
    BY <2>2, <2>3, <1>1, DeadNone, NoPercentNone
  <2> QED BY <2>4 DEF s
<1>4. ASSUME items # <<>> PROVE Len(items) \in 1..Len(items)
  BY <1>1, <1>4
<1> DEFINE last == items[Len(items)]
<1>5. ASSUME pc = "fetch", items # <<>>, last.parsed
      PROVE  /\ Cardinality(Meanings(Text(last))) = 1
             /\ \A m \in Meanings(Text(last)) : Says(last.spec, m)
  BY <1>2, <1>4, <1>5
<1>6. ASSUME pc = "done"
      PROVE  \A k \in 1..Len(items) :
               ~items[k].parsed => \A q \in items[k].at..Len(fmt) :
                                     Meanings(SubSeq(fmt, items[k].at, q)) = {}
  BY <1>3
<1> QED BY <1>5, <1>6 DEF ParsesGrammar

LEMMA GrammarInit == Init => GrammarInv
<1> SUFFICES ASSUME Init PROVE GrammarInv
  OBVIOUS
<1>1. WalkInv /\ pc = "fetch" /\ items = <<>>
  BY WalkInit DEF Init
<1>2. ~build["width"] => fs.field_width = 0
  BY DEF Init
<1>3. PlaceInv
  BY <1>1, <1>2 DEF PlaceInv, PlaceAt
<1>4. ItemsInv
  BY <1>1 DEF ItemsInv
<1> QED BY <1>1, <1>3, <1>4 DEF GrammarInv

\* The format is read as its grammar says: what is parsed has one meaning and the struct
\* holds it, and a '%' printed verbatim begins nothing the grammar knows, however
\* long the format (590-782).
THEOREM GrammarKept == Spec => []ParsesGrammar
<1>1. GrammarInv /\ [Next]_vars => GrammarInv'
  <2> SUFFICES ASSUME GrammarInv, [Next]_vars PROVE GrammarInv'
    OBVIOUS
  <2>1. WalkInv'
    BY CursorStep, FsStep, TypeStep, TilesStep, HandsOnStep DEF WalkInv, GrammarInv
  <2>2. Walked /\ ItemsInv
    BY DEF GrammarInv, WalkInv, Walked
  <2>3. PlaceInv'
    BY <2>2, PlaceStep
  <2>4. fs' \in FormatSpec
    BY <2>1 DEF WalkInv, TypeOK
  <2>5. ItemsInv'
    BY <2>2, <2>4, ItemsStep
  <2> QED BY <2>1, <2>3, <2>5 DEF GrammarInv
<1> QED
  BY <1>1, GrammarInit, GrammarFollows, PTL DEF Spec
=============================================================================
