----------------------------- MODULE MCVpprintf -----------------------------
(***************************************************************************)
(* Small instances of the engine: scaled C types, formats built from       *)
(* families of specifications, and the arguments C allows with each.       *)
(***************************************************************************)
EXTENDS NpfC11

\* Scaled data models.  int has 6 bits, so that its ratio to the cap is the one a
\* 16-bit int has to 8192; intmax_t has 9 bits, three octal digits.
Model(long, size, ptr) ==
  [CHAR |-> 3, SHORT |-> 7, INT |-> 31, LONG |-> long, LL |-> 255, INTMAX |-> 255,
   SIZE |-> size, PTRDIFF |-> size, PTR |-> ptr]
LP64  == Model(255, 255, 255)
LLP64 == Model(31, 255, 255)    \* size_t wider than long
ILP32 == Model(31, 31, 31)
AVR   == Model(127, 31, 31)

MCHeap == 5 :> [chars |-> <<"a", "b", "c">>, term |-> TRUE]
          @@ 6 :> [chars |-> <<"a", "b">>, term |-> FALSE]
          @@ 7 :> [chars |-> <<>>, term |-> TRUE]
MCFloatTexts == {[rev |-> <<"5", ".", "1">>, text |-> FALSE],
                 [rev |-> <<"f", "n", "i">>, text |-> TRUE]}
MCGarbage == {-32, 21}
MCLiterals == {"L"}
MCChars == {"0","1","2","3","4","5","6","7","8","9","A","B","C","D","E","F","a","b","c",
            "d","e","f","x","X","-","+",SPACE,"%",NUL,"L",".","i","n"}

-----------------------------------------------------------------------------
(* Specifications. *)

Plain == [field_width |-> 0, field_width_opt |-> NONE, left_justified |-> FALSE,
          leading_zero_pad |-> FALSE, prec |-> 0, prec_opt |-> NONE, prepend |-> NUL,
          alt_form |-> FALSE, case_adjust |-> 32, length_modifier |-> NONE,
          conv_spec |-> "PERCENT"]

Widths(W) == {[w |-> w, o |-> NONE] : w \in W}
Stars == {[w |-> 0, o |-> STAR]}
Precs(P) == {[p |-> p, o |-> LITERAL] : p \in P}
NoPrec == {[p |-> 0, o |-> NONE]}

Layouts(C, Wd, Pr, Pre, Alt) ==
  {[Plain EXCEPT !.conv_spec = c, !.field_width = w.w, !.field_width_opt = w.o,
                 !.prec = p.p, !.prec_opt = p.o, !.left_justified = l,
                 !.leading_zero_pad = z, !.prepend = x, !.alt_form = a]
     : c \in C, w \in Wd, p \in Pr, l \in BOOLEAN, z \in BOOLEAN, x \in Pre, a \in Alt}

AllPrecs == NoPrec \cup Precs({0, 2, 12}) \cup {[p |-> 0, o |-> STAR]}
AllWidths == Widths({0, 4, 12}) \cup Stars

LayoutSpecs ==
  Layouts({"SIGNED_INT"}, AllWidths, AllPrecs, {NUL, SPACE, "+"}, {FALSE})
  \cup Layouts({"BINARY", "OCTAL", "HEX_INT"}, AllWidths, AllPrecs, {NUL}, BOOLEAN)
  \cup Layouts({"UNSIGNED_INT", "STRING"}, AllWidths, AllPrecs, {NUL}, {FALSE})
  \cup Layouts({"POINTER", "CHAR", "PERCENT"}, AllWidths, NoPrec, {NUL}, {FALSE})
  \cup Layouts({"FLOAT_DEC", "FLOAT_HEX"}, Widths({0, 5}) \cup Stars, NoPrec, {NUL, "+"}, {FALSE})

ModSpecs ==
  {[Plain EXCEPT !.conv_spec = c, !.length_modifier = m, !.case_adjust = a, !.alt_form = a = 0]
     : c \in IntConvs, m \in LenMods \ {"L"}, a \in {0, 32}}
  \cup {[Plain EXCEPT !.conv_spec = "FLOAT_DEC", !.length_modifier = "L"]}
  \cup {[Plain EXCEPT !.conv_spec = "FLOAT_SCI", !.case_adjust = 0]}

WriteSpecs == {[Plain EXCEPT !.conv_spec = "WRITEBACK", !.length_modifier = m] : m \in LenMods}

-----------------------------------------------------------------------------
(* Arguments. *)

Boundary(s, full) ==
  LET m == TMax[CallerType(s)]
  IN CASE s.conv_spec = "SIGNED_INT" -> IF full THEN {-m - 1, -9, 0, 8, m} ELSE {-1, 0, 7}
       [] OTHER -> IF full THEN {0, 8, 11, m, 2 * m + 1} ELSE {0, 10, 2 * m + 1}

Values(s, p) ==
  CASE s.conv_spec \in FloatConvs -> {-1, 1}
    [] s.conv_spec = "STRING" -> {0} \cup {a \in DOMAIN Heap :
                                    Heap[a].term \/ p \in 0..Len(Heap[a].chars)}
    [] s.conv_spec = "POINTER" -> {0, 5, TMax["PTR"]}
    [] s.conv_spec = "WRITEBACK" -> {9}
    [] s.conv_spec = "CHAR" -> {0, 1}
    [] OTHER -> Boundary(s, s.length_modifier # NONE \/ s.case_adjust = 0)

IntArg(v) == [type |-> "INT", v |-> v]
StarWidths == {-32, -4, 0, 5, 31}
StarPrecs == {-1, 0, 2, 31}

Prepended(x, L) == {<<IntArg(x)>> \o a : a \in L}

ArgLists(s, WS, PS) ==
  LET value(p) == IF s.conv_spec = "PERCENT" THEN {<<>>}
                  ELSE {<<[type |-> CallerType(s), v |-> v]>> : v \in Values(s, p)}
      given(p) == IF s.prec_opt = NONE \/ ~UsePrecision THEN -1 ELSE p
      withPrec == IF s.prec_opt = STAR THEN UNION {Prepended(p, value(given(p))) : p \in PS}
                                       ELSE value(given(s.prec))
  IN IF s.field_width_opt = STAR THEN UNION {Prepended(w, withPrec) : w \in WS} ELSE withPrec

\* One specification at a time, all of them.
OneSpecs == LayoutSpecs \cup ModSpecs \cup WriteSpecs
OneArgs == [s \in OneSpecs |-> ArgLists(s, StarWidths, StarPrecs)]

\* Builds without precisions: '0' padding is emitted after an early prefix.
NoPrecSpecs ==
  Layouts({"SIGNED_INT", "FLOAT_HEX"}, AllWidths, NoPrec, {NUL, SPACE, "+"}, {FALSE})
  \cup Layouts({"BINARY", "OCTAL", "HEX_INT"}, AllWidths, NoPrec, {NUL}, BOOLEAN)
  \cup Layouts({"STRING", "POINTER", "UNSIGNED_INT"}, AllWidths, NoPrec, {NUL}, {FALSE})
  \cup {s \in ModSpecs : s.length_modifier \in {NONE, "h", "hh", "l"}}
NoPrecArgs == [s \in NoPrecSpecs |-> ArgLists(s, StarWidths, StarPrecs)]

\* Several specifications in a row, with %n between them.
SeqSpecs ==
  {[Plain EXCEPT !.conv_spec = "SIGNED_INT", !.field_width_opt = STAR],
   [Plain EXCEPT !.conv_spec = "STRING", !.field_width = 3, !.left_justified = TRUE,
                 !.prec_opt = STAR],
   [Plain EXCEPT !.conv_spec = "HEX_INT", !.alt_form = TRUE, !.leading_zero_pad = TRUE,
                 !.field_width = 6],
   [Plain EXCEPT !.conv_spec = "BINARY", !.prec_opt = LITERAL]}
  \cup {s \in WriteSpecs : s.length_modifier \in {NONE, "hh", "z", "L"}}
SeqArgs == [s \in SeqSpecs |-> ArgLists(s, {-5, 2}, {-1, 1})]

\* Widths at the cap.
WideSpecs == {[Plain EXCEPT !.conv_spec = "SIGNED_INT", !.field_width = 12]}
WideArgs == [s \in WideSpecs |-> {<<IntArg(1)>>}]
=============================================================================
