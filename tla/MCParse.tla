------------------------------ MODULE MCParse ------------------------------
(***************************************************************************)
(* Small instances of the walk over a format: a handful of configurations, *)
(* and two data models for the fixed-width modifiers.                      *)
(***************************************************************************)
EXTENDS NpfGrammar

Full == [o \in Options |-> TRUE]
Only(S) == [o \in Options |-> o \in S]
MCBuilds == {Full,
             Only({}),
             Only({"prec", "alt", "small", "fixed", "float"}),
             Only({"width", "large", "binary"})}

\* Scaled: char, short, int, long and long long of 8, 16, 16, 32 and 64 bits.
MCMax == [t \in IntTypes |->
            CASE t = "CHAR" -> 7 [] t \in {"SHORT", "INT", "SIZE", "PTRDIFF"} -> 15
              [] t = "LONG" -> 31 [] OTHER -> 63]
MCLeast == [n \in {8, 16, 32, 64} |-> n - 1]
MCFast == [n \in {8, 16, 32, 64} |-> IF n = 8 THEN 15 ELSE IF n = 16 THEN 31 ELSE n - 1]

\* At each place, the characters that take its branches.  One that is read again after
\* a failure is whatever was read first.
MCFresh == [p \in Places |->
  CASE p = "fetch" -> {"%", "d"}
    [] p = "flags" -> {"%", "-", "0", "+", SPACE, "#", "3", "*", ".", "l", "w", "d"}
    [] p = "widthnum" -> {"0", ".", "l", "d"}
    [] p = "dot" -> {".", "h", "d"}
    [] p = "prec" -> {"*", "-", "3", "d"}
    [] p = "precnum" -> {"3", "l", "d", "-"}
    [] p = "lenmod" -> {"h", "l", "w", "L", "z", "d"}
    [] p = "twice" -> {"h", "l", "d"}
    [] p = "fast" -> {"f", "8", "1", "6"}
    [] p = "bits" -> {"8", "3", "1", "6", "%"}
    [] p = "confirm" -> {"6", "2", "4", "%"}
    [] p = "conv" -> {"d", "X", "b", "n", "e", "%"}
    [] OTHER -> {}]
MCChars == UNION {MCFresh[p] : p \in Places}
MCGarbage == {-5}
=============================================================================
