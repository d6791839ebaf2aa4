---------------------------- MODULE NpfContract ----------------------------
(***************************************************************************)
(* What npf_vsnprintf promises its caller (README "Return Values" and      *)
(* "Sprintf Safety"), with nothing of how it works: the text grows one     *)
(* character at a time, and then one answer gives the count and what the   *)
(* caller's memory holds.                                                  *)
(***************************************************************************)
EXTENDS Naturals, Sequences

CONSTANTS
  IntMax,   \* INT_MAX
  Cells,    \* cells of memory from the start of the buffer on
  Blank     \* the memory before the call

VARIABLES
  call,     \* the buffer: [buf, size, safe]
  text,     \* the characters produced so far
  result    \* the answer: [done, n, mem]

NUL == "NUL"
Unanswered == [done |-> FALSE, n |-> 0, mem |-> Blank]

Init == text = <<>> /\ result = Unanswered

Produce == /\ result = Unanswered
           /\ Len(text') = Len(text) + 1
           /\ SubSeq(text', 1, Len(text)) = text
           /\ UNCHANGED <<call, result>>

Writable == IF call.buf THEN call.size ELSE 0
Fits == Len(text) < Writable

\* The whole string and a NUL; or, when it does not fit, what does and a NUL in
\* the last cell; or, in a safe-empty build, a NUL in the first.
Holds(mem) ==
  CASE Fits -> /\ \A k \in 0..(Len(text) - 1) : mem[k] = text[k + 1]
               /\ mem[Len(text)] = NUL
               /\ \A k \in (Len(text) + 1)..(Cells - 1) : mem[k] = Blank[k]
    [] ~Fits /\ Writable > 0 /\ ~call.safe ->
               /\ \A k \in 0..(Writable - 2) : mem[k] = text[k + 1]
               /\ mem[Writable - 1] = NUL
    [] ~Fits /\ Writable > 0 /\ call.safe -> mem[0] = NUL
    [] OTHER -> TRUE

\* Whatever the length, nothing outside the buffer changes and a NUL is in it.
Contained(mem) ==
  /\ \A k \in Writable..(Cells - 1) : mem[k] = Blank[k]
  /\ Writable > 0 => \E k \in 0..(Writable - 1) : mem[k] = NUL

\* A length int cannot hold leaves the count, and with it the place of the NUL,
\* unspecified.
Answer == /\ result = Unanswered
          /\ result'.done
          /\ Contained(result'.mem)
          /\ Len(text) <= IntMax => result'.n = Len(text) /\ Holds(result'.mem)
          /\ UNCHANGED <<call, text>>

Next == Produce \/ Answer

Spec == Init /\ [][Next]_<<call, text, result>>
=============================================================================
