----------------------------- MODULE NpfFmtNum -----------------------------
(***************************************************************************)
(* npf_fmt_num: the decimal run of a width or a precision, one digit per   *)
(* step, and the ceiling npf_vpprintf puts on the result.  The accumulator *)
(* stops growing once another digit could carry it out of int, and the     *)
(* digits after that are skipped.                                          *)
(***************************************************************************)
EXTENDS Naturals

CONSTANTS
  IntMax,     \* INT_MAX
  FmtNumMax,  \* NPF_FMT_NUM_MAX
  FmtNumBig,  \* the least n for which NPF_FMT_NUM_BIG(n) is true
  Digits,     \* the digits a run may hold
  MaxDigits   \* bound: length of a run

ASSUME FmtNumAssumption ==
  /\ IntMax \in Nat /\ FmtNumMax \in Nat /\ FmtNumBig \in Nat \ {0}
  /\ Digits \subseteq 0..9
  /\ FmtNumMax <= IntMax

\* nanoprintf.h 273-274: below the stop, 10n+9 cannot reach past INT_MAX.
ASSUME StopAssumption == 10 * (FmtNumBig - 1) + 9 <= IntMax

VARIABLES
  n,        \* the accumulator
  number,   \* history: the number written so far, FmtNumMax + 1 for any larger one
  count,    \* digits consumed
  field,    \* what *out and the cap leave in the specification
  pc

vars == <<n, number, count, field, pc>>

Saturate(x) == IF x > FmtNumMax THEN FmtNumMax + 1 ELSE x
Capped(x) == IF x > FmtNumMax THEN FmtNumMax ELSE x

\* Mutants of Accumulate: the stop tests one bit less; a digit past the stop
\* starts the number again.
AccumulateLate(m, d) == IF m < 2 * FmtNumBig THEN m * 10 + d ELSE m
AccumulateRestart(m, d) == IF m < FmtNumBig THEN m * 10 + d ELSE d

\* The accumulator, a digit later.
Accumulate(m, d) == IF m < FmtNumBig THEN m * 10 + d ELSE m

Init == n = 0 /\ number = 0 /\ count = 0 /\ field = 0 /\ pc = "digits"

Digit(d) == /\ pc = "digits" /\ count < MaxDigits
            /\ n' = Accumulate(n, d)
            /\ number' = Saturate(number * 10 + d)
            /\ count' = count + 1
            /\ UNCHANGED <<field, pc>>

\* The first character that is no digit ends the run; the cap comes later, at
\* nanoprintf.h 1714 or 1721.
Finish == /\ pc = "digits"
          /\ field' = Capped(n)
          /\ pc' = "done"
          /\ UNCHANGED <<n, number, count>>

Done == pc = "done" /\ UNCHANGED vars

Next == (\E d \in Digits : Digit(d)) \/ Finish \/ Done

Spec == Init /\ [][Next]_vars

-----------------------------------------------------------------------------
(* Properties. *)

\* A width or precision that fits is honored exactly and one that does not is
\* pinned to the ceiling (avr_int16.c 4-8, README 201), although the accumulator
\* stops before it has read all the digits (585-588).
PinnedOrExact == pc = "done" => field = Capped(number)

\* However long the run, the accumulator stays an int and never turns negative.
NeverWraps == n \in 0..IntMax

\* The accumulator and the number are the same as far as the ceiling can tell:
\* what PinnedOrExact needs at every digit.
Agree == number = Saturate(n)
=============================================================================
