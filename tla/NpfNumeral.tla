----------------------------- MODULE NpfNumeral -----------------------------
(***************************************************************************)
(* The numeral of a number in a base, least significant digit first: what  *)
(* npf_utoa_rev promises its callers, by division alone.                   *)
(***************************************************************************)
EXTENDS Naturals, Sequences

CONSTANTS Values, Bases

VARIABLES base, rest, digits, done

Init == base \in Bases /\ rest \in Values /\ digits = <<>> /\ done = FALSE

\* A zero has one digit.
Step == /\ ~done
        /\ digits' = Append(digits, rest % base)
        /\ rest' = rest \div base
        /\ done' = (rest' = 0)
        /\ UNCHANGED base

Spec == Init /\ [][Step]_<<base, rest, digits, done>>
=============================================================================
