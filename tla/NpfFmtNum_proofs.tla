-------------------------- MODULE NpfFmtNum_proofs --------------------------
(***************************************************************************)
(* Proofs about the decimal run of a width or a precision, for runs of any *)
(* length and any width of int.                                            *)
(***************************************************************************)
EXTENDS NpfFmtNum, TLAPS

TypeOK == /\ n \in Nat /\ number \in Nat /\ count \in Nat /\ field \in Nat
          /\ pc \in {"digits", "done"}

InBounds == TypeOK /\ NeverWraps

\* The accumulator of a run of any length stays inside int (nanoprintf.h 585-594):
\* the stop is low enough for one more digit.
THEOREM NoWrap == Spec => []NeverWraps
<1>1. Init => InBounds
  BY FmtNumAssumption DEF Init, InBounds, TypeOK, NeverWraps
<1>2. InBounds /\ [Next]_vars => InBounds'
  <2> SUFFICES ASSUME InBounds, [Next]_vars PROVE InBounds'
    OBVIOUS
  <2> USE FmtNumAssumption DEF InBounds, TypeOK, NeverWraps
  <2>1. ASSUME NEW d \in Digits, Digit(d) PROVE InBounds'
    <3>1. d \in 0..9 /\ n \in Nat /\ number \in Nat
      OBVIOUS
    <3>2. n' \in 0..IntMax
      BY <2>1, <3>1, StopAssumption DEF Digit, Accumulate
    <3>3. number' \in Nat
      BY <2>1, <3>1 DEF Digit, Saturate
    <3> QED
      BY <2>1, <3>2, <3>3 DEF Digit
  <2>2. CASE Finish
    BY <2>2 DEF Finish, Capped
  <2>3. CASE UNCHANGED vars
    BY <2>3 DEF vars
  <2> QED
    BY <2>1, <2>2, <2>3 DEF Next, Done
<1>3. InBounds => NeverWraps
  BY DEF InBounds
<1> QED
  BY <1>1, <1>2, <1>3, PTL DEF Spec

Inv == /\ InBounds
       /\ Agree
       /\ pc = "done" => field = Capped(n)

\* Where the stop lies above the ceiling, as it does for an int of 32 bits or more,
\* no run of digits can tell the accumulator from an exact one once it is capped.
\* The assumption is what a 16-bit int lacks: there the stop is 2048 and the
\* ceiling 8192.
THEOREM Pinned ==
  ASSUME FmtNumBig > FmtNumMax
  PROVE  Spec => []PinnedOrExact
<1>1. Init => Inv
  BY FmtNumAssumption
     DEF Init, Inv, InBounds, TypeOK, NeverWraps, Agree, Saturate, Capped
<1>2. Inv /\ [Next]_vars => Inv'
  <2> SUFFICES ASSUME Inv, [Next]_vars PROVE Inv'
    OBVIOUS
  <2> USE FmtNumAssumption DEF Inv, InBounds, TypeOK, NeverWraps
  <2>1. ASSUME NEW d \in Digits, Digit(d) PROVE Inv'
    <3>1. d \in 0..9 /\ n \in Nat /\ number \in Nat
      OBVIOUS
    <3>2. n' \in 0..IntMax
      BY <2>1, <3>1, StopAssumption DEF Digit, Accumulate
    <3>3. number' \in Nat
      BY <2>1, <3>1 DEF Digit, Saturate
    <3>4. Agree'
      BY <2>1, <3>1 DEF Digit, Accumulate, Saturate, Agree
    <3> QED
      BY <2>1, <3>2, <3>3, <3>4 DEF Digit
  <2>2. CASE Finish
    BY <2>2 DEF Finish, Capped, Agree, Saturate
  <2>3. CASE UNCHANGED vars
    BY <2>3 DEF vars, Agree, Saturate, Capped
  <2> QED
    BY <2>1, <2>2, <2>3 DEF Next, Done
<1>3. Inv => PinnedOrExact
  BY DEF Inv, InBounds, TypeOK, Agree, PinnedOrExact, Saturate, Capped
<1> QED
  BY <1>1, <1>2, <1>3, PTL DEF Spec
=============================================================================
