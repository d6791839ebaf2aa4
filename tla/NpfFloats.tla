------------------------------ MODULE NpfFloats ------------------------------
(***************************************************************************)
(* The float converters under one call.  A build has either npf_ftoa_rev   *)
(* or npf_etoa_rev; like tests/unit_f_paths.cc, a %f here goes through     *)
(* both, one after the other, on the same number.                          *)
(***************************************************************************)
EXTENDS NpfFtoa, NpfEtoa, NpfAtoa, FiniteSets

VARIABLE fused    \* what the fused %f made of the number

vars == <<fusedVars, mode, nsig, tail, run, fused>>

\* 1795-1805: %a has its own converter, and %f, %e and %g share the one of the build.
Init ==
  /\ cfg \in Builds /\ fs \in Formats
  /\ fs.conv = "a" => cfg.man % 4 = 0
  /\ real \in [exp: 0..(2 * cfg.maxexp - 1), frac: Fractions[cfg.man]]
  /\ pc = CASE fs.conv = "a" -> "Hex" [] fs.conv = "f" -> "FusedStart" [] OTHER -> "Start"
  /\ exp = 0 /\ man = 0 /\ carry = 0 /\ left = 0 /\ digit = FALSE
  /\ dec = 0 /\ end = 0 /\ buf = Blank /\ dec_f = 0
  /\ mode = Mode0 /\ nsig = 0 /\ tail = FALSE
  /\ res = Nothing /\ run = Digits0 /\ fused = Nothing

\* The other build, on a buffer of its own.
Unified ==
  /\ pc = "FusedDone" /\ pc' = "Start"
  /\ fused' = res /\ res' = Nothing /\ buf' = Blank
  /\ UNCHANGED <<inputs, scale, dec, end, dec_f, mode, nsig, tail, run>>

Done == pc = "Done" /\ UNCHANGED vars

Next ==
  \/ FusedNext /\ UNCHANGED <<mode, nsig, tail, run, fused>>
  \/ Unified
  \/ SciNext /\ UNCHANGED <<dec_f, fused>>
  \/ Hex /\ UNCHANGED <<dec_f, mode, nsig, tail, run, fused>>
  \/ Done

Spec == Init /\ [][Next]_vars
=============================================================================
