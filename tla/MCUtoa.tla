------------------------------- MODULE MCUtoa -------------------------------
(***************************************************************************)
(* Words of 8 bits under numbers of 13, which leave over as many bits of   *)
(* octal digits as 32 and 64 do.                                           *)
(***************************************************************************)
EXTENDS NpfUtoa

\* With the loop and without it, by division and without; the last is a platform
\* whose npf_uint_t is one word, the last but one divides numbers of 13 bits at once.
MCBuilds == {[wide |-> TRUE,  divfree |-> TRUE,  bits |-> 13],
             [wide |-> TRUE,  divfree |-> FALSE, bits |-> 13],
             [wide |-> FALSE, divfree |-> FALSE, bits |-> 13],
             [wide |-> FALSE, divfree |-> TRUE,  bits |-> 8]}
MCBases == {8, 10, 16}
MCValues == 0..8191
MCPow == [k \in 0..13 |-> 2^k]
=============================================================================
