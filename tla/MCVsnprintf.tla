---------------------------- MODULE MCVsnprintf ----------------------------
(***************************************************************************)
(* Small instances of npf_vsnprintf in a build without precisions: no      *)
(* buffer, buffers of size zero, one, and around the lengths the formats    *)
(* reach, in both termination modes.  Field widths reach the cap, and      *)
(* enough fields wrap the count.                                           *)
(***************************************************************************)
EXTENDS NpfVsnprintf, MCVpprintf

MCCells == 36
Sizes == {0, 1, 2, 7, 9, 30, 33, 35}
MCCalls == {[buf |-> TRUE, size |-> s, safe |-> e] : s \in Sizes, e \in BOOLEAN}
           \cup {[buf |-> FALSE, size |-> s, safe |-> FALSE] : s \in {0, 2}}

\* "%11d" (capped to 8 characters), "%c", "%2s".
BufSpecs == {[Plain EXCEPT !.conv_spec = "SIGNED_INT", !.field_width = 11],
             [Plain EXCEPT !.conv_spec = "CHAR"],
             [Plain EXCEPT !.conv_spec = "STRING", !.field_width = 2]}
BufArgs == [s \in BufSpecs |->
              CASE s.conv_spec = "SIGNED_INT" -> {<<IntArg(1)>>}
                [] s.conv_spec = "CHAR" -> {<<IntArg(0)>>}
                [] OTHER -> {<<[type |-> "PTR", v |-> 5]>>}]

CallSpecs == BufSpecs \cup NoPrecSpecs
CallArgs == BufArgs @@ NoPrecArgs

\* Bound: formats of several items are made of BufSpecs; the other specifications
\* stand alone, in a call that only counts.
StandsAlone == job.spec \in NoPrecSpecs
Bounded ==
  /\ items' > items => ~StandsAlone
  /\ StandsAlone' => items' = 1 /\ call = [buf |-> FALSE, size |-> 0, safe |-> FALSE]

BoundedSpec == SInit /\ [][SNext /\ Bounded]_svars
=============================================================================
