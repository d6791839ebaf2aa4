---------------------------- MODULE NpfVsnprintf ----------------------------
(***************************************************************************)
(* npf_vsnprintf: the engine with npf_bufputc for its callback, then the   *)
(* NUL.  The callback is the only code that writes the caller's buffer     *)
(* while the engine runs; it shares nothing with the engine but the        *)
(* characters it is handed, so a step of the engine that puts a character  *)
(* is a step of both.                                                      *)
(***************************************************************************)
EXTENDS NpfVpprintf

CONSTANTS
  Cells,      \* bound: cells of memory from the start of the buffer on
  Calls       \* the calls: buffer or NULL, bufsz, and the safe-empty build option

Call == [buf: BOOLEAN, size: Nat, safe: BOOLEAN]

\* At least one cell past the buffer, to see it untouched; size_t holds any int.
ASSUME CallAssumption ==
  /\ Cells \in Nat
  /\ Calls \subseteq Call
  /\ \A c \in Calls : c.buf => c.size < Cells

VARIABLES
  call,       \* what the caller passed
  dst, len,   \* npf_bufputc_ctx_t: the cursor, as an index, and the room left
  mem,        \* the caller's memory from buffer[0] on
  returned

sink  == <<dst, len, mem>>
svars == <<vars, call, sink, returned>>

Blank == [k \in 0..(Cells - 1) |-> "blank"]

SInit == /\ Init
         /\ call \in Calls
         /\ dst = 0 /\ len = call.size
         /\ mem = Blank
         /\ returned = FALSE

\* Mutants of BufPutc: the room is not reduced; one character too many is let in.
BufPutcNoCount(c) ==
  IF call.buf /\ len > 0
  THEN mem' = [mem EXCEPT ![dst] = c] /\ dst' = dst + 1 /\ UNCHANGED len
  ELSE UNCHANGED sink
BufPutcLate(c) ==
  IF call.buf /\ len >= 0
  THEN len' = len - 1 /\ mem' = [mem EXCEPT ![dst] = c] /\ dst' = dst + 1
  ELSE UNCHANGED sink

\* npf_bufputc.  A NULL buffer only counts.
BufPutc(c) ==
  IF call.buf /\ len > 0
  THEN /\ len' = len - 1
       /\ mem' = [mem EXCEPT ![dst] = c]
       /\ dst' = dst + 1
  ELSE UNCHANGED sink

Format ==
  /\ pc # "done"
  /\ Next
  /\ IF out' = out THEN UNCHANGED sink ELSE BufPutc(out'[Len(out')])
  /\ UNCHANGED <<call, returned>>

\* (unsigned)n
Unsigned(n) == IF n < 0 THEN n + 2 * (IntMax + 1) ELSE n

\* Mutants of NulIndex: the count is compared as a signed value; a string of
\* exactly bufsz characters is taken to fit.
NulIndexSigned ==
  IF call.safe THEN (IF npf_n >= call.size THEN 0 ELSE npf_n)
               ELSE MinOf(npf_n, call.size - 1)
NulIndexLate ==
  LET n == Unsigned(npf_n)
  IN IF call.safe THEN (IF n > call.size THEN 0 ELSE n)
                  ELSE MinOf(n, call.size)

\* Where the terminator goes: all comparisons are of unsigned values.
NulIndex ==
  LET n == Unsigned(npf_n)
  IN IF call.safe THEN (IF n >= call.size THEN 0 ELSE n)
                  ELSE MinOf(n, call.size - 1)

Terminate ==
  /\ pc = "done" /\ ~returned
  /\ mem' = IF call.buf /\ call.size > 0 THEN [mem EXCEPT ![NulIndex] = NUL] ELSE mem
  /\ returned' = TRUE
  /\ UNCHANGED <<vars, call, dst, len>>

SDone == returned /\ UNCHANGED svars

SNext == Format \/ Terminate \/ SDone

SSpec == SInit /\ [][SNext]_svars

-----------------------------------------------------------------------------
(* Properties. *)

\* The sink and the engine never compare notes, yet the buffer always holds the
\* longest prefix of the output that fits: cursor, room and contents all follow
\* from the characters put so far (1640-1644, 2084).
BufferIsPrefix ==
  LET room == IF call.buf THEN call.size ELSE 0
      kept == MinOf(Len(out), room)
  IN /\ dst = kept
     /\ call.buf => len = call.size - kept
     /\ ~returned => \A k \in 0..(kept - 1) : mem[k] = out[k + 1]
     /\ ~returned => \A k \in kept..(Cells - 1) : mem[k] = "blank"

\* No write reaches past the buffer, and none at all is made through NULL or into
\* a buffer of size zero, at any moment of the call (unit_buffer_overrun.cc).
OutsideUntouched ==
  \A k \in 0..(Cells - 1) :
    ~call.buf \/ k >= call.size => mem[k] = "blank"

\* The terminator lands inside the buffer for every value the count can take, the
\* wrapped ones included: a call always leaves a string (2087-2093).
AlwaysTerminated ==
  returned /\ call.buf /\ call.size > 0 =>
    \E k \in 0..(call.size - 1) : mem[k] = NUL

\* The call keeps the promise of NpfContract: Contract is what the caller sees.
Contract == INSTANCE NpfContract
              WITH text <- out,
                   result <- [done |-> returned,
                              n |-> IF returned THEN npf_n ELSE 0,
                              mem |-> IF returned THEN mem ELSE Blank]
KeepsContract == Contract!Spec
=============================================================================
