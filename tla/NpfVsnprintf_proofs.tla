------------------------- MODULE NpfVsnprintf_proofs -------------------------
(***************************************************************************)
(* The sink and its terminator, for every buffer, every text the engine    *)
(* produces and every build: and npf_vsnprintf implements its contract.    *)
(***************************************************************************)
EXTENDS NpfVsnprintf, NpfVpprintf_proofs

Room == IF call.buf THEN call.size ELSE 0
Kept == MinOf(Len(out), Room)

\* What the sink has made of the characters so far, and what the terminator needs
\* to know of the count: that it wraps at most once below zero.
SinkInv ==
  /\ call \in Call /\ (call.buf => call.size < Cells)
  /\ returned \in BOOLEAN /\ (returned => pc = "done")
  /\ npf_n >= -(IntMax + 1)
  /\ DOMAIN mem = 0..(Cells - 1)
  /\ dst = Kept /\ (call.buf => len = call.size - Kept)
  /\ ~returned => /\ \A k \in 0..(Kept - 1) : mem[k] = out[k + 1]
                  /\ \A k \in Kept..(Cells - 1) : mem[k] = "blank"
  /\ OutsideUntouched
  /\ AlwaysTerminated

SInv == IInv /\ SinkInv

-----------------------------------------------------------------------------
(* What a step of the engine does to the text and to the count.              *)

CountStepped == npf_n' = npf_n \/ npf_n' = IntAdd(npf_n, 1)
                  \/ (npf_n' = IntAdd(npf_n, spec_len) /\ spec_len >= 0)

\* No step hands the callback more than one character (1646-1647).
LEMMA OneCharacter ==
  ASSUME IInv, Next
  PROVE  out' = out \/ \E c : out' = Append(out, c)
<1> USE DEF Put
<1>1. CASE \E c \in Literals : Literal(c)
  BY <1>1, Zenon DEF Literal
<1>2. CASE \E s \in Specs : \E a \in ArgsOf[s] : Specification(s, a)
  BY <1>2, Zenon DEF Specification
<1>3. CASE Return \/ ResolveWidth \/ ResolvePrec \/ Resolve \/ Layout \/ Tally
  BY <1>3 DEF Return, ResolveWidth, ResolvePrec, Resolve, Layout, Tally
<1>4. CASE Convert
  BY <1>4 DEF Convert, ConvertSigned, ConvertUnsigned, ConvertString, Scan, ConvertChar,
     ConvertWriteback, ConvertFloat, Integer, UtoaDigit, BinLen, AltForm
<1>5. CASE Emit
  <2>1. ASSUME NEW at, NEW next, PutSign(at, next) PROVE out' = out \/ \E c : out' = Append(out, c)
    BY <2>1, Zenon DEF PutSign
  <2>2. ASSUME NEW at, NEW next, NEW skip, Put0(at, next, skip)
        PROVE  out' = out \/ \E c : out' = Append(out, c)
    BY <2>2, Zenon DEF Put0
  <2>3. ASSUME NEW at, NEW next, PutX(at, next) PROVE out' = out \/ \E c : out' = Append(out, c)
    BY <2>3, Zenon DEF PutX
  <2>4. ASSUME NEW at, NEW next, PadField(at, next) PROVE out' = out \/ \E c : out' = Append(out, c)
    BY <2>4, Zenon DEF PadField
  <2>5. CASE PadPrec \/ PayloadString \/ PayloadBinary \/ PayloadReversed
    BY <2>5, Zenon DEF PadPrec, PayloadString, PayloadBinary, PayloadReversed
  <2> QED BY <1>5, <2>1, <2>2, <2>3, <2>4, <2>5, Zenon DEF Emit
<1>6. CASE Done
  BY <1>6 DEF Done, vars
<1> QED BY <1>1, <1>2, <1>3, <1>4, <1>5, <1>6, Zenon DEF Next, Fetch

\* The count grows by one or by a length (2003-2060).
LEMMA CountGrows ==
  ASSUME IInv, Next
  PROVE  CountStepped
<1>1. CASE \E c \in Literals : Literal(c)
  BY <1>1, Zenon DEF Literal, CountStepped
<1>2. CASE \E s \in Specs : \E a \in ArgsOf[s] : Specification(s, a)
  BY <1>2, Zenon DEF Specification, CountStepped
<1>3. CASE Return \/ ResolveWidth \/ ResolvePrec \/ Resolve \/ Layout
  BY <1>3 DEF Return, ResolveWidth, ResolvePrec, Resolve, Layout, CountStepped
<1>4. CASE Tally
  BY <1>4 DEF Tally, CountStepped, IInv, CountInv, Measured
<1>5. CASE Convert
  BY <1>5 DEF Convert, ConvertSigned, ConvertUnsigned, ConvertString, Scan, ConvertChar,
     ConvertWriteback, ConvertFloat, Integer, UtoaDigit, BinLen, AltForm, CountStepped
<1>6. CASE Emit
  <2>1. UNCHANGED npf_n
    BY <1>6 DEF Emit, PutSign, Put0, PutX, PadField, PadPrec, PayloadString, PayloadBinary,
       PayloadReversed
  <2> QED BY <2>1 DEF CountStepped
<1>7. CASE Done
  BY <1>7 DEF Done, vars, CountStepped
<1> QED BY <1>1, <1>2, <1>3, <1>4, <1>5, <1>6, <1>7, Zenon DEF Next, Fetch

\* A sum that wraps, wraps once: to no less than INT_MIN.
LEMMA CountLow ==
  ASSUME IInv, npf_n >= -(IntMax + 1), Next
  PROVE  npf_n' >= -(IntMax + 1)
<1>1. npf_n \in Int /\ spec_len \in Int /\ IntMax \in Nat
  BY IntMaxNat DEF IInv, TypeOK
<1>2. \A d \in Nat : IntAdd(npf_n, d) >= -(IntMax + 1)
  BY <1>1 DEF IntAdd
<1> QED BY <1>1, <1>2, CountGrows DEF CountStepped

-----------------------------------------------------------------------------
(* npf_bufputc.                                                              *)

LEMMA KeptBounds ==
  ASSUME IInv, call \in Call
  PROVE  /\ Room \in Nat /\ Kept \in Nat /\ Kept <= Room /\ Len(out) \in Nat
         /\ Kept = Room \/ (Kept = Len(out) /\ Len(out) < Room)
         /\ Kept <= Len(out)
<1>1. Len(out) \in Nat
  BY DEF IInv, TypeOK
<1>2. Room \in Nat
  BY DEF Call, Room
<1> QED BY <1>1, <1>2 DEF Kept, MinOf

\* A character is kept where there is room for it, and is only counted otherwise.
LEMMA PutcKeeps ==
  ASSUME IInv, SinkInv, ~returned, pc # "done", NEW c, out' = Append(out, c), BufPutc(c),
         UNCHANGED <<call, returned>>
  PROVE  /\ DOMAIN mem' = 0..(Cells - 1)
         /\ dst' = Kept' /\ (call.buf => len' = call.size - Kept')
         /\ \A k \in 0..(Kept' - 1) : mem'[k] = out'[k + 1]
         /\ \A k \in Kept'..(Cells - 1) : mem'[k] = "blank"
         /\ OutsideUntouched'
<1> DEFINE n == Len(out)
<1>1. /\ Room \in Nat /\ Kept \in Nat /\ Kept <= Room /\ n \in Nat /\ Kept <= n
      /\ Kept = Room \/ (Kept = n /\ n < Room)
      /\ Cells \in Nat /\ call.size \in Nat /\ (call.buf => Room = call.size /\ Room < Cells)
      /\ (~call.buf => Room = 0)
  BY KeptBounds, CallAssumption DEF SinkInv, Call, Room
<1>2. /\ \A k \in 0..(Kept - 1) : mem[k] = out[k + 1]
      /\ \A k \in Kept..(Cells - 1) : mem[k] = "blank"
      /\ DOMAIN mem = 0..(Cells - 1) /\ dst = Kept /\ (call.buf => len = call.size - Kept)
      /\ \A k \in 0..(Cells - 1) : ~call.buf \/ k >= call.size => mem[k] = "blank"
  BY DEF SinkInv, OutsideUntouched
<1>3. out \in Seq(Chars)
  BY DEF IInv, TypeOK
<1>4. /\ Len(out') = n + 1 /\ out'[n + 1] = c
      /\ \A k \in 1..n : out'[k] = out[k]
  BY <1>3
<1>5. Room' = Room /\ call' = call
  BY DEF Room
<1>6. CASE call.buf /\ len > 0
  <2>1. Kept = n /\ n < Room
    BY <1>1, <1>2, <1>6
  <2>2. Kept' = n + 1
    BY <1>1, <1>4, <1>5, <2>1 DEF Kept, MinOf
  <2>3. len' = len - 1 /\ mem' = [mem EXCEPT ![n] = c] /\ dst' = n + 1
    BY <1>2, <1>6, <2>1 DEF BufPutc
  <2>4. DOMAIN mem' = 0..(Cells - 1) /\ n \in DOMAIN mem /\ mem'[n] = c
        /\ \A k \in 0..(Cells - 1) : k # n => mem'[k] = mem[k]
    BY <1>1, <1>2, <1>6, <2>1, <2>3
  <2>5. \A k \in 0..(Kept' - 1) : mem'[k] = out'[k + 1]
    <3>1. TAKE k \in 0..(Kept' - 1)
    <3>2. CASE k = n
      BY <1>4, <2>4, <3>2
    <3>3. CASE k # n
      <4>1. k \in 0..(n - 1) /\ k \in 0..(Cells - 1) /\ k + 1 \in 1..n
        BY <1>1, <1>6, <2>1, <2>2, <3>1, <3>3
      <4> QED BY <1>2, <1>4, <2>1, <2>4, <3>3, <4>1
    <3> QED BY <3>2, <3>3
  <2>6. \A k \in Kept'..(Cells - 1) : mem'[k] = "blank"
    BY <1>1, <1>2, <2>1, <2>2, <2>4
  <2>7. \A k \in 0..(Cells - 1) : ~call.buf \/ k >= call.size => mem'[k] = "blank"
    BY <1>1, <1>2, <1>6, <2>1, <2>4
  <2>8. len' = call.size - Kept'
    BY <1>1, <1>2, <1>6, <2>1, <2>2, <2>3
  <2> QED BY <1>5, <2>2, <2>3, <2>4, <2>5, <2>6, <2>7, <2>8 DEF OutsideUntouched
<1>7. CASE ~(call.buf /\ len > 0)
  <2>1. UNCHANGED <<dst, len, mem>>
    BY <1>7 DEF BufPutc, sink
  <2>2. Kept = Room
    BY <1>1, <1>2, <1>7
  <2>3. Kept' = Kept
    BY <1>1, <1>4, <1>5, <2>2 DEF Kept, MinOf
  <2>4. \A k \in 0..(Kept' - 1) : mem'[k] = out'[k + 1]
    <3>1. TAKE k \in 0..(Kept' - 1)
    <3>2. k \in 0..(Kept - 1) /\ k + 1 \in 1..n
      BY <1>1, <2>3, <3>1
    <3> QED BY <1>2, <1>4, <2>1, <3>2
  <2>5. OutsideUntouched'
    BY <1>2, <1>5, <2>1 DEF OutsideUntouched
  <2> QED BY <1>2, <2>1, <2>3, <2>4, <2>5
<1> QED BY <1>6, <1>7

-----------------------------------------------------------------------------
(* The steps.                                                                *)

LEMMA SinkInit == SInit => SInv
<1> SUFFICES ASSUME SInit PROVE SInv
  OBVIOUS
<1>1. IInv
  BY IInvInit DEF SInit
<1>2. out = <<>> /\ Len(out) = 0 /\ npf_n = 0 /\ returned = FALSE /\ dst = 0 /\ len = call.size
  BY DEF SInit, Init
<1>3. call \in Call /\ (call.buf => call.size < Cells) /\ Cells \in Nat
  BY CallAssumption DEF SInit
<1>4. mem = Blank /\ DOMAIN mem = 0..(Cells - 1) /\ \A k \in 0..(Cells - 1) : mem[k] = "blank"
  BY DEF SInit, Blank
<1>5. Kept = 0
  BY <1>2, <1>3 DEF Kept, Room, MinOf, Call
<1>6. /\ dst = Kept /\ (call.buf => len = call.size - Kept)
      /\ \A k \in 0..(Kept - 1) : mem[k] = out[k + 1]
      /\ \A k \in Kept..(Cells - 1) : mem[k] = "blank"
  BY <1>2, <1>3, <1>4, <1>5 DEF Call
<1>7. npf_n >= -(IntMax + 1)
  BY <1>2, IntMaxNat
<1> QED BY <1>1, <1>2, <1>3, <1>4, <1>6, <1>7, Zenon DEF SInv, SinkInv, OutsideUntouched, AlwaysTerminated

\* The invariant of the engine is one of the whole call.
LEMMA EngineKeeps ==
  ASSUME IInv, Next
  PROVE  IInv'
  BY TypeStep, ArgsStep, ShapeStep, CountStep DEF IInv

LEMMA FormatKeeps ==
  ASSUME SInv, Format
  PROVE  SInv'
<1>1. IInv /\ SinkInv /\ Next /\ pc # "done" /\ UNCHANGED <<call, returned>>
  BY DEF SInv, Format
<1>2. IInv' /\ npf_n' >= -(IntMax + 1)
  BY <1>1, EngineKeeps, CountLow DEF SinkInv
<1>3. ~returned /\ ~returned' /\ returned' \in BOOLEAN
  BY <1>1, Zenon DEF SinkInv
<1>4. call' \in Call /\ (call'.buf => call'.size < Cells)
  BY <1>1 DEF SinkInv
<1>5. CASE out' = out
  <2>1. UNCHANGED <<dst, len, mem, out, call>>
    BY <1>1, <1>5 DEF Format, sink
  <2>2. Kept' = Kept
    BY <2>1 DEF Kept, Room
  <2>3. /\ DOMAIN mem' = 0..(Cells - 1) /\ dst' = Kept' /\ (call'.buf => len' = call'.size - Kept')
        /\ \A k \in 0..(Kept' - 1) : mem'[k] = out'[k + 1]
        /\ \A k \in Kept'..(Cells - 1) : mem'[k] = "blank"
    BY <1>1, <1>3, <2>1, <2>2, Zenon DEF SinkInv
  <2>4. OutsideUntouched'
    BY <1>1, <2>1, Zenon DEF SinkInv, OutsideUntouched
  <2> QED BY <1>2, <1>3, <1>4, <2>3, <2>4, Zenon DEF SInv, SinkInv, AlwaysTerminated
<1>6. CASE out' # out
  <2>1. PICK c : out' = Append(out, c)
    BY <1>1, <1>6, OneCharacter
  <2>2. out'[Len(out')] = c
    BY <1>1, <2>1 DEF IInv, TypeOK
  <2>3. BufPutc(c)
    BY <1>6, <2>2 DEF Format
  <2>4. /\ DOMAIN mem' = 0..(Cells - 1)
        /\ dst' = Kept' /\ (call.buf => len' = call.size - Kept')
        /\ \A k \in 0..(Kept' - 1) : mem'[k] = out'[k + 1]
        /\ \A k \in Kept'..(Cells - 1) : mem'[k] = "blank"
        /\ OutsideUntouched'
    BY <1>1, <1>3, <2>1, <2>3, PutcKeeps
  <2> QED BY <1>1, <1>2, <1>3, <1>4, <2>4, Zenon DEF SInv, SinkInv, AlwaysTerminated
<1> QED BY <1>5, <1>6

\* 2084-2093: the index of the NUL, for every value the count can take.
LEMMA NulInside ==
  ASSUME SinkInv, IInv, call.buf, call.size > 0
  PROVE  NulIndex \in 0..(call.size - 1)
<1>1. npf_n \in Int /\ npf_n >= -(IntMax + 1) /\ IntMax \in Nat /\ call.size \in Nat
  BY IntMaxNat DEF IInv, TypeOK, SinkInv, Call
<1>2. Unsigned(npf_n) \in Nat
  BY <1>1 DEF Unsigned
<1> QED BY <1>1, <1>2 DEF NulIndex, MinOf

\* The NUL is the only character stored, and it is stored inside the buffer.
LEMMA Terminated ==
  ASSUME SInv, Terminate
  PROVE  /\ DOMAIN mem' = 0..(Cells - 1)
         /\ call.buf /\ call.size > 0 =>
              /\ NulIndex \in 0..(call.size - 1) /\ mem'[NulIndex] = NUL
              /\ \A k \in 0..(Cells - 1) : k # NulIndex => mem'[k] = mem[k]
         /\ ~(call.buf /\ call.size > 0) => mem' = mem
<1>1. /\ SinkInv /\ IInv /\ DOMAIN mem = 0..(Cells - 1) /\ Cells \in Nat
      /\ call.size \in Nat /\ (call.buf => call.size < Cells)
  BY CallAssumption DEF SInv, SinkInv, Call
<1>2. CASE call.buf /\ call.size > 0
  <2>1. mem' = [mem EXCEPT ![NulIndex] = NUL]
    BY <1>2 DEF Terminate
  <2>2. NulIndex \in 0..(call.size - 1)
    BY <1>1, <1>2, NulInside
  <2>3. NulIndex \in DOMAIN mem
    BY <1>1, <1>2, <2>2
  <2> QED BY <1>1, <1>2, <2>1, <2>2, <2>3
<1>3. CASE ~(call.buf /\ call.size > 0)
  BY <1>1, <1>3 DEF Terminate
<1> QED BY <1>2, <1>3

LEMMA TerminateKeeps ==
  ASSUME SInv, Terminate
  PROVE  SInv'
<1>1. /\ IInv /\ SinkInv /\ UNCHANGED <<vars, call, dst, len>> /\ returned' = TRUE
      /\ pc = "done"
  BY DEF SInv, Terminate
<1>2. IInv'
  <2>1. [Next]_vars
    BY <1>1
  <2> QED BY <1>1, <2>1, TypeStep, ArgsStep, ShapeStep, CountStep DEF IInv
<1>3. UNCHANGED <<out, npf_n, pc, call>> /\ Kept' = Kept
  BY <1>1 DEF vars, Kept, Room
<1>4. OutsideUntouched'
  <2>1. \A k \in 0..(Cells - 1) : ~call.buf \/ k >= call.size => mem'[k] = "blank"
    <3>1. TAKE k \in 0..(Cells - 1)
    <3>2. HAVE ~call.buf \/ k >= call.size
    <3>3. mem[k] = "blank"
      BY <1>1, <3>2 DEF SinkInv, OutsideUntouched
    <3>4. CASE call.buf /\ call.size > 0
      <4>1. k # NulIndex
        BY <1>1, <3>2, <3>4, Terminated DEF SinkInv, Call
      <4> QED BY <3>3, <3>4, <4>1, Terminated
    <3> QED BY <3>3, <3>4, Terminated
  <2> QED BY <1>3, <2>1 DEF OutsideUntouched
<1>5. AlwaysTerminated'
  BY <1>3, Terminated DEF AlwaysTerminated
<1>6. npf_n' >= -(IntMax + 1)
  BY <1>1, <1>3 DEF SinkInv
<1> QED BY <1>1, <1>2, <1>3, <1>4, <1>5, <1>6, Terminated DEF SInv, SinkInv

LEMMA SinkStep == SInv /\ [SNext]_svars => SInv'
<1> SUFFICES ASSUME SInv, [SNext]_svars PROVE SInv'
  OBVIOUS
<1>1. CASE UNCHANGED svars
  <2>1. UNCHANGED <<vars, call, dst, len, mem, returned>>
    BY <1>1 DEF svars, sink
  <2>2. IInv'
    <3>1. [Next]_vars
      BY <2>1
    <3> QED BY <3>1, TypeStep, ArgsStep, ShapeStep, CountStep DEF SInv, IInv
  <2>3. UNCHANGED <<out, npf_n, pc>> /\ Kept' = Kept
    BY <2>1 DEF vars, Kept, Room
  <2>4. OutsideUntouched' /\ AlwaysTerminated'
    BY <2>1, Zenon DEF SInv, SinkInv, OutsideUntouched, AlwaysTerminated
  <2> QED BY <2>1, <2>2, <2>3, <2>4 DEF SInv, SinkInv
<1> QED BY <1>1, FormatKeeps, TerminateKeeps DEF SNext, SDone

LEMMA SinkHolds == SSpec => []SInv
<1>1. SInit => SInv
  BY SinkInit
<1>2. SInv /\ [SNext]_svars => SInv'
  BY SinkStep
<1> QED BY <1>1, <1>2, PTL DEF SSpec

-----------------------------------------------------------------------------
(* The theorems.                                                             *)

\* The buffer holds the longest prefix of the output that fits, at every moment
\* before the terminator, whatever the engine prints (1640-1644).
THEOREM PrefixKept == SSpec => []BufferIsPrefix
<1>1. SInv => BufferIsPrefix
  BY DEF SInv, SinkInv, BufferIsPrefix, Kept, Room
<1> QED BY <1>1, SinkHolds, PTL

\* Nothing outside the caller's buffer is ever written (1640-1644, 2087-2093).
THEOREM OutsideSafe == SSpec => []OutsideUntouched
<1>1. SInv => OutsideUntouched
  BY DEF SInv, SinkInv
<1> QED BY <1>1, SinkHolds, PTL

\* A call that returns has left a NUL in the buffer, even where the count wrapped
\* (2087-2093).
THEOREM Ended == SSpec => []AlwaysTerminated
<1>1. SInv => AlwaysTerminated
  BY DEF SInv, SinkInv
<1> QED BY <1>1, SinkHolds, PTL

-----------------------------------------------------------------------------
(* The contract.                                                             *)

Answer == [done |-> returned, n |-> IF returned THEN npf_n ELSE 0,
           mem |-> IF returned THEN mem ELSE Blank]

\* A character put is a character produced, whether or not it was kept.
LEMMA FormatProduces ==
  ASSUME SInv, Format
  PROVE  Contract!Next \/ UNCHANGED <<call, out, Answer>>
<1>1. IInv /\ SinkInv /\ Next /\ pc # "done" /\ UNCHANGED <<call, returned>>
  BY DEF SInv, Format
<1>2. ~returned /\ ~returned' /\ returned' = returned /\ returned = FALSE
  BY <1>1, Zenon DEF SinkInv
<1>3. Answer = [done |-> FALSE, n |-> 0, mem |-> Blank] /\ Answer' = Answer
  BY <1>2 DEF Answer, Blank
<1>4. CASE out' = out
  BY <1>1, <1>3, <1>4
<1>5. CASE out' # out
  <2>1. PICK c : out' = Append(out, c)
    BY <1>1, <1>5, OneCharacter
  <2>2. out \in Seq(Chars)
    BY <1>1 DEF IInv, TypeOK
  <2>3. Len(out') = Len(out) + 1 /\ SubSeq(out', 1, Len(out)) = out
    BY <2>1, <2>2
  <2>4. Contract!Produce
    BY <1>1, <1>3, <2>3 DEF Contract!Produce, Contract!Unanswered, Answer
  <2> QED BY <2>4 DEF Contract!Next
<1> QED BY <1>4, <1>5

\* The terminator is put where the contract wants it.
LEMMA TerminateHolds ==
  ASSUME SInv, Terminate, Len(out) <= IntMax
  PROVE  npf_n = Len(out) /\ Contract!Holds(mem')
<1>1. /\ IInv /\ SinkInv /\ pc = "done" /\ returned = FALSE
      /\ Cells \in Nat /\ IntMax \in Nat
  BY CallAssumption, IntMaxNat, Zenon DEF SInv, Terminate, SinkInv
<1>2. /\ Room \in Nat /\ Kept \in Nat /\ Kept <= Room /\ Len(out) \in Nat
      /\ Kept = Room \/ (Kept = Len(out) /\ Len(out) < Room)
      /\ Kept <= Len(out)
  BY <1>1, KeptBounds DEF SinkInv
<1>3. npf_n = Len(out) /\ Unsigned(npf_n) = Len(out)
  <2>1. npf_n = Len(out)
    BY <1>1 DEF IInv, CountInv
  <2> QED BY <1>2, <2>1 DEF Unsigned
<1>4. /\ \A k \in 0..(Kept - 1) : mem[k] = out[k + 1]
      /\ \A k \in Kept..(Cells - 1) : mem[k] = "blank"
  BY <1>1, Zenon DEF SinkInv
<1>5. Contract!Writable = Room /\ Contract!NUL = NUL
  BY DEF Contract!Writable, Room, Contract!NUL, NUL
<1>6. CASE Room = 0
  <2>1. ~(Len(out) < Contract!Writable) /\ ~(Contract!Writable > 0)
    BY <1>2, <1>5, <1>6
  <2> QED BY <1>3, <2>1 DEF Contract!Holds, Contract!Fits
<1>7. CASE Room > 0
  <2>1. call.buf /\ call.size = Room /\ call.size > 0 /\ Room < Cells /\ call.safe \in BOOLEAN
    BY <1>1, <1>7 DEF Room, SinkInv, Call
  <2>2. /\ NulIndex \in 0..(Room - 1) /\ mem'[NulIndex] = NUL
        /\ \A k \in 0..(Cells - 1) : k # NulIndex => mem'[k] = mem[k]
    BY <2>1, Terminated
  <2>3. CASE Len(out) < Room
    <3>1. Kept = Len(out) /\ NulIndex = Len(out)
      BY <1>2, <1>3, <2>1, <2>3 DEF NulIndex, MinOf
    <3>2. \A k \in 0..(Len(out) - 1) : mem'[k] = out[k + 1]
      BY <1>1, <1>2, <1>4, <2>1, <2>2, <2>3, <3>1
    <3>3. \A k \in (Len(out) + 1)..(Cells - 1) : mem'[k] = Blank[k]
      <4>1. TAKE k \in (Len(out) + 1)..(Cells - 1)
      <4>2. k \in 0..(Cells - 1) /\ k \in Kept..(Cells - 1) /\ k # NulIndex
        BY <1>1, <1>2, <3>1, <4>1
      <4> QED BY <1>4, <2>2, <4>2 DEF Blank
    <3>4. Contract!Fits
      BY <1>5, <2>3 DEF Contract!Fits
    <3>5. mem'[Len(out)] = NUL
      BY <2>2, <3>1
    <3> QED BY <1>3, <1>5, <3>2, <3>3, <3>4, <3>5 DEF Contract!Holds
  <2>4. CASE ~(Len(out) < Room) /\ ~call.safe
    <3>1. Kept = Room /\ NulIndex = Room - 1
      BY <1>2, <1>3, <2>1, <2>4 DEF NulIndex, MinOf
    <3>2. \A k \in 0..(Room - 2) : mem'[k] = out[k + 1]
      <4>1. TAKE k \in 0..(Room - 2)
      <4>2. k \in 0..(Cells - 1) /\ k \in 0..(Kept - 1) /\ k # NulIndex
        BY <1>1, <1>2, <2>1, <3>1, <4>1
      <4> QED BY <1>4, <2>2, <4>2
    <3>3. ~Contract!Fits /\ Contract!Writable > 0
      BY <1>5, <1>7, <2>4 DEF Contract!Fits
    <3>4. mem'[Room - 1] = NUL
      BY <2>2, <3>1
    <3> QED BY <1>3, <1>5, <2>4, <3>2, <3>3, <3>4 DEF Contract!Holds
  <2>5. CASE ~(Len(out) < Room) /\ call.safe
    <3>1. NulIndex = 0
      BY <1>2, <1>3, <2>1, <2>5 DEF NulIndex
    <3>2. ~Contract!Fits /\ Contract!Writable > 0
      BY <1>5, <1>7, <2>5 DEF Contract!Fits
    <3> QED BY <1>3, <1>5, <2>2, <2>5, <3>1, <3>2 DEF Contract!Holds
  <2> QED BY <2>1, <2>3, <2>4, <2>5
<1> QED BY <1>2, <1>6, <1>7

LEMMA TerminateAnswers ==
  ASSUME SInv, Terminate
  PROVE  Contract!Next
<1>1. /\ SInv' /\ UNCHANGED <<vars, call>> /\ returned = FALSE /\ returned' = TRUE
  BY TerminateKeeps, Zenon DEF Terminate, SInv, SinkInv
<1>2. UNCHANGED <<out, npf_n, call>> /\ Contract!NUL = NUL
  BY <1>1 DEF vars, Contract!NUL, NUL
<1>3. Contract!Contained(mem')
  <2>1. /\ \A k \in 0..(Cells - 1) : ~call.buf \/ k >= call.size => mem'[k] = "blank"
        /\ call.buf /\ call.size > 0 => \E k \in 0..(call.size - 1) : mem'[k] = NUL
    BY <1>1, <1>2 DEF SInv, SinkInv, OutsideUntouched, AlwaysTerminated
  <2>2. call.size \in Nat /\ Cells \in Nat
    BY CallAssumption DEF SInv, SinkInv, Call
  <2>3. Contract!Writable = IF call.buf THEN call.size ELSE 0
    BY DEF Contract!Writable
  <2>4. \A k \in Contract!Writable..(Cells - 1) : mem'[k] = Blank[k]
    <3>1. TAKE k \in Contract!Writable..(Cells - 1)
    <3>2. k \in 0..(Cells - 1) /\ (~call.buf \/ k >= call.size)
      BY <2>2, <2>3, <3>1
    <3> QED BY <2>1, <3>2 DEF Blank
  <2> QED BY <1>2, <2>1, <2>2, <2>3, <2>4 DEF Contract!Contained
<1>4. Len(out) <= IntMax => npf_n = Len(out) /\ Contract!Holds(mem')
  BY TerminateHolds
<1>5. Answer = [done |-> FALSE, n |-> 0, mem |-> Blank]
      /\ Answer'.done /\ Answer'.n = npf_n /\ Answer'.mem = mem'
  BY <1>1, <1>2 DEF Answer
<1> QED BY <1>2, <1>3, <1>4, <1>5
        DEF Contract!Next, Contract!Answer, Contract!Unanswered, Answer

\* npf_vsnprintf implements its contract (README "Return Values", "Sprintf Safety"):
\* a text, then one answer with its length, and in the buffer the text or as much
\* as fits, ended by a NUL; in a safe-empty build nothing where it does not fit.
THEOREM ContractKept == SSpec => KeepsContract
<1>1. SInit => Contract!Init
  BY DEF SInit, Init, Contract!Init, Contract!Unanswered
<1>2. SInv /\ [SNext]_svars => [Contract!Next]_<<call, out, Answer>>
  <2> SUFFICES ASSUME SInv, [SNext]_svars
               PROVE  [Contract!Next]_<<call, out, Answer>>
    OBVIOUS
  <2>1. CASE UNCHANGED svars
    <3>1. UNCHANGED <<out, npf_n, mem, call, returned>>
      BY <2>1 DEF svars, vars, sink
    <3> QED BY <3>1 DEF Answer, Blank
  <2> QED BY <2>1, FormatProduces, TerminateAnswers DEF SNext, SDone
<1> QED BY <1>1, <1>2, SinkHolds, PTL DEF SSpec, KeepsContract, Contract!Spec, Answer

=============================================================================
