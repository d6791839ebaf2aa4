------------------------------- MODULE NpfFtoa -------------------------------
(***************************************************************************)
(* npf_ftoa_rev: the %f of builds that have neither %e nor %g.  It knows   *)
(* where the point goes before it starts, and places each digit as it is   *)
(* generated.  One action per step of its loops.                           *)
(***************************************************************************)
EXTENDS NpfReal

VARIABLE dec_f    \* decimals still to place

fusedVars == <<inputs, pc, scale, place, dec_f, res>>

FusedLeave(kind) == /\ res' = Special(kind) /\ pc' = "FusedDone"
                    /\ UNCHANGED <<inputs, scale, place, dec_f>>

\* Specials and a precision that cannot fit; then the point is placed.
FusedStart ==
  /\ pc = "FusedStart"
  /\ \/ IsSpecial /\ FusedLeave(SpecialKind)
     \/ ~IsSpecial /\ fs.prec > cfg.cbuf - 2 /\ FusedLeave("ERR")
     \/ /\ ~IsSpecial /\ fs.prec <= cfg.cbuf - 2
        /\ exp' = Exponent /\ carry' = 0
        /\ \/ /\ fs.prec > 0 \/ fs.alt
              /\ buf' = Put(buf, fs.prec, Dot) /\ dec' = fs.prec + 1
           \/ fs.prec = 0 /\ ~fs.alt /\ dec' = 0 /\ UNCHANGED buf
        /\ pc' = "FusedInteger"
        /\ UNCHANGED <<inputs, man, left, digit, end, dec_f, res>>

FusedInteger ==
  /\ pc = "FusedInteger" /\ StartInteger /\ pc' = "FusedScaleInt"
  /\ UNCHANGED <<inputs, digit, place, dec_f, res>>

FusedScaleInt ==
  /\ pc = "FusedScaleInt" /\ left > 0
  /\ \/ /\ RoomToDouble /\ DoubleIt
        /\ left' = left - 1 /\ UNCHANGED <<inputs, pc, exp, digit, place, dec_f, res>>
     \/ ~RoomToDouble /\ dec >= cfg.cbuf /\ FusedLeave("ERR")
     \/ /\ ~RoomToDouble /\ dec < cfg.cbuf /\ TakeFifth
        /\ buf' = Put(buf, dec, 0) /\ dec' = dec + 1
        /\ left' = left - 1 /\ UNCHANGED <<inputs, pc, exp, digit, end, dec_f, res>>

\* Room for any number of npf_ftoa_man_t, or for this one.
IntegerFits(n) == IF cfg.reserve > 0 THEN dec <= cfg.cbuf - cfg.reserve
                                     ELSE dec + Len(n) <= cfg.cbuf

\* The integer's digits, then the fraction's mantissa where there is one.
FusedIntDigits ==
  /\ pc = "FusedScaleInt" /\ left = 0
  /\ \/ ~IntegerFits(Numeral[man]) /\ FusedLeave("ERR")
     \/ /\ IntegerFits(Numeral[man])
        /\ buf' = PutRun(buf, dec, Numeral[man])
        /\ end' = dec + Len(Numeral[man])
        /\ dec_f' = fs.prec
        /\ \/ HasFraction /\ StartFraction /\ pc' = "FusedScaleFrac"
           \/ ~HasFraction /\ man' = 0 /\ pc' = "FusedEmit" /\ UNCHANGED <<carry, left, digit>>
        /\ UNCHANGED <<inputs, exp, dec, res>>

FusedScaleFrac ==
  /\ pc = "FusedScaleFrac" /\ dec_f > 0 /\ left < 4
  /\ ScaleFraction
  /\ \/ LeadingZero /\ buf' = Put(buf, dec_f - 1, 0) /\ dec_f' = dec_f - 1
     \/ ~LeadingZero /\ UNCHANGED <<buf, dec_f>>
  /\ UNCHANGED <<inputs, pc, dec, end, res>>

\* Mutant of GuardedNudge: the pending carry is added to any mantissa.
GuardedNudgeAlways == man' = (man + carry) % Range2

\* The carry left is added, except where it would wrap.
GuardedNudge == man' = (IF man = Range2 - 1 THEN man ELSE man + carry)

FusedNudge ==
  /\ pc = "FusedScaleFrac" /\ (dec_f = 0 \/ left >= 4)
  /\ GuardedNudge /\ carry' = (IF left >= 0 THEN 1 ELSE 0)
  /\ dec' = 0 /\ pc' = (IF dec_f > 0 THEN "FusedEmit" ELSE "FusedTie")
  /\ UNCHANGED <<inputs, exp, left, digit, end, buf, dec_f, res>>

\* A decimal a step, down to buf[0]; a number without a fraction has zeros.
FusedEmit ==
  /\ pc = "FusedEmit"
  /\ \/ dec_f = 0 /\ pc' = "FusedTie" /\ UNCHANGED <<man, buf, dec_f>>
     \/ /\ dec_f > 0
        /\ buf' = Put(buf, dec_f - 1, NextDecimal) /\ dec_f' = dec_f - 1
        /\ \/ dec_f = 1 /\ man' = (RestOf * 16) % Range2 /\ pc' = "FusedTie"
           \/ dec_f > 1 /\ man' = (RestOf * 10) % Range2 /\ UNCHANGED pc
  /\ UNCHANGED <<inputs, exp, carry, left, digit, dec, end, res>>

\* Mutant of LastKept: the flag is asked, and not whether the point is there.
LastKeptByFlag == IF fs.alt THEN Cell(buf, 1) ELSE Cell(buf, 0)

LastKept == IF Cell(buf, 0) = Dot THEN Cell(buf, 1) ELSE Cell(buf, 0)

\* A half or more rounds up; an exact half only next to an odd digit.
FusedTie ==
  /\ pc = "FusedTie" /\ pc' = "FusedRound"
  /\ \/ ~HasFraction /\ UNCHANGED carry
     \/ /\ HasFraction
        /\ LET half == man >= Range2 \div 2
               tie == man = Range2 \div 2
           IN carry' = (IF half /\ (tie => LastKept % 2 = 1) THEN carry ELSE 0)
  /\ UNCHANGED <<inputs, exp, man, left, digit, place, dec_f, res>>

\* Mutant of NoRoomToRound: the buffer is taken to have room for one digit more.
NoRoomToRoundOff == dec > cfg.cbuf

NoRoomToRound == dec >= cfg.cbuf

\* The carry travels up; past the last digit it becomes one more.
FusedRound ==
  /\ pc = "FusedRound" /\ carry = 1
  /\ \/ NoRoomToRound /\ FusedLeave("ERR")
     \/ /\ ~NoRoomToRound
        /\ LET b == IF dec >= end THEN Put(buf, dec, 0) ELSE buf
               c == Cell(b, dec)
           IN /\ end' = Greater(end, dec + 1)
              /\ \/ c = Dot /\ buf' = b /\ UNCHANGED carry
                 \/ c = 9 /\ buf' = Put(b, dec, 0) /\ UNCHANGED carry
                 \/ c \notin {Dot, 9} /\ buf' = Put(b, dec, c + 1) /\ carry' = 0
        /\ dec' = dec + 1
        /\ UNCHANGED <<inputs, pc, exp, man, left, digit, dec_f, res>>

FusedReturn ==
  /\ pc = "FusedRound" /\ carry = 0
  /\ res' = [kind |-> "number", text |-> Text(buf, end)] /\ pc' = "FusedDone"
  /\ UNCHANGED <<inputs, scale, place, dec_f>>

FusedNext == \/ FusedStart \/ FusedInteger \/ FusedScaleInt \/ FusedIntDigits
             \/ FusedScaleFrac \/ FusedNudge \/ FusedEmit \/ FusedTie
             \/ FusedRound \/ FusedReturn
=============================================================================
