------------------------------ MODULE MsfProofs ------------------------------
(***************************************************************************)
(* What the MSF arithmetic computes, for every address whose minute fits   *)
(* its byte.                                                               *)
(***************************************************************************)
EXTENDS Msf, TLAPS

\* The arithmetic behind the bound, over plain integers.
LEMMA AddressBounds ==
  ASSUME NEW a \in Int, NEW b \in Int, NEW c \in Int,
         0 <= a, a <= 255, 0 <= b, b <= 59, 0 <= c, c <= 74
  PROVE  /\ (a * 60 + b) * 75 + c \in Int
         /\ 0 <= (a * 60 + b) * 75 + c
         /\ (a * 60 + b) * 75 + c < 256 * 4500
BY SMT

LEMMA MsfLimitValue == MsfLimit \in Int /\ MsfLimit = 256 * 4500
BY SMT DEF MsfLimit, FramesPerMin, FramesPerSec, SecsPerMin, ByteMod

LEMMA MsfLimitInt == MsfLimit \in Int
BY MsfLimitValue, SMT

LEMMA MsfFields ==
  ASSUME NEW m \in MSF
  PROVE  /\ m = [min |-> m.min, sec |-> m.sec, frame |-> m.frame]
         /\ m.min \in Int /\ 0 <= m.min /\ m.min <= 255
         /\ m.sec \in Int /\ 0 <= m.sec /\ m.sec <= 59
         /\ m.frame \in Int /\ 0 <= m.frame /\ m.frame <= 74
         /\ MsfToLba(m) = (m.min * 60 + m.sec) * 75 + m.frame
BY SMT DEF MSF, MsfToLba, FramesPerSec, SecsPerMin, ByteMod

LEMMA MsfToLbaType ==
  ASSUME NEW m \in MSF
  PROVE  MsfToLba(m) \in 0 .. MsfLimit - 1
<1>1. /\ (m.min * 60 + m.sec) * 75 + m.frame \in Int
      /\ 0 <= (m.min * 60 + m.sec) * 75 + m.frame
      /\ (m.min * 60 + m.sec) * 75 + m.frame < 256 * 4500
  BY MsfFields, AddressBounds, SMT
<1>2. /\ MsfToLba(m) \in Int
      /\ 0 <= MsfToLba(m)
      /\ MsfToLba(m) < MsfLimit
  BY <1>1, MsfFields, MsfLimitValue, SMT
<1> QED
  BY <1>2, MsfLimitInt

LEMMA LbaToMsfType ==
  ASSUME NEW lba \in Nat
  PROVE  LbaToMsf(lba) \in MSF
BY SMT DEF MSF, LbaToMsf, FramesPerMin, FramesPerSec, SecsPerMin, ByteMod

LEMMA IncrementMsfType ==
  ASSUME NEW m \in MSF
  PROVE  IncrementMsf(m) \in MSF
BY SMT DEF MSF, IncrementMsf, FramesPerSec, SecsPerMin, ByteMod

THEOREM MsfRoundTrip ==
  ASSUME NEW lba \in Nat, lba < MsfLimit
  PROVE  MsfToLba(LbaToMsf(lba)) = lba
<1>1. lba < 256 * 4500
  BY MsfLimitValue, SMT
<1>2. (lba \div 4500) % 256 = lba \div 4500
  BY <1>1, SMT
<1>3. lba = ((lba \div 4500) * 60 + ((lba \div 75) % 60)) * 75 + (lba % 75)
  BY <1>1, SMT
<1>4. FramesPerMin = 4500
  BY SMT DEF FramesPerMin, FramesPerSec, SecsPerMin
<1>5. MsfToLba(LbaToMsf(lba))
      = (((lba \div 4500) % 256) * 60 + ((lba \div 75) % 60)) * 75 + (lba % 75)
  BY <1>4, SMT DEF LbaToMsf, MsfToLba, ByteMod, FramesPerSec, SecsPerMin
<1> QED
  BY <1>2, <1>3, <1>5, SMT

THEOREM IncrementIsSuccessor ==
  ASSUME NEW m \in MSF, MsfToLba(m) + 1 < MsfLimit
  PROVE  /\ IncrementMsf(m) \in MSF
         /\ MsfToLba(IncrementMsf(m)) = MsfToLba(m) + 1
<1>1. (m.min * 60 + m.sec) * 75 + m.frame + 1 < 256 * 4500
  BY MsfFields, MsfLimitValue, SMT
<1>2. IncrementMsf(m) \in MSF
  BY IncrementMsfType
<1>3. MsfToLba(IncrementMsf(m)) = MsfToLba(m) + 1
  BY <1>1, MsfFields, SMT
     DEF IncrementMsf, MsfToLba, FramesPerSec, SecsPerMin, ByteMod
<1> QED
  BY <1>2, <1>3
=============================================================================
