--------------------------------- MODULE Msf ---------------------------------
(***************************************************************************)
(* Addresses on a compact disc.  The drive is addressed in minutes,        *)
(* seconds and frames, each held in one byte; the rest of the program      *)
(* counts frames (75 to the second) in one unsigned number, the LBA.       *)
(***************************************************************************)
EXTENDS Integers

FramesPerSec == 75
SecsPerMin   == 60
FramesPerMin == SecsPerMin * FramesPerSec

\* The three fields are unsigned char.
ByteMod == 256

\* The LBAs whose minute fits its byte: the range on which the two
\* conversions are inverse to each other.
MsfLimit == ByteMod * FramesPerMin

MSF == [min : 0 .. ByteMod - 1, sec : 0 .. SecsPerMin - 1, frame : 0 .. FramesPerSec - 1]

LbaToMsf(lba) ==
  [min   |-> (lba \div FramesPerMin) % ByteMod,
   sec   |-> (lba \div FramesPerSec) % SecsPerMin,
   frame |-> lba % FramesPerSec]

MsfToLba(m) == (m.min * SecsPerMin + m.sec) * FramesPerSec + m.frame

\* Mutant: the frame is stepped before the carry is decided.
IncrementMsfFrameFirst(m) ==
  LET f == IF m.frame < FramesPerSec - 1 THEN m.frame + 1 ELSE 0
      lastFrame == f = FramesPerSec - 1
      lastSec   == m.sec >= SecsPerMin - 1
  IN  [min   |-> IF lastFrame /\ lastSec THEN (m.min + 1) % ByteMod ELSE m.min,
       sec   |-> IF lastFrame THEN (IF lastSec THEN 0 ELSE m.sec + 1) ELSE m.sec,
       frame |-> f]

\* The assignments run in the order minute, second, frame, so each reads the
\* old value of the fields below it.
IncrementMsf(m) ==
  LET lastFrame == m.frame = FramesPerSec - 1
      lastSec   == m.sec >= SecsPerMin - 1
  IN  [min   |-> IF lastFrame /\ lastSec THEN (m.min + 1) % ByteMod ELSE m.min,
       sec   |-> IF lastFrame THEN (IF lastSec THEN 0 ELSE m.sec + 1) ELSE m.sec,
       frame |-> IF lastFrame THEN 0 ELSE m.frame + 1]
=============================================================================
