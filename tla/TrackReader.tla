----------------------------- MODULE TrackReader -----------------------------
(***************************************************************************)
(* What a player of one track relies upon: a file of fixed length whose    *)
(* read is one indivisible step.  A read either moves the position by the  *)
(* number of units it returns or returns nothing and stays; what a clean   *)
(* read puts in the buffer is the content of the disc at the position,     *)
(* which is that of the track unless the position lies before it.          *)
(***************************************************************************)
EXTENDS Integers

CONSTANTS
  Tracks,    \* track numbers
  First,     \* [Tracks -> Nat]: absolute position of a track's first unit
  Length     \* [Tracks -> Nat]: units the file of a track holds

VARIABLES
  open,      \* is a file open
  track,     \* the track it plays
  pos,       \* position of the next read
  eof,       \* the end-of-file flag
  last       \* the last read: [ret, clean, error, data]

vars == <<open, track, pos, eof, last>>

IsContentFrom(data, from) ==
  \A k \in DOMAIN data : data[k].kind = "disc" /\ data[k].at = from + k

Init == open = FALSE /\ pos = 0 /\ eof = FALSE

Open ==
  /\ ~open /\ open'
  /\ track' \in Tracks
  /\ pos' = 0 /\ eof' = FALSE
  /\ UNCHANGED last

Close == open /\ ~open' /\ UNCHANGED <<track, pos, eof, last>>

\* Any place may be sought, also beyond the end and before the start.
Seek == open /\ pos' \in Int /\ eof' = FALSE /\ UNCHANGED <<open, track, last>>

\* Units are delivered: fewer than asked for only at the end of the track,
\* and then the end is reported.
ReadSucceeds ==
  /\ open
  /\ ~last'.error
  /\ last'.ret \in 0 .. Length[track] - pos
  /\ DOMAIN last'.data = 0 .. last'.ret - 1
  /\ last'.clean /\ First[track] + pos >= 0 => IsContentFrom(last'.data, First[track] + pos)
  /\ pos' = pos + last'.ret
  /\ eof' /= eof => eof' /\ pos' = Length[track]
  /\ UNCHANGED <<open, track>>

\* Nothing is delivered: at the end of the track or after a failure.  Both
\* raise the end-of-file flag.
ReadsNothing ==
  /\ open
  /\ last'.ret = 0
  /\ pos >= Length[track] \/ last'.error
  /\ eof' \in {eof, TRUE}
  /\ UNCHANGED <<open, track, pos>>

Next == Open \/ Close \/ Seek \/ ReadSucceeds \/ ReadsNothing

Spec == Init /\ [][Next]_vars
=============================================================================
