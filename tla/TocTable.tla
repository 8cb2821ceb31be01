------------------------------ MODULE TocTable -------------------------------
(***************************************************************************)
(* What the rest of the program may assume of the table of contents: it    *)
(* changes in one step, by a load.  A load leaves it alone, or takes from  *)
(* one disc the address and kind of each track, and their number if the    *)
(* disc gives it, and gives a track the rest from a disc that was in a     *)
(* drive, or leaves it as it was.                                          *)
(***************************************************************************)
EXTENDS TocEntry

CONSTANT Discs

VARIABLES num, table

vars == <<num, table>>

Init == num = 0 /\ table = [t \in TrackNumbers |-> Blank]

\* What the entry of track t may be after a load of d.
Outcomes(d, t) ==
  IF t > Len(d.tracks) THEN {table[t]}
  ELSE LET e == WithPoint(table[t], d.tracks[t])
       IN  {e} \cup {WithInfo(e, x.tracks[t]) : x \in {y \in Discs : t <= Len(y.tracks)}}

Load ==
  \E d \in Discs :
    /\ TrackCount(d, num) \in 1 .. 99
    /\ num' = TrackCount(d, num)
    /\ DOMAIN table' = TrackNumbers
    /\ \A t \in TrackNumbers : table'[t] \in Outcomes(d, t)

\* Neither the disc nor the table has a valid number of tracks.
LoadInvalid ==
  \E d \in Discs :
    /\ TrackCount(d, num) \notin 1 .. 99
    /\ num' = TrackCount(d, num)
    /\ UNCHANGED table

Next == Load \/ LoadInvalid

Spec == Init /\ [][Next]_vars
=============================================================================
