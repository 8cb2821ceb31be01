--------------------------- MODULE MCRedbookPlayer ---------------------------
(***************************************************************************)
(* RedbookPlayer in the proportions of the program: four units to the      *)
(* sector, five to the video frame; tracks of two and three sectors.  The  *)
(* last track of MixedDisc is in a second session; BareDisc does not give  *)
(* the number of its tracks, and EmptyDisc gives none.                     *)
(***************************************************************************)
EXTENDS RedbookPlayer

Track(lba, start, size, control) ==
  [lba |-> lba, start |-> start, size |-> size, control |-> control, mode |-> 0]

AudioDisc == [tracks |-> <<Track(2, 2, 2, 0), Track(4, 4, 3, 0), Track(7, 7, 2, 0)>>, a1 |-> 3]
MixedDisc == [tracks |-> <<Track(2, 1, 3, 4), Track(5, 5, 2, 0), Track(7, 7, 2, 0), Track(9, 9, 2, 0)>>, a1 |-> 3]
DataDisc  == [tracks |-> <<Track(2, 1, 3, 4)>>, a1 |-> 1]
\* The file of the first track reaches into the third.
LongDisc  == [tracks |-> <<Track(2, 2, 5, 0), Track(4, 4, 2, 0), Track(6, 6, 2, 0)>>, a1 |-> 3]
BareDisc  == [tracks |-> <<Track(3, 3, 2, 0), Track(5, 5, 2, 0)>>, a1 |-> NoPoint]
EmptyDisc == [tracks |-> << >>, a1 |-> 0]

MCDiscs == {AudioDisc, MixedDisc, DataDisc, LongDisc, BareDisc, EmptyDisc}

\* The buttons that do something, and two at a time.
MCInputs == {{}, {"B"}, {"LEFT"}, {"RIGHT"}, {"LEFT", "RIGHT"}}
=============================================================================
