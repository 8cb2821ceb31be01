----------------------------- MODULE MCDiscLoad ------------------------------
(***************************************************************************)
(* DiscLoad with two drives and discs of every kind: audio tracks with and *)
(* without a pregap or pre-emphasis, a data track, a second session, a     *)
(* disc without tracks and one whose answer does not give their number.    *)
(***************************************************************************)
EXTENDS DiscLoad

Track(lba, start, size, control, mode) ==
  [lba |-> lba, start |-> start, size |-> size, control |-> control, mode |-> mode]

Audio == [tracks |-> <<Track(150, 0, 300, 0, 0), Track(450, 300, 200, 0, 0)>>, a1 |-> 2]
Mixed == [tracks |-> <<Track(150, 0, 400, 4, 1), Track(700, 400, 500, 0, 0), Track(900, 900, 80, 1, 0)>>, a1 |-> 3]
Extra == [tracks |-> <<Track(160, 10, 300, 0, 0), Track(12000, 11850, 90, 4, 2)>>, a1 |-> 1]
Empty == [tracks |-> << >>, a1 |-> 0]
Bare  == [tracks |-> <<Track(170, 20, 250, 0, 0)>>, a1 |-> NoPoint]

MCDiscs == {Audio, Mixed, Extra, Empty, Bare}
=============================================================================
