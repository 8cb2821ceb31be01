----------------------------- MODULE MCCdromFile -----------------------------
(***************************************************************************)
(* CdromFile on a mixed disc: a data track and an audio track, both with a *)
(* pregap, placed around the end of the first minute, and a track at the   *)
(* very start of the disc.  Word is as far above a multiple of MsfLimit    *)
(* as 2^32 is.                                                             *)
(***************************************************************************)
EXTENDS CdromFile

MCToc == [t \in {1, 2, 3} |->
  CASE t = 1 -> [lbaStart |-> 4496, lba |-> 4497, size |-> 3, audio |-> FALSE]
    [] t = 2 -> [lbaStart |-> 4499, lba |-> 4500, size |-> 2, audio |-> TRUE]
    [] t = 3 -> [lbaStart |-> 0, lba |-> 0, size |-> 1, audio |-> TRUE]]

\* The callers of this module are the operations of the file.
MCReads == {}

\* Three units, like the player's 5/4 of a sector, never fit one sector.
MCReadLens == {0, 1, 3}

MCSeekOffsets == {-2, 0, 1, 2}

MCSenseKeys == {2, 5}

MCCommands == {"TEST UNIT READY", "INQUIRY"}
=============================================================================
