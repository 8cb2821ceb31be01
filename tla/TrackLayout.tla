---------------------------- MODULE TrackLayout ------------------------------
(***************************************************************************)
(* An entry of the table of contents, and the file it stands for.          *)
(***************************************************************************)
EXTENDS Integers

CONSTANT SectorUnits   \* units in a raw sector (2352 bytes)

\* cdrom_track_t: lbaStart is the start of the pregap, lba the start of data.
TrackRecord == [lba : Nat, lbaStart : Nat, size : Nat, audio : BOOLEAN]

\* Only a data track's pregap is left out of its file.
PregapLen(tr) == IF tr.audio THEN 0 ELSE tr.lba - tr.lbaStart

LbaLen(tr) == tr.size - PregapLen(tr)

\* track_bytes
TrackUnits(tr) == LbaLen(tr) * SectorUnits

\* C division truncates towards zero.
TruncDiv(a, b) == IF a >= 0 THEN a \div b ELSE -((-a) \div b)

\* The address computed for a position, which may lie before the track.
LbaAt(tr, pos) == tr.lba + TruncDiv(pos, SectorUnits)
=============================================================================
