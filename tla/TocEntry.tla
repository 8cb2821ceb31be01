------------------------------ MODULE TocEntry -------------------------------
(***************************************************************************)
(* What a drive says of a disc, and how it becomes an entry of the table   *)
(* of contents: READ TOC gives a track its address and its kind, READ      *)
(* TRACK INFORMATION the rest.                                             *)
(***************************************************************************)
EXTENDS TrackLayout, Sequences

CONSTANTS
  MaxTrack,   \* entries of the table (99)
  Word        \* stands for 2^32, the range of the fields

ASSUME WordAssumption == Word \in Nat \ {0} /\ MaxTrack \in Nat \ {0}

Uint == 0 .. Word - 1

TrackNumbers == 1 .. MaxTrack

\* A track on a disc: the start of its data, the start and length of the
\* whole track, its control bits and data mode.
DiscTrack == [lba : Uint, start : Uint, size : Uint, control : 0 .. 15, mode : 0 .. 15]

NoPoint == -1   \* an answer without a point A1

\* A disc, as READ TOC answers for it: the tracks of all its sessions, and the
\* last track number of the first session (point A1).
IsDisc(d) ==
  /\ d.tracks \in Seq(DiscTrack) /\ Len(d.tracks) \in 0 .. MaxTrack
  /\ d.a1 \in (0 .. 255) \cup {NoPoint}

\* The number of tracks once READ TOC has answered for d, when it was n: that
\* of an earlier disc stays where the answer has none.
TrackCount(d, n) == IF d.a1 = NoPoint THEN n ELSE d.a1

\* bytes counts sectors of 2352 bytes.
Entry == [lba : Uint, lbaStart : Uint, size : Uint, bytes : Uint, mode : 0 .. 15, audio : BOOLEAN]

Blank == [lba |-> 0, lbaStart |-> 0, size |-> 0, bytes |-> 0, mode |-> 0, audio |-> FALSE]

\* A track with pre-emphasis (bit 0) does not count as audio.
IsAudio(control) == control % 2 = 0 /\ (control \div 4) % 2 = 0

\* What a point of READ TOC says of its track.
WithPoint(e, tr) == [e EXCEPT !.lba = tr.lba, !.audio = IsAudio(tr.control)]

\* Mutant: the length is computed in signed arithmetic.
WithInfoSigned(e, tr) ==
  LET pregap == PregapLen([e EXCEPT !.lbaStart = tr.start]) % Word
  IN  [e EXCEPT !.lbaStart = tr.start, !.size = tr.size, !.mode = tr.mode, !.bytes = tr.size - pregap]

\* What READ TRACK INFORMATION says of it, over what the point said.
WithInfo(e, tr) ==
  LET pregap == PregapLen([e EXCEPT !.lbaStart = tr.start]) % Word
  IN  [e EXCEPT !.lbaStart = tr.start, !.size = tr.size, !.mode = tr.mode, !.bytes = (tr.size - pregap) % Word]

\* The entry a track of disc d has once its two commands have been answered.
EntryOf(d, t) == WithInfo(WithPoint(Blank, d.tracks[t]), d.tracks[t])

\* The table after a load of disc d in which READ TRACK INFORMATION failed for
\* the tracks in lost: their entries keep the rest of what they held.
AfterLoad(table, d, lost) ==
  [t \in DOMAIN table |->
     IF t > Len(d.tracks) THEN table[t]
     ELSE IF t \in lost THEN WithPoint(table[t], d.tracks[t])
     ELSE EntryOf(d, t)]
=============================================================================
