------------------------------ MODULE DiscLoad -------------------------------
(***************************************************************************)
(* Loading content: retro_load_game reads the whole of the file it is      *)
(* given.  Opening the cue sheet of a drive sends the commands that fill   *)
(* the table of contents and writes the sheet that is then read; a track   *)
(* of a drive or an ordinary file leaves the table as it is.  Every        *)
(* command may fail and the discs may be changed between any two.          *)
(***************************************************************************)
EXTENDS TocEntry, Msf

CONSTANTS
  Drives,     \* names of the drives
  NoDrive,    \* toc.drive before the first load
  Discs,      \* the discs there are
  MaxSwaps,   \* bound: how often a disc is changed
  MaxLoads    \* bound: how often content is loaded

ASSUME DrivesAssumption == NoDrive \notin Drives
ASSUME DiscsAssumption  == \A d \in Discs : IsDisc(d)
ASSUME BoundsAssumption == MaxSwaps \in Nat /\ MaxLoads \in Nat

VARIABLES
  inDrive,    \* the disc in each drive
  swaps,      \* how often one was changed
  drive,      \* vfs_cdrom_toc.drive
  num,        \* vfs_cdrom_toc.num_tracks
  table,      \* vfs_cdrom_toc.track
  timeouts,   \* vfs_cdrom_toc.timeouts: the drive they were read from
  pc,         \* the command that is sent next
  source,     \* the answer of READ TOC
  k,          \* the track whose point is processed
  cue,        \* the cue sheet: [len, pos], no length without a buffer
  loads,      \* how often content was loaded
  load,       \* history: the load under way or the last one
  before      \* history: number of tracks and table before the load

discVars == <<inDrive, swaps>>
tocVars  == <<drive, num, table, timeouts>>
loopVars == <<source, k, cue>>
vars     == <<discVars, tocVars, pc, loopVars, loads, load, before>>

Kinds == {"cue", "track", "file"}
NoCue == [len |-> 0, pos |-> 0]
EmptyDisc == [tracks |-> << >>, a1 |-> 0]

Init ==
  /\ inDrive \in [Drives -> Discs] /\ swaps = 0
  /\ drive = NoDrive /\ num = 0 /\ timeouts = NoDrive
  /\ table = [t \in TrackNumbers |-> Blank]
  /\ pc = "idle"
  /\ source = EmptyDisc /\ k = 0 /\ cue = NoCue
  /\ loads = 0
  /\ load = [kind |-> "none", drive |-> NoDrive, result |-> FALSE, clean |-> TRUE, text |-> 0, read |-> 0]
  /\ before = [num |-> num, table |-> table]

-----------------------------------------------------------------------------
(* Sizes of the cue sheet's lines.                                         *)

CueTrackBytes == 107

FileLine  == 41   \* FILE "cdrom://drive1-track01.bin" BINARY
AudioLine == 17   \*   TRACK 01 AUDIO
DataLine  == 22   \*   TRACK 01 MODE1/2352
IndexLine == 22   \*     INDEX 01 00:00:00

\* The pregap of an audio track, of two discs where commands failed, has a line
\* of its own; its minutes may take three digits.
Pregap(e) == (e.lba - e.lbaStart) % Word

IndexLines(e) ==
  IF ~e.audio \/ Pregap(e) = 0 THEN IndexLine
  ELSE 2 * IndexLine + IF LbaToMsf(Pregap(e)).min > 99 THEN 1 ELSE 0

LinesOf(e) == FileLine + (IF e.audio THEN AudioLine ELSE DataLine) + IndexLines(e)

\* Mutant: the buffer is sized for one index line a track.
CueLenOneIndex(n) == (CueTrackBytes - IndexLine) * n

CueLen(n) == CueTrackBytes * n

-----------------------------------------------------------------------------
(* The start of a load.                                                    *)

Begin(kind, d, result) ==
  /\ pc = "idle" /\ loads < MaxLoads
  /\ loads' = loads + 1
  /\ before' = [num |-> num, table |-> table]
  /\ load' = [kind |-> kind, drive |-> d, result |-> result, clean |-> TRUE, text |-> 0, read |-> 0]
  /\ UNCHANGED <<discVars, num, table, timeouts, loopVars>>

\* The file is not there, or cannot be opened.  The drive in its name has
\* been taken over by then.
OpenFails(kind, d) ==
  /\ Begin(kind, d, FALSE)
  /\ drive' = IF kind = "file" THEN drive ELSE d
  /\ UNCHANGED pc

\* An ordinary file is read.
LoadFile ==
  /\ Begin("file", NoDrive, TRUE)
  /\ UNCHANGED <<drive, pc>>

\* A track is read, or fails to be read, which is no error; its size is that
\* of whatever entry the table has for it, and must not be negative.
LoadTrack(d, t) ==
  /\ Begin("track", d, table[t].size >= PregapLen(table[t]) % Word)
  /\ drive' = d
  /\ UNCHANGED pc

\* Mutant: the table is cleared before the drive has answered.
LoadCueClears(d) ==
  /\ pc = "idle" /\ loads < MaxLoads
  /\ loads' = loads + 1
  /\ before' = [num |-> num, table |-> table]
  /\ load' = [kind |-> "cue", drive |-> d, result |-> FALSE, clean |-> TRUE, text |-> 0, read |-> 0]
  /\ table' = [t \in TrackNumbers |-> Blank]
  /\ drive' = d
  /\ pc' = "toc"
  /\ UNCHANGED <<discVars, num, timeouts, loopVars>>

LoadCue(d) ==
  /\ Begin("cue", d, FALSE)
  /\ drive' = d
  /\ pc' = "toc"

-----------------------------------------------------------------------------
(* cdrom_write_cue and cdrom_get_timeouts, a command a step.               *)

Failed == load' = [load EXCEPT !.clean = FALSE]

\* READ TOC, after a SET CD SPEED whose status is not looked at.  The number of
\* tracks is tested even when the answer did not give it.
ReadToc ==
  /\ pc = "toc"
  /\ source' = inDrive[load.drive]
  /\ num' = TrackCount(source', num)
  /\ IF num' \in 1 .. 99
       THEN /\ cue' = [len |-> CueLen(num'), pos |-> 0]
            /\ k' = 1
            /\ pc' = IF Len(source'.tracks) = 0 THEN "timeouts" ELSE "info"
       ELSE /\ pc' = "timeouts"
            /\ UNCHANGED <<k, cue>>
  /\ UNCHANGED <<discVars, drive, table, timeouts, loads, load, before>>

ReadTocFails ==
  /\ pc = "toc" /\ pc' = "timeouts"
  /\ Failed
  /\ UNCHANGED <<discVars, tocVars, loopVars, loads, before>>

NextPoint ==
  /\ k' = k + 1
  /\ pc' = IF k = Len(source.tracks) THEN "timeouts" ELSE "info"

\* The lines of track k are written from its entry as it is now.
WriteTrack(e) ==
  /\ table' = [table EXCEPT ![k] = e]
  /\ cue' = [cue EXCEPT !.pos = @ + LinesOf(e)]

\* Mutant: a point overwrites nothing that is already there.
PointKept == IF table[k].lba /= 0 THEN table[k] ELSE WithPoint(table[k], source.tracks[k])

Point == WithPoint(table[k], source.tracks[k])

\* READ TRACK INFORMATION of the disc that is in the drive by now.
TrackInfo ==
  /\ pc = "info"
  /\ k <= Len(inDrive[load.drive].tracks)
  /\ WriteTrack(WithInfo(Point, inDrive[load.drive].tracks[k]))
  /\ NextPoint
  /\ UNCHANGED <<discVars, drive, num, timeouts, source, loads, load, before>>

\* Its status is not looked at: the entry keeps what it held.
TrackInfoFails ==
  /\ pc = "info"
  /\ WriteTrack(Point)
  /\ Failed
  /\ NextPoint
  /\ UNCHANGED <<discVars, drive, num, timeouts, source, loads, before>>

GetTimeouts ==
  /\ pc = "timeouts" /\ pc' = "read"
  /\ \/ timeouts' = load.drive /\ UNCHANGED load
     \/ Failed /\ UNCHANGED timeouts
  /\ UNCHANGED <<discVars, drive, num, table, loopVars, loads, before>>

-----------------------------------------------------------------------------
(* The rest of filestream_read_file.                                       *)

\* Mutant: the size is the length of the buffer.
CueSizeWhole == cue.len

\* The sheet is measured by seeking to its end.
CueSize == cue.len - 1

\* A read that does not stop short of the end of the sheet returns nothing.
CueRead == IF CueSize < cue.len THEN CueSize ELSE 0

ReadCue ==
  /\ pc = "read" /\ pc' = "idle"
  /\ load' = [load EXCEPT !.result = CueSize >= 0, !.text = cue.pos,
                          !.read = IF CueSize >= 0 THEN CueRead ELSE 0]
  /\ cue' = NoCue
  /\ UNCHANGED <<discVars, tocVars, source, k, loads, before>>

SwapDisc(d, disc) ==
  /\ swaps < MaxSwaps /\ swaps' = swaps + 1
  /\ inDrive[d] /= disc /\ inDrive' = [inDrive EXCEPT ![d] = disc]
  /\ load' = [load EXCEPT !.clean = load.clean /\ (pc = "idle" \/ load.drive /= d)]
  /\ UNCHANGED <<tocVars, pc, loopVars, loads, before>>

LoadStep == ReadToc \/ ReadTocFails \/ TrackInfo \/ TrackInfoFails \/ GetTimeouts \/ ReadCue

Next ==
  \/ \E kind \in Kinds, d \in Drives : OpenFails(kind, d)
  \/ LoadFile
  \/ \E d \in Drives, t \in TrackNumbers : LoadTrack(d, t)
  \/ \E d \in Drives : LoadCue(d)
  \/ LoadStep
  \/ \E d \in Drives, disc \in Discs : SwapDisc(d, disc)

Spec == Init /\ [][Next]_vars

-----------------------------------------------------------------------------
(* Properties.                                                             *)

TypeOK ==
  /\ inDrive \in [Drives -> Discs] /\ swaps \in 0 .. MaxSwaps
  /\ drive \in Drives \cup {NoDrive} /\ timeouts \in Drives \cup {NoDrive}
  /\ num \in 0 .. 255 /\ table \in [TrackNumbers -> Entry]
  /\ pc \in {"idle", "toc", "info", "timeouts", "read"}
  /\ source \in Discs \cup {EmptyDisc} /\ k \in 0 .. MaxTrack + 1
  /\ cue \in [len : Nat, pos : Nat]
  /\ loads \in 0 .. MaxLoads
  /\ load \in [kind : Kinds \cup {"none"}, drive : Drives \cup {NoDrive}, result : BOOLEAN,
               clean : BOOLEAN, text : Nat, read : Nat]
  /\ before \in [num : 0 .. 255, table : [TrackNumbers -> Entry]]

\* A disc of one session.
OneSession(d) == d.a1 = Len(d.tracks)

\* The cue sheet fits the 107 bytes a track its buffer was given, whichever
\* entries were stale when its lines were written, on a disc of one session.
\* (The loop writes the tracks of all sessions, the buffer counts the first.)
CueFits == cue.len /= 0 /\ OneSession(source) => cue.pos < cue.len

\* The sheet that a load returns is all that was written: the size found by
\* seeking and the test for a short read leave none of it out.
CueReadWhole ==
  load.kind = "cue" /\ load.result /\ pc = "idle" /\ OneSession(source)
    => load.text <= load.read /\ load.text > 0

\* Whatever entries were there before, a load of a cue sheet in which no command
\* failed and no disc was changed leaves the entry of each track of the disc
\* with what the disc says: READ TRACK INFORMATION hides no trace of an earlier
\* disc in it.  The number of tracks is the disc's if its answer has a point
\* A1, else it is still that of an earlier load.
CleanLoadIsExact ==
  pc = "idle" /\ load.kind = "cue" /\ load.result /\ load.clean
    => /\ num = TrackCount(source, before.num) /\ timeouts = load.drive /\ drive = load.drive
       /\ \A t \in 1 .. Len(source.tracks) : table[t] = EntryOf(source, t)

\* A load is all or nothing: the one that returns false has left every entry
\* of the table as it was, whichever of its commands failed, and their number
\* unless that of the disc is of no use.
FailedLoadKeeps ==
  pc = "idle" /\ ~load.result /\ load.kind /= "none"
    => /\ table = before.table
       /\ num \in {before.num} \cup ({d.a1 : d \in Discs} \ ((1 .. 99) \cup {NoPoint}))

\* To everything that looks at the table between loads, a load changes it in
\* one step and from the discs alone, as TocTable says.
Settled(now, saved) == IF pc = "idle" THEN now ELSE saved
Table == INSTANCE TocTable
  WITH num <- Settled(num, before.num), table <- Settled(table, before.table)
ImplementsTable == Table!Spec
=============================================================================
