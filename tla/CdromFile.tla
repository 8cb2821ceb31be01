------------------------------ MODULE CdromFile ------------------------------
(***************************************************************************)
(* A track of the disc as a file: the "bin" half of the CD-ROM backend of  *)
(* the virtual file system, with the end-of-file flag of the file stream   *)
(* on top of it.  A read of the file is a call of cdrom_read, whose steps  *)
(* are those of CdromCommand.                                              *)
(***************************************************************************)
EXTENDS CdromCommand

INSTANCE TrackLayout

CONSTANTS
  Toc,           \* the table of contents: track number -> track
  ReadLens,      \* lengths the callers read
  SeekOffsets,   \* offsets the callers seek to
  MaxPos,        \* bound: the furthest position sought, either way
  Word           \* stands for 2^32, the range of an LBA

Whence == {"SEEK_SET", "SEEK_CUR", "SEEK_END"}

Tracks == DOMAIN Toc

\* Every sector of a track, and the one after it, has an MSF address.
ASSUME TocAssumption ==
  /\ Tracks \subseteq Nat
  /\ Toc \in [Tracks -> {t \in TrackRecord :
                        t.lbaStart <= t.lba /\ LbaLen(t) >= 0 /\ t.lba + LbaLen(t) < MsfLimit}]
ASSUME LensAssumption == ReadLens \subseteq Nat
ASSUME OffsetsAssumption == SeekOffsets \subseteq Int
ASSUME MaxPosAssumption == MaxPos \in Nat
ASSUME WordAssumption == Word \in Nat /\ Word >= MsfLimit

VARIABLES
  handle,    \* is the file open
  track,     \* cur_track
  bytePos,   \* byte_pos, in units
  curLba,    \* cur_lba
  eof,       \* eof_flag of the RFILE
  op,        \* the call the file is in: [kind, want, take]
  last       \* history: the last read of the file

fileVars == <<handle, track, bytePos, curLba, eof, op, last>>
allVars  == <<vars, fileVars>>

-----------------------------------------------------------------------------
(* Addresses.                                                              *)

\* The address a seek leaves behind went through MSF, as an unsigned number.
ThroughMsf(lba) == MsfToLba(LbaToMsf(lba % Word))

-----------------------------------------------------------------------------
(* Operations.                                                             *)

Idle == pc = "idle" /\ op.kind = "none"

\* What the history variable keeps of a read: if it returned anything, also the
\* position it was made at.
Outcome(ret, clean, error, data) ==
  [track |-> track, from |-> IF ret = 0 THEN 0 ELSE bytePos, ret |-> ret,
   clean |-> clean, error |-> error, data |-> [k \in 0 .. ret - 1 |-> data[k]]]

NoOp == [kind |-> "none", want |-> 0, take |-> 0]

FileInit ==
  /\ Init
  /\ handle = FALSE /\ track \in Tracks /\ bytePos = 0 /\ curLba = 0 /\ eof = FALSE
  /\ op = NoOp
  /\ last = Outcome(0, TRUE, FALSE, buf)

\* A new handle has an empty cache; after measuring the file by seeking to
\* its end, open seeks back to the start.
Open(t) ==
  /\ Idle /\ ~handle /\ handle' = TRUE
  /\ track' = t
  /\ bytePos' = 0
  /\ curLba' = ThroughMsf(LbaAt(Toc[t], 0))
  /\ eof' = FALSE
  /\ cache' = [valid |-> FALSE, lba |-> 0, data |-> [o \in SectorIndex |-> Zero]]
  /\ UNCHANGED <<media, pc, req, loopVars, bufferVars, retryVars, rv, failed, op, last>>

Close ==
  /\ Idle /\ handle /\ handle' = FALSE
  /\ UNCHANGED <<vars, track, bytePos, curLba, eof, op, last>>

\* Mutant: SEEK_CUR derives the address from the offset alone.
SeekLbaFromOffset(whence, off, pos) ==
  IF whence = "SEEK_END" THEN LbaLen(Toc[track]) + TruncDiv(off, SectorUnits)
                         ELSE LbaAt(Toc[track], off)

\* SEEK_END takes no account of the start of the track.
SeekLba(whence, off, pos) ==
  IF whence = "SEEK_END" THEN LbaLen(Toc[track]) + TruncDiv(off, SectorUnits)
                         ELSE LbaAt(Toc[track], pos)

\* SEEK_END ignores the offset in the position.  A position before the track is
\* accepted like any other.
Seek(whence, off) ==
  /\ Idle /\ handle
  /\ LET pos == CASE whence = "SEEK_SET" -> off
                  [] whence = "SEEK_CUR" -> bytePos + off
                  [] whence = "SEEK_END" -> TrackUnits(Toc[track])
         lba == SeekLba(whence, off, pos)
     IN  /\ pos \in -MaxPos .. MaxPos
         /\ bytePos' = pos
         /\ curLba' = ThroughMsf(lba)
  /\ eof' = FALSE
  /\ UNCHANGED <<vars, handle, track, op, last>>

\* A read at or beyond the end returns 0 without asking the drive.
ReadAtEnd(want) ==
  /\ Idle /\ handle
  /\ bytePos >= TrackUnits(Toc[track])
  /\ last' = Outcome(0, TRUE, FALSE, buf)
  /\ eof' = (eof \/ want > 0)
  /\ UNCHANGED <<vars, handle, track, bytePos, curLba, op>>

\* Mutant: the length is not cut at the end of the track.
TakeAll(want) == want

\* The length that fits the track.
Take(want) == IF bytePos + want > TrackUnits(Toc[track]) THEN TrackUnits(Toc[track]) - bytePos ELSE want

\* From before the track a read may wrap one of its unsigned numbers: the skip
\* (byte_pos % 2352 is negative), the end (byte_pos + len), or the minute.
Wraps(want) ==
  /\ bytePos < 0
  /\ \/ bytePos % SectorUnits /= 0
     \/ bytePos + want < 0
     \/ ~InReach([lba |-> curLba, len |-> Take(want), skip |-> 0])

\* Such a read is not followed further: it fails for want of an answer of the
\* drive, or copies outside its buffers, after which nothing is known.
ReadWraps(want) ==
  /\ Idle /\ handle
  /\ Wraps(want)
  /\ \/ /\ last' = Outcome(0, FALSE, TRUE, buf)
        /\ eof' = (eof \/ want > 0)
        /\ cache' = [cache EXCEPT !.valid = FALSE]
        /\ UNCHANGED op
     \/ op' = [NoOp EXCEPT !.kind = "lost"] /\ UNCHANGED <<cache, eof, last>>
  /\ UNCHANGED <<media, pc, req, loopVars, bufferVars, retryVars, rv, failed, handle, track, bytePos, curLba>>

Lost == op.kind = "lost" /\ UNCHANGED allVars

BeginRead(want) ==
  /\ Idle /\ handle
  /\ bytePos < TrackUnits(Toc[track]) /\ ~Wraps(want)
  /\ StartRead(curLba, Take(want), bytePos % SectorUnits)
  /\ op' = [kind |-> "read", want |-> want, take |-> Take(want)]
  /\ UNCHANGED <<handle, track, bytePos, curLba, eof, last>>

\* Mutant: the status of cdrom_read is not looked at.
ReturnedAnyway == op.take

Returned == IF rv = 0 THEN op.take ELSE 0

\* cdrom_read returns to the file.  A failure returns 0 and leaves the
\* position; the stream above takes any short count for the end of the file.
EndRead ==
  /\ op.kind = "read" /\ Return
  /\ bytePos' = bytePos + Returned
  /\ curLba' = IF rv = 0 THEN LbaAt(Toc[track], bytePos + Returned) ELSE curLba
  /\ eof' = (eof \/ Returned < op.want)
  /\ last' = Outcome(Returned, failed = {}, rv /= 0, buf)
  /\ op' = NoOp
  /\ UNCHANGED <<handle, track>>

\* Another command on the handle of a track, as cdrom_get_available_drives
\* (INQUIRY) and cdrom_drive_has_media (TEST UNIT READY) send on the one they open.
BeginCommand(c) ==
  /\ Idle /\ handle
  /\ StartCommand(c)
  /\ op' = [NoOp EXCEPT !.kind = "command"]
  /\ UNCHANGED <<handle, track, bytePos, curLba, eof, last>>

EndCommand ==
  /\ op.kind = "command" /\ Return
  /\ op' = NoOp
  /\ UNCHANGED <<handle, track, bytePos, curLba, eof, last>>

CallStep == InCall /\ UNCHANGED fileVars

FileStep == CallStep \/ EndRead \/ EndCommand

FileNext ==
  \/ \E t \in Tracks : Open(t)
  \/ Close
  \/ \E w \in Whence, off \in SeekOffsets : Seek(w, off)
  \/ \E n \in ReadLens : ReadAtEnd(n) \/ BeginRead(n) \/ ReadWraps(n)
  \/ Lost
  \/ \E c \in Commands : BeginCommand(c)
  \/ FileStep
  \/ SwapDisc /\ UNCHANGED fileVars

FileSpec == FileInit /\ [][FileNext]_allVars

-----------------------------------------------------------------------------
(* Properties.                                                             *)

FileTypeOK ==
  /\ TypeOK
  /\ handle \in BOOLEAN /\ track \in Tracks
  /\ bytePos \in Int /\ curLba \in Nat /\ eof \in BOOLEAN
  /\ op \in [kind : {"none", "read", "command", "lost"}, want : Nat, take : Nat]
  /\ last.from \in Int /\ last.ret \in Nat /\ last.clean \in BOOLEAN /\ last.error \in BOOLEAN

\* The two positions of an open file agree wherever a read would use them: the
\* sector comes from cur_lba and the offset in it from byte_pos, two fields
\* that open, three kinds of seek and the read assign by different formulas
\* (SEEK_END leaves cur_lba in no relation to the track).  Before the track they
\* do at the start of a sector of the disc; elsewhere the division of a negative
\* number rounds up, and they name neighbouring sectors.
SectorAt(t, pos) == Toc[t].lba + (pos \div SectorUnits)

PositionsAgree ==
  /\ handle /\ bytePos < TrackUnits(Toc[track])
  /\ bytePos < 0 => bytePos % SectorUnits = 0 /\ SectorAt(track, bytePos) >= 0
  => curLba = SectorAt(track, bytePos)

\* Whichever frames failed, a read delivers no content from before the sector
\* of its position and none from behind the track_bytes bytes of its track: made
\* at a position in the track, only the track's own.  (Made at one before the
\* track, which the seek accepts, it delivers what lies there.)
ReadWithinTrack ==
  LET first == SectorAt(last.track, last.from)
  IN  first >= 0 =>
        \A k \in DOMAIN last.data :
          last.data[k].kind = "disc" =>
            last.data[k].at \in first * SectorUnits
                              .. Toc[last.track].lba * SectorUnits + TrackUnits(Toc[last.track]) - 1

\* The file is a TrackReader: whatever the frames, retries, cache hits and
\* masked failures below it, a read is one step that moves the position by
\* what it returns and, when clean, returns the disc's content there.
Reader == INSTANCE TrackReader
  WITH Tracks <- Tracks, open <- handle, pos <- bytePos,
       First  <- [t \in Tracks |-> Toc[t].lba * SectorUnits],
       Length <- [t \in Tracks |-> TrackUnits(Toc[t])]
ImplementsReader == Reader!Spec

\* A read that returns a count has read that many bytes: none of its frames
\* was given up on.
CountMeansRead == last.ret > 0 => last.clean
=============================================================================
