---------------------------- MODULE CdromCommand -----------------------------
(***************************************************************************)
(* One open drive handle and the SCSI command it is executing:             *)
(* cdrom_send_command, its caller cdrom_read, and the one-sector cache     *)
(* they keep in the handle.                                                *)
(*                                                                         *)
(* A call blocks its caller; between two ioctls the drive may do anything: *)
(* answer, report a sense key, fail without sense data, leave part of a    *)
(* sector behind, or hold another disc than before.  Each pass of the      *)
(* frame loop is a BeginFrame step followed by the outcome of the request. *)
(*                                                                         *)
(* Buffers are measured in units, SectorUnits to the raw sector of 2352    *)
(* bytes.  A unit of disc content is identified by the disc it came from   *)
(* and its absolute position there.                                        *)
(***************************************************************************)
EXTENDS Msf

CONSTANTS
  SectorUnits,   \* units in a raw sector (2352 bytes)
  MaxRetries,    \* CDROM_MAX_RETRIES
  MaxSwaps,      \* bound: how often the disc is changed
  SenseKeys,     \* the sense keys the drive reports
  Commands,      \* the commands other than READ CD MSF that callers send
  Reads          \* the reads callers ask for: [lba, len, skip]

ReadCd == "READ CD MSF"

\* cmd[0] of 0x00, 0x12, 0x5A, and 0x43 with cmd[2] = 4.
NeverRetried == {"TEST UNIT READY", "INQUIRY", "MODE SENSE", "READ ATIP"}

\* Sent with a null buffer.
NoData == {"TEST UNIT READY", "SET CD SPEED", "START STOP UNIT", "PREVENT ALLOW MEDIUM REMOVAL"}

OtherCommands == NeverRetried \cup NoData \cup {"READ TOC", "READ TRACK INFORMATION", "MODE SELECT"}

\* case labels 0, 2, 3, 4 and 6 of the switch on the sense key.
RetriableKeys == {0, 2, 3, 4, 6}

\* Mutant: the skipped bytes are forgotten.
FrameCountNoSkip(len, sk) == (len + SectorUnits - 1) \div SectorUnits

FrameCount(len, sk) == (len + sk + SectorUnits - 1) \div SectorUnits

ReadRequest == [lba : Nat, len : Nat, skip : 0 .. SectorUnits - 1]

\* Every sector of a read, and the end address after it, has an MSF address.
InReach(r) == r.lba + FrameCount(r.len, r.skip) < MsfLimit

ASSUME SectorAssumption == SectorUnits \in Nat \ {0}
ASSUME RetryAssumption  == MaxRetries \in Nat
ASSUME SwapAssumption   == MaxSwaps \in Nat
ASSUME SenseAssumption  == SenseKeys \subseteq 0 .. 15
ASSUME CommandAssumption == Commands \subseteq OtherCommands
ASSUME ReadsAssumption  == Reads \subseteq {r \in ReadRequest : InReach(r)}

VARIABLES
  media,        \* number of the disc in the drive
  cache,        \* last_frame, last_frame_lba and last_frame_valid of the handle
  pc,           \* where the call in progress is
  req,          \* its arguments
  cdb,          \* cmd[3..5] and cmd[6..8]
  i,            \* the frame being requested
  skip,         \* the local copy of the argument, cleared after frame 0
  copyLen,      \* copy_len
  copied,       \* copied_bytes
  xfer,         \* the padded transfer buffer
  xferPos,      \* xfer_buf_pos
  buf,          \* the caller's buffer
  retriesLeft,  \* retries_left, shared by all the frames of the call
  sense,        \* sense[2] & 0xF
  rv,           \* the status the call returns
  failed,       \* history: the frames given up on in this call
  attempts      \* history: the ioctls issued in this call

driveVars  == <<media, cache>>
loopVars   == <<i, cdb, skip, copyLen>>
bufferVars == <<copied, xfer, xferPos, buf>>
retryVars  == <<retriesLeft, sense, attempts>>
vars == <<driveVars, pc, req, loopVars, bufferVars, retryVars, rv, failed>>

-----------------------------------------------------------------------------
(* Content of a buffer unit.                                               *)

Content  == [kind : {"disc", "zero", "torn", "caller"}, media : Nat, at : Nat]
Disc(d, a) == [kind |-> "disc", media |-> d, at |-> a]
NoContent(k) == [kind |-> k, media |-> 0, at |-> 0]
Zero   == NoContent("zero")     \* memset or calloc
Torn   == NoContent("torn")     \* what a failed transfer left behind
Caller == NoContent("caller")   \* not written by the call

SectorIndex == 0 .. SectorUnits - 1

Sector(d, lba) == [o \in SectorIndex |-> Disc(d, lba * SectorUnits + o)]

\* The buffer b with the sector s stored at position p.
Store(b, p, s) == [k \in DOMAIN b |-> IF k \in p .. p + SectorUnits - 1 THEN s[k - p] ELSE b[k]]

IsRead == req.op = ReadCd
Frames == IF IsRead THEN FrameCount(req.len, req.skip) ELSE 1
PaddedUnits == SectorUnits * FrameCount(req.len, req.skip)

-----------------------------------------------------------------------------
(* Calls.                                                                  *)

Init ==
  /\ media = 0
  /\ cache = [valid |-> FALSE, lba |-> 0, data |-> [o \in SectorIndex |-> Zero]]
  /\ pc = "idle"
  /\ req = [op |-> "TEST UNIT READY", lba |-> 0, len |-> 0, skip |-> 0]
  /\ cdb = [start |-> LbaToMsf(0), end |-> LbaToMsf(0)]
  /\ i = 0 /\ skip = 0 /\ copyLen = 0 /\ copied = 0 /\ xferPos = 0
  /\ xfer = [k \in {} |-> Zero]
  /\ buf = [k \in {} |-> Caller]
  /\ retriesLeft = MaxRetries /\ sense = 0 /\ attempts = 0
  /\ rv = 0 /\ failed = {}

\* Entry of cdrom_send_command: fresh locals, the end address reset to the
\* start address.
Call(op, lba, len, sk) ==
  /\ pc = "idle" /\ pc' = "alloc"
  /\ req' = [op |-> op, lba |-> lba, len |-> len, skip |-> sk]
  /\ cdb' = [start |-> LbaToMsf(lba), end |-> LbaToMsf(lba)]
  /\ i' = 0 /\ skip' = sk /\ copyLen' = 0 /\ copied' = 0 /\ xferPos' = 0
  /\ xfer' = [k \in {} |-> Zero]
  /\ buf' = [k \in 0 .. len - 1 |-> Caller]
  /\ retriesLeft' = MaxRetries /\ sense' = 0 /\ attempts' = 0
  /\ rv' = 0 /\ failed' = {}
  /\ UNCHANGED driveVars

StartRead(lba, len, sk) == Call(ReadCd, lba, len, sk)

StartCommand(op) == Call(op, 0, 0, 0)

\* memalign_alloc and memset.  A read of nothing runs no pass of the loop.
Allocate ==
  /\ pc = "alloc"
  /\ xfer' = [k \in 0 .. PaddedUnits - 1 |-> Zero]
  /\ pc' = IF Frames = 0 THEN "return" ELSE IF IsRead THEN "frame" ELSE "drive"
  /\ UNCHANGED <<driveVars, req, loopVars, copied, xferPos, buf, retryVars, rv, failed>>

AllocationFails ==
  /\ pc = "alloc" /\ pc' = "return"
  /\ rv' = 1
  /\ UNCHANGED <<driveVars, req, loopVars, bufferVars, retryVars, failed>>

-----------------------------------------------------------------------------
(* The frame loop.                                                         *)

\* Mutant: every request asks for the first sector.
StartStuck == cdb.start

\* cmd[3..5] is the first sector of the read, then one further each pass.
StartOfFrame == IF i = 0 THEN cdb.start ELSE IncrementMsf(cdb.start)

\* Head of the loop of a read: advance the addresses, size the copy, look
\* the sector up in the cache.
BeginFrame ==
  /\ pc = "frame"
  /\ LET sk == IF i = 0 THEN skip ELSE 0
     IN  /\ cdb' = [start |-> StartOfFrame, end |-> IncrementMsf(cdb.end)]
         /\ skip' = sk
         /\ copyLen' = IF i = Frames - 1 THEN req.len - copied ELSE SectorUnits - sk
         /\ IF cache.valid /\ MsfToLba(StartOfFrame) = cache.lba
              THEN pc' = "cached" /\ xfer' = Store(xfer, xferPos, cache.data)
              ELSE pc' = "drive" /\ UNCHANGED xfer
  /\ UNCHANGED <<driveVars, req, i, copied, xferPos, buf, retryVars, rv, failed>>

EndFrame ==
  /\ i' = i + 1
  /\ pc' = IF i + 1 < Frames THEN "frame" ELSE "return"

\* Mutant: the copy starts at the head of the sector.
CopyOutNoSkip(x) ==
  /\ buf' = [k \in DOMAIN buf |-> IF k \in copied .. copied + copyLen - 1
                                    THEN x[xferPos + (k - copied)]
                                    ELSE buf[k]]
  /\ copied' = copied + copyLen
  /\ xferPos' = xferPos + SectorUnits

\* The memcpy into the caller's buffer, from the transfer buffer x.
CopyOut(x) ==
  /\ buf' = [k \in DOMAIN buf |-> IF k \in copied .. copied + copyLen - 1
                                    THEN x[xferPos + skip + (k - copied)]
                                    ELSE buf[k]]
  /\ copied' = copied + copyLen
  /\ xferPos' = xferPos + SectorUnits

\* A frame found in the cache; a hit spends the cached frame.
CachedFrame ==
  /\ pc = "cached"
  /\ CopyOut(xfer)
  /\ cache' = [cache EXCEPT !.valid = FALSE]
  /\ rv' = 0
  /\ EndFrame
  /\ UNCHANGED <<media, req, cdb, skip, copyLen, xfer, retryVars, failed>>

\* Mutant: a cached frame is kept when another one is read.
RememberFirst(s) ==
  IF cache.valid THEN cache ELSE [valid |-> TRUE, lba |-> MsfToLba(cdb.end) - 1, data |-> s]

\* The ending address is never read: the sector is the one before it.
Remember(s) == [valid |-> TRUE, lba |-> MsfToLba(cdb.end) - 1, data |-> s]

\* The history variable stops counting one above the bound it is there for.
CountAttempt == attempts' = IF attempts > Frames + MaxRetries THEN attempts ELSE attempts + 1

\* The drive delivers the sector, which becomes the cached frame.
DriveReads ==
  /\ pc = "drive" /\ IsRead
  /\ LET s == Sector(media, MsfToLba(cdb.start))
         x == Store(xfer, xferPos, s)
     IN  /\ xfer' = x
         /\ CopyOut(x)
         /\ cache' = Remember(s)
  /\ CountAttempt
  /\ rv' = 0
  /\ EndFrame
  /\ UNCHANGED <<media, req, cdb, skip, copyLen, retriesLeft, sense, failed>>

\* The drive carries out another command; one with a data phase ends the
\* life of the cached frame.
DriveAnswers ==
  /\ pc = "drive" /\ ~IsRead
  /\ cache' = [cache EXCEPT !.valid = cache.valid /\ req.op \in NoData]
  /\ CountAttempt
  /\ rv' = 0
  /\ EndFrame
  /\ UNCHANGED <<media, req, cdb, skip, copyLen, bufferVars, retriesLeft, sense, failed>>

\* Mutant: the counter is not consulted.
MayRetryAlways(key) == req.op \notin NeverRetried /\ key \in RetriableKeys

MayRetry(key) == req.op \notin NeverRetried /\ key \in RetriableKeys /\ retriesLeft > 0

\* What a failed request leaves in the sector it was to fill.
MayTear == xfer' \in {xfer, Store(xfer, xferPos, [o \in SectorIndex |-> Torn])}

\* Mutant: a retry costs nothing.
KeepRetries == UNCHANGED retriesLeft

SpendRetry == retriesLeft' = retriesLeft - 1

\* The request fails and is sent again after a second.  A failure without
\* sense data (the ioctl itself failing, a timeout) leaves the previous key.
DriveFailsRetry ==
  /\ pc = "drive"
  /\ sense' \in SenseKeys \cup {sense}
  /\ MayRetry(sense')
  /\ MayTear
  /\ CountAttempt
  /\ SpendRetry
  /\ UNCHANGED <<driveVars, pc, req, loopVars, copied, xferPos, buf, rv, failed>>

\* The request fails for good: the loop goes on with the next frame.
DriveFails ==
  /\ pc = "drive"
  /\ sense' \in SenseKeys \cup {sense}
  /\ ~MayRetry(sense')
  /\ MayTear
  /\ CountAttempt
  /\ rv' = 1
  /\ failed' = failed \cup {i}
  /\ EndFrame
  /\ UNCHANGED <<driveVars, req, cdb, skip, copyLen, copied, xferPos, buf, retriesLeft>>

\* The call returns; a failed read also drops the cached frame.
Return ==
  /\ pc = "return" /\ pc' = "idle"
  /\ cache' = [cache EXCEPT !.valid = cache.valid /\ ~(IsRead /\ rv /= 0)]
  /\ UNCHANGED <<media, req, loopVars, bufferVars, retryVars, rv, failed>>

\* The user changes the disc, at any moment.
SwapDisc ==
  /\ media < MaxSwaps
  /\ media' = media + 1
  /\ UNCHANGED <<cache, pc, req, loopVars, bufferVars, retryVars, rv, failed>>

InCall ==
  \/ Allocate
  \/ AllocationFails
  \/ BeginFrame
  \/ CachedFrame
  \/ DriveReads
  \/ DriveAnswers
  \/ DriveFailsRetry
  \/ DriveFails

Step == InCall \/ Return

Next ==
  \/ \E r \in Reads : StartRead(r.lba, r.len, r.skip)
  \/ \E op \in Commands : StartCommand(op)
  \/ Step
  \/ SwapDisc

Spec == Init /\ [][Next]_vars

\* The program runs on, and every ioctl ends: its timeout is 5000 ms.
FairSpec == Spec /\ WF_vars(Step)

-----------------------------------------------------------------------------
(* Properties.                                                             *)

CallState == {"idle", "alloc", "frame", "cached", "drive", "return"}

\* Every variable holds a value of its C type; in particular the unsigned
\* counters retries_left and copy_len never go below zero.
TypeOK ==
  /\ media \in 0 .. MaxSwaps
  /\ cache \in [valid : BOOLEAN, lba : Nat, data : [SectorIndex -> Content]]
  /\ pc \in CallState
  /\ req \in [op : OtherCommands \cup {ReadCd}, lba : Nat, len : Nat, skip : 0 .. SectorUnits - 1]
  /\ cdb \in [start : MSF, end : MSF]
  /\ i \in Nat /\ skip \in 0 .. SectorUnits - 1 /\ copyLen \in Nat
  /\ copied \in Nat /\ xferPos \in Nat
  /\ DOMAIN xfer \subseteq Nat /\ \A k \in DOMAIN xfer : xfer[k] \in Content
  /\ buf \in [0 .. req.len - 1 -> Content]
  /\ retriesLeft \in 0 .. MaxRetries /\ sense \in 0 .. 15 /\ attempts \in Nat
  /\ rv \in {0, 1} /\ failed \subseteq Nat

\* No memcpy and no transfer of the loop leaves its buffer, whichever frames
\* were skipped over as failed: the last frame copies len - copied_bytes, a
\* number that has grown by every sector that failed before it (lines 438-440,
\* 454 and 497 of cdrom.c).
NoOverrun ==
  pc \in {"cached", "drive"} /\ IsRead =>
    /\ xferPos + SectorUnits <= PaddedUnits
    /\ copied + copyLen <= req.len
    /\ xferPos + skip + copyLen <= PaddedUnits

\* The cached frame is the sector its label last_frame_lba names: the label
\* is derived from the end address, the data from the start address, and the
\* two are advanced by different statements, past retries, failed frames and
\* the carry into the second and the minute (lines 425, 430 and 500-509).
CacheLabel ==
  cache.valid => \A o \in SectorIndex : /\ cache.data[o].kind = "disc"
                                        /\ cache.data[o].at = cache.lba * SectorUnits + o

Delivered == pc = "return" /\ IsRead /\ rv = 0

\* A read none of whose frames was given up on fills the caller's buffer with
\* exactly the bytes asked for, whichever of them came from the cache.
CleanReadIsExact ==
  Delivered /\ failed = {} =>
    \A k \in DOMAIN buf : /\ buf[k].kind = "disc"
                          /\ buf[k].at = req.lba * SectorUnits + req.skip + k

\* Even when frames were given up on and a later one made the call succeed,
\* what the caller gets is disc content in ascending order, then zeros: never
\* the torn part of a failed transfer, never bytes the call did not write,
\* never a repetition.
DeliveredInOrder ==
  Delivered => \A k \in DOMAIN buf :
    /\ buf[k].kind \in {"disc", "zero"}
    /\ k > 0 /\ buf[k].kind = "disc" => buf[k - 1].kind = "disc" /\ buf[k - 1].at < buf[k].at

\* When the disc is changed around or during the call, content of the old
\* disc (from the cache or from before the change) never follows content of
\* the new one.
MediaOrder ==
  Delivered => \A k \in DOMAIN buf :
    k > 0 /\ buf[k].kind = "disc" => buf[k - 1].media <= buf[k].media /\ buf[k].media <= media

\* A call never issues more than one ioctl per frame plus MaxRetries, although
\* the retry loop is nested in the frame loop: with a timeout of 5 s each this
\* bounds how long the caller's frame can hang.
AttemptBound == attempts <= Frames + MaxRetries

\* Every call returns, whatever the drive answers.
CallReturns == pc /= "idle" ~> pc = "idle"
=============================================================================
