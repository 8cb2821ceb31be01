------------------------- MODULE CdromCommandProofs --------------------------
(***************************************************************************)
(* Proofs about CdromCommand for every sector size, every number of        *)
(* retries, every set of reads and every behaviour of the drive.           *)
(*                                                                         *)
(* The argument is in layers.  BufferInv relates the three counters of the *)
(* frame loop: what the sectors moved through the transfer buffer and what *)
(* the caller received differ by the skipped bytes, unless frame 0 was     *)
(* given up on, and then a whole sector is missing instead.  It gives the  *)
(* buffer bounds, which the type invariant needs in turn (copy_len is      *)
(* unsigned).  AddressInv follows the two addresses through the loop.      *)
(***************************************************************************)
EXTENDS CdromCommand, MsfProofs

USE SectorAssumption

-----------------------------------------------------------------------------
(* Arithmetic.                                                             *)

LEMMA DivBounds ==
  ASSUME NEW a \in Nat, NEW b \in Nat \ {0}
  PROVE  /\ a \div b \in Nat
         /\ b * (a \div b) <= a
         /\ a < b * (a \div b) + b
OBVIOUS

LEMMA MultSucc ==
  ASSUME NEW a \in Int, NEW b \in Int
  PROVE  a * (b + 1) = a * b + a /\ a * (b - 1) = a * b - a
OBVIOUS

LEMMA MultMono ==
  ASSUME NEW a \in Nat, NEW b \in Int, NEW c \in Int, b <= c
  PROVE  a * b <= a * c
OBVIOUS

LEMMA FrameCountBounds ==
  ASSUME NEW len \in Nat, NEW sk \in 0 .. SectorUnits - 1
  PROVE  /\ FrameCount(len, sk) \in Nat
         /\ SectorUnits * FrameCount(len, sk) \in Nat
         /\ len + sk <= SectorUnits * FrameCount(len, sk)
         /\ SectorUnits * FrameCount(len, sk) < len + sk + SectorUnits
<1> DEFINE a == len + sk + SectorUnits - 1
<1>1. a \in Nat
  OBVIOUS
<1>2. /\ a \div SectorUnits \in Nat
      /\ SectorUnits * (a \div SectorUnits) <= a
      /\ a < SectorUnits * (a \div SectorUnits) + SectorUnits
  BY <1>1, DivBounds
<1>3. SectorUnits * (a \div SectorUnits) \in Nat
  BY <1>2
<1> HIDE DEF a
<1>4. FrameCount(len, sk) = a \div SectorUnits
  BY DEF FrameCount, a
<1> QED
  BY <1>2, <1>3, <1>4 DEF a

-----------------------------------------------------------------------------
(* The counters of the loop.                                               *)

BufferInv ==
  /\ pc = "alloc" => i = 0 /\ copied = 0 /\ xferPos = 0 /\ skip = req.skip
  /\ pc \in {"frame", "cached"} => IsRead
  /\ pc \in {"frame", "cached", "drive"} /\ IsRead =>
       /\ i < Frames
       /\ DOMAIN xfer = 0 .. PaddedUnits - 1
       /\ \/ i = 0 /\ copied = 0 /\ xferPos = 0
          \/ i > 0 /\ xferPos = copied + req.skip /\ xferPos <= SectorUnits * i
          \/ i > 0 /\ xferPos = copied /\ xferPos <= SectorUnits * (i - 1)
       /\ IF pc = "frame"
            THEN i = 0 => skip = req.skip
            ELSE /\ skip = (IF i = 0 THEN req.skip ELSE 0)
                 /\ copyLen = (IF i = Frames - 1 THEN req.len - copied ELSE SectorUnits - skip)

LoopInv == TypeOK /\ BufferInv

\* The bounds the code relies on, from the counters.
LEMMA BufferBounds ==
  ASSUME TypeOK, BufferInv, pc \in {"frame", "cached", "drive"}, IsRead
  PROVE  /\ xferPos + SectorUnits <= PaddedUnits
         /\ i = Frames - 1 => copied <= req.len
         /\ pc /= "frame" => /\ copied + copyLen <= req.len
                             /\ xferPos + skip + copyLen <= PaddedUnits
<1> DEFINE n == FrameCount(req.len, req.skip)
<1>1. /\ req.len \in Nat /\ req.skip \in 0 .. SectorUnits - 1
      /\ i \in Nat /\ copied \in Nat /\ xferPos \in Nat /\ copyLen \in Nat
  BY DEF TypeOK
<1>2. Frames = n /\ PaddedUnits = SectorUnits * n
  BY DEF Frames, PaddedUnits
<1>3. /\ n \in Nat /\ SectorUnits * n \in Nat
      /\ req.len + req.skip <= SectorUnits * n
      /\ SectorUnits * n < req.len + req.skip + SectorUnits
  BY <1>1, FrameCountBounds
<1>4. /\ SectorUnits * (i + 1) = SectorUnits * i + SectorUnits
      /\ SectorUnits * (i - 1) = SectorUnits * i - SectorUnits
      /\ SectorUnits * i \in Int
  BY <1>1, MultSucc
<1>5. i < n
  BY <1>2 DEF BufferInv
<1>6. /\ SectorUnits * (i + 1) <= SectorUnits * n
      /\ i /= n - 1 => SectorUnits * (i + 1) <= SectorUnits * n - SectorUnits
  <2>1. SectorUnits * (i + 1) <= SectorUnits * n
    BY <1>1, <1>3, <1>5, MultMono
  <2>2. CASE i /= n - 1
    <3>1. i + 1 <= n - 1
      BY <2>2, <1>1, <1>3, <1>5
    <3>2. SectorUnits * (i + 1) <= SectorUnits * (n - 1)
      BY <3>1, <1>1, <1>3, MultMono
    <3> QED
      BY <2>1, <3>2, <1>3, MultSucc
  <2> QED
    BY <2>1, <2>2
<1>7. i = n - 1 => SectorUnits * i = SectorUnits * n - SectorUnits
  BY <1>3, MultSucc
<1>8. i >= 1 => SectorUnits * 1 <= SectorUnits * i
  BY <1>1, MultMono
<1> HIDE DEF n
<1>9. xferPos + SectorUnits <= PaddedUnits
  BY <1>1, <1>2, <1>3, <1>4, <1>6 DEF BufferInv
<1>10. i = Frames - 1 => copied <= req.len
  BY <1>1, <1>2, <1>3, <1>4, <1>7 DEF BufferInv
<1>11. ASSUME pc /= "frame"
       PROVE  copied + copyLen <= req.len /\ xferPos + skip + copyLen <= PaddedUnits
  <2>1. CASE i = n - 1
    BY <2>1, <1>11, <1>1, <1>2, <1>3, <1>4, <1>7, SMTT(20) DEF BufferInv
  <2>2. CASE i /= n - 1
    <3>1. copyLen = SectorUnits - skip /\ skip = (IF i = 0 THEN req.skip ELSE 0)
      BY <2>2, <1>11, <1>2 DEF BufferInv
    <3>2. xferPos + skip + copyLen <= PaddedUnits
      BY <3>1, <1>1, <1>9
    <3>3. SectorUnits * i + SectorUnits < req.len + req.skip
      BY <2>2, <1>1, <1>3, <1>4, <1>6
    <3>4. CASE i = 0
      BY <3>1, <3>2, <3>3, <3>4, <1>1, <1>4 DEF BufferInv
    <3>5. CASE i > 0
      BY <3>1, <3>2, <3>3, <3>5, <1>1, <1>4 DEF BufferInv
    <3> QED
      BY <3>4, <3>5, <1>1
  <2> QED
    BY <2>1, <2>2
<1> QED
  BY <1>9, <1>10, <1>11

-----------------------------------------------------------------------------
(* Types of the helpers.                                                   *)

LEMMA ContentTypes ==
  /\ Zero \in Content /\ Torn \in Content /\ Caller \in Content
  /\ \A d, a \in Nat : Disc(d, a) \in Content
BY DEF Content, Zero, Torn, Caller, NoContent, Disc

LEMMA SectorType ==
  ASSUME NEW d \in Nat, NEW lba \in Nat
  PROVE  Sector(d, lba) \in [SectorIndex -> Content]
<1> SUFFICES ASSUME NEW o \in SectorIndex
             PROVE  Disc(d, lba * SectorUnits + o) \in Content
  BY DEF Sector
<1>1. lba * SectorUnits + o \in Nat
  BY DEF SectorIndex
<1> QED
  BY <1>1, ContentTypes

LEMMA StoreType ==
  ASSUME NEW b, DOMAIN b \subseteq Nat, \A k \in DOMAIN b : b[k] \in Content,
         NEW p \in Nat, NEW s \in [SectorIndex -> Content]
  PROVE  /\ DOMAIN Store(b, p, s) = DOMAIN b
         /\ \A k \in DOMAIN b : Store(b, p, s)[k] \in Content
BY DEF Store, SectorIndex

LEMMA CopyOutType ==
  ASSUME TypeOK, BufferInv, pc \in {"cached", "drive"}, IsRead,
         NEW x, DOMAIN x = 0 .. PaddedUnits - 1, \A k \in DOMAIN x : x[k] \in Content,
         CopyOut(x)
  PROVE  /\ buf' \in [0 .. req.len - 1 -> Content]
         /\ copied' \in Nat /\ xferPos' \in Nat
<1>1. /\ copied \in Nat /\ copyLen \in Nat /\ xferPos \in Nat /\ skip \in Nat /\ req.len \in Nat
      /\ buf \in [0 .. req.len - 1 -> Content]
  BY DEF TypeOK
<1>2. xferPos + skip + copyLen <= PaddedUnits
  BY BufferBounds
<1>3. copied' \in Nat /\ xferPos' \in Nat
  BY <1>1 DEF CopyOut
<1>4. ASSUME NEW k \in DOMAIN buf, k \in copied .. copied + copyLen - 1
      PROVE  x[xferPos + skip + (k - copied)] \in Content
  <2>1. PaddedUnits \in Int
    <3>1. req.len \in Nat /\ req.skip \in 0 .. SectorUnits - 1
      BY DEF TypeOK
    <3>2. SectorUnits * FrameCount(req.len, req.skip) \in Nat
      BY <3>1, FrameCountBounds
    <3> QED
      BY <3>2 DEF PaddedUnits
  <2>2. xferPos + skip + (k - copied) \in 0 .. PaddedUnits - 1
    BY <1>1, <1>2, <1>4, <2>1
  <2> QED
    BY <2>2
<1>5. buf' \in [0 .. req.len - 1 -> Content]
  BY <1>1, <1>4 DEF CopyOut
<1> QED
  BY <1>3, <1>5

-----------------------------------------------------------------------------
(* One pass of the loop and the counters.                                  *)

\* A frame that was delivered.
LEMMA DeliveredFrame ==
  ASSUME TypeOK, BufferInv, pc \in {"cached", "drive"}, IsRead,
         NEW x, CopyOut(x), EndFrame, req' = req, DOMAIN xfer' = DOMAIN xfer
  PROVE  BufferInv'
<1> SUFFICES ASSUME pc' = "frame"
             PROVE  BufferInv'
  BY DEF BufferInv, EndFrame
<1>1. /\ i' = i + 1 /\ i + 1 < Frames /\ IsRead' /\ Frames' = Frames /\ PaddedUnits' = PaddedUnits
      /\ i \in Nat /\ Frames \in Nat /\ copied \in Nat /\ xferPos \in Nat
      /\ req.skip \in 0 .. SectorUnits - 1
  BY FrameCountBounds DEF EndFrame, IsRead, Frames, PaddedUnits, TypeOK
<1>2. /\ copyLen = SectorUnits - skip /\ skip = (IF i = 0 THEN req.skip ELSE 0)
      /\ copied' = copied + copyLen /\ xferPos' = xferPos + SectorUnits
  BY <1>1 DEF BufferInv, CopyOut
<1>3. /\ SectorUnits * (i + 1) = SectorUnits * i + SectorUnits
      /\ SectorUnits * (i - 1) = SectorUnits * i - SectorUnits
      /\ SectorUnits * i \in Int
      /\ i = 0 => SectorUnits * i = 0
  BY <1>1, MultSucc
<1>4. \/ xferPos' = copied' + req.skip /\ xferPos' <= SectorUnits * i'
      \/ xferPos' = copied' /\ xferPos' <= SectorUnits * (i' - 1)
  <2>1. i' - 1 = i
    BY <1>1
  <2>2. CASE i = 0
    BY <2>1, <2>2, <1>1, <1>2, <1>3 DEF BufferInv
  <2>3. CASE i > 0
    BY <2>1, <2>3, <1>1, <1>2, <1>3 DEF BufferInv
  <2> QED
    BY <2>2, <2>3, <1>1
<1> QED
  BY <1>1, <1>4 DEF BufferInv

\* A frame that was given up on.
LEMMA FailedFrame ==
  ASSUME TypeOK, BufferInv, pc = "drive", EndFrame,
         UNCHANGED <<req, copied, xferPos>>, DOMAIN xfer' = DOMAIN xfer
  PROVE  BufferInv'
<1> SUFFICES ASSUME pc' = "frame"
             PROVE  BufferInv'
  BY DEF BufferInv, EndFrame
<1>0. IsRead
  BY DEF EndFrame, Frames, TypeOK
<1>1. /\ i' = i + 1 /\ i + 1 < Frames /\ IsRead' /\ Frames' = Frames /\ PaddedUnits' = PaddedUnits
      /\ i \in Nat /\ Frames \in Nat /\ copied \in Nat /\ xferPos \in Nat
      /\ req.skip \in 0 .. SectorUnits - 1
  BY <1>0, FrameCountBounds DEF EndFrame, IsRead, Frames, PaddedUnits, TypeOK
<1>2. /\ SectorUnits * (i + 1) = SectorUnits * i + SectorUnits
      /\ SectorUnits * (i - 1) = SectorUnits * i - SectorUnits
      /\ SectorUnits * i \in Int
      /\ i = 0 => SectorUnits * i = 0
  BY <1>1, MultSucc
<1>3. \/ xferPos' = copied' + req.skip /\ xferPos' <= SectorUnits * i'
      \/ xferPos' = copied' /\ xferPos' <= SectorUnits * (i' - 1)
  <2>1. i' - 1 = i /\ xferPos' = xferPos /\ copied' = copied
    BY <1>1
  <2> QED
    BY <2>1, <1>0, <1>1, <1>2 DEF BufferInv
<1> QED
  BY <1>0, <1>1, <1>3 DEF BufferInv

-----------------------------------------------------------------------------
(* Every step keeps the types and the counters.                            *)

LEMMA InitLoopInv == Init => LoopInv
<1> SUFFICES ASSUME Init
             PROVE  LoopInv
  OBVIOUS
<1>1. LbaToMsf(0) \in MSF
  BY LbaToMsfType
<1>2. TypeOK
  <2>1. /\ media \in 0 .. MaxSwaps /\ pc \in CallState /\ i \in Nat /\ copyLen \in Nat
        /\ skip \in 0 .. SectorUnits - 1 /\ copied \in Nat /\ xferPos \in Nat
        /\ retriesLeft \in 0 .. MaxRetries /\ sense \in 0 .. 15 /\ attempts \in Nat
        /\ rv \in {0, 1} /\ failed \subseteq Nat
    <3>1. /\ media = 0 /\ pc = "idle" /\ i = 0 /\ copyLen = 0 /\ skip = 0 /\ copied = 0
          /\ xferPos = 0 /\ retriesLeft = MaxRetries /\ sense = 0 /\ attempts = 0
          /\ rv = 0 /\ failed = {}
      BY DEF Init
    <3> QED
      BY <3>1, RetryAssumption, SwapAssumption DEF CallState
  <2>2. cache \in [valid : BOOLEAN, lba : Nat, data : [SectorIndex -> Content]]
    <3>1. [o \in SectorIndex |-> Zero] \in [SectorIndex -> Content]
      BY ContentTypes
    <3> QED
      BY <3>1 DEF Init
  <2>3. req \in [op : OtherCommands \cup {ReadCd}, lba : Nat, len : Nat, skip : 0 .. SectorUnits - 1]
    <3>1. "TEST UNIT READY" \in OtherCommands \cup {ReadCd}
      BY DEF OtherCommands, NoData
    <3>2. req = [op |-> "TEST UNIT READY", lba |-> 0, len |-> 0, skip |-> 0]
      BY DEF Init
    <3>3. 0 \in 0 .. SectorUnits - 1
      OBVIOUS
    <3> QED
      BY <3>1, <3>2, <3>3
  <2>4. cdb \in [start : MSF, end : MSF]
    <3>1. cdb = [start |-> LbaToMsf(0), end |-> LbaToMsf(0)]
      BY DEF Init
    <3> QED
      BY <1>1, <3>1
  <2>5. DOMAIN xfer = {} /\ DOMAIN buf = {} /\ req.len = 0
    BY DEF Init
  <2>6. buf \in [0 .. req.len - 1 -> Content]
    <3>1. 0 .. req.len - 1 = {}
      BY <2>5
    <3> QED
      BY <3>1 DEF Init
  <2> QED
    BY <2>1, <2>2, <2>3, <2>4, <2>5, <2>6 DEF TypeOK
<1>3. BufferInv
  BY DEF Init, BufferInv
<1> QED
  BY <1>2, <1>3 DEF LoopInv

LEMMA CallLoopInv ==
  ASSUME LoopInv, NEW o \in OtherCommands \cup {ReadCd},
         NEW lba \in Nat, NEW len \in Nat, NEW sk \in 0 .. SectorUnits - 1,
         Call(o, lba, len, sk)
  PROVE  LoopInv'
<1>1. LbaToMsf(lba) \in MSF
  BY LbaToMsfType
<1>2. TypeOK'
  BY <1>1, RetryAssumption, ContentTypes DEF LoopInv, TypeOK, Call, driveVars, CallState
<1>3. BufferInv'
  BY DEF Call, BufferInv
<1> QED
  BY <1>2, <1>3 DEF LoopInv

LEMMA AllocateLoopInv ==
  ASSUME LoopInv, Allocate \/ AllocationFails
  PROVE  LoopInv'
<1> USE DEF LoopInv
<1>1. CASE Allocate
  <2>1. /\ req.len \in Nat /\ req.skip \in 0 .. SectorUnits - 1
    BY DEF TypeOK
  <2>2. FrameCount(req.len, req.skip) \in Nat
    BY <2>1, FrameCountBounds
  <2>3. TypeOK'
    BY <1>1, ContentTypes
       DEF Allocate, TypeOK, driveVars, loopVars, retryVars, CallState
  <2>4. IsRead' = IsRead /\ Frames' = Frames /\ PaddedUnits' = PaddedUnits
    BY <1>1 DEF Allocate, IsRead, Frames, PaddedUnits
  <2>5. BufferInv'
    BY <1>1, <2>2, <2>4 DEF Allocate, BufferInv, Frames, loopVars
  <2> QED
    BY <2>3, <2>5
<1>2. CASE AllocationFails
  <2>1. TypeOK'
    BY <1>2 DEF AllocationFails, TypeOK, driveVars, loopVars, bufferVars, retryVars, CallState
  <2>2. BufferInv'
    BY <1>2 DEF AllocationFails, BufferInv
  <2> QED
    BY <2>1, <2>2
<1> QED
  BY <1>1, <1>2

LEMMA BeginFrameLoopInv ==
  ASSUME LoopInv, BeginFrame
  PROVE  LoopInv'
<1> USE DEF LoopInv
<1>0. IsRead
  BY DEF BeginFrame, BufferInv
<1>1. /\ cdb \in [start : MSF, end : MSF] /\ i \in Nat /\ copied \in Nat /\ xferPos \in Nat
      /\ req.len \in Nat /\ req.skip \in 0 .. SectorUnits - 1 /\ skip \in 0 .. SectorUnits - 1
      /\ cache.data \in [SectorIndex -> Content]
      /\ DOMAIN xfer \subseteq Nat /\ \A k \in DOMAIN xfer : xfer[k] \in Content
  BY DEF TypeOK
<1>2. StartOfFrame \in MSF /\ IncrementMsf(cdb.end) \in MSF
  BY <1>1, IncrementMsfType DEF StartOfFrame
<1>3. i = Frames - 1 => copied <= req.len
  BY <1>0, BufferBounds DEF BeginFrame
<1>4. copyLen' \in Nat /\ skip' \in 0 .. SectorUnits - 1
  BY <1>1, <1>3 DEF BeginFrame
<1>5. DOMAIN xfer' = DOMAIN xfer /\ \A k \in DOMAIN xfer : xfer'[k] \in Content
  BY <1>1, StoreType DEF BeginFrame
<1>6. TypeOK'
  <2>1. cdb' \in [start : MSF, end : MSF] /\ pc' \in CallState
    BY <1>2 DEF BeginFrame, CallState
  <2> QED
    BY <2>1, <1>1, <1>4, <1>5 DEF BeginFrame, TypeOK, driveVars, retryVars
<1>7. BufferInv'
  <2>1. IsRead' = IsRead /\ Frames' = Frames /\ PaddedUnits' = PaddedUnits
    BY DEF BeginFrame, IsRead, Frames, PaddedUnits
  <2> QED
    BY <2>1, <1>0, <1>1, <1>5 DEF BeginFrame, BufferInv
<1> QED
  BY <1>6, <1>7

\* What EndFrame leaves of the types.
LEMMA EndFrameType ==
  ASSUME TypeOK, EndFrame
  PROVE  i' \in Nat /\ pc' \in CallState
BY DEF EndFrame, TypeOK, CallState

LEMMA CountAttemptType ==
  ASSUME TypeOK, CountAttempt
  PROVE  attempts' \in Nat
BY DEF CountAttempt, TypeOK

LEMMA CachedFrameLoopInv ==
  ASSUME LoopInv, CachedFrame
  PROVE  LoopInv'
<1> USE DEF LoopInv
<1>1. pc = "cached" /\ IsRead
  BY DEF CachedFrame, BufferInv
<1>2. DOMAIN xfer = 0 .. PaddedUnits - 1 /\ \A k \in DOMAIN xfer : xfer[k] \in Content
  BY <1>1 DEF BufferInv, TypeOK
<1>3. /\ buf' \in [0 .. req.len - 1 -> Content]
      /\ copied' \in Nat /\ xferPos' \in Nat
  BY <1>1, <1>2, CopyOutType DEF CachedFrame
<1>4. i' \in Nat /\ pc' \in CallState
  BY EndFrameType DEF CachedFrame
<1>5. cache' \in [valid : BOOLEAN, lba : Nat, data : [SectorIndex -> Content]]
  BY DEF CachedFrame, TypeOK
<1>6. TypeOK'
  BY <1>3, <1>4, <1>5 DEF CachedFrame, TypeOK, retryVars
<1>7. BufferInv'
  BY <1>1, DeliveredFrame DEF CachedFrame
<1> QED
  BY <1>6, <1>7

LEMMA DriveReadsLoopInv ==
  ASSUME LoopInv, MsfToLba(cdb.start) \in Nat, MsfToLba(cdb.end) - 1 \in Nat, DriveReads
  PROVE  LoopInv'
<1> USE DEF LoopInv
<1> DEFINE s == Sector(media, MsfToLba(cdb.start))
           x == Store(xfer, xferPos, s)
<1>1. pc = "drive" /\ IsRead
  BY DEF DriveReads
<1>2. s \in [SectorIndex -> Content]
  BY SectorType, SwapAssumption DEF TypeOK
<1>3. DOMAIN xfer = 0 .. PaddedUnits - 1 /\ \A k \in DOMAIN xfer : xfer[k] \in Content
  BY <1>1 DEF BufferInv, TypeOK
<1>4. xferPos \in Nat /\ DOMAIN xfer \subseteq Nat
  BY DEF TypeOK
<1> HIDE DEF s
<1>5. DOMAIN x = 0 .. PaddedUnits - 1 /\ \A k \in DOMAIN x : x[k] \in Content
  BY <1>2, <1>3, <1>4, StoreType
<1>6. xfer' = x /\ CopyOut(x) /\ cache' = Remember(s)
  BY DEF DriveReads, s
<1> HIDE DEF x
<1>7. /\ buf' \in [0 .. req.len - 1 -> Content]
      /\ copied' \in Nat /\ xferPos' \in Nat
  BY <1>1, <1>5, <1>6, CopyOutType
<1>8. i' \in Nat /\ pc' \in CallState /\ attempts' \in Nat
  BY EndFrameType, CountAttemptType DEF DriveReads
<1>9. cache' \in [valid : BOOLEAN, lba : Nat, data : [SectorIndex -> Content]]
  BY <1>2, <1>6 DEF Remember
<1>10. TypeOK'
  BY <1>3, <1>4, <1>5, <1>6, <1>7, <1>8, <1>9 DEF DriveReads, TypeOK
<1>11. BufferInv'
  BY <1>1, <1>3, <1>5, <1>6, DeliveredFrame DEF DriveReads
<1> QED
  BY <1>10, <1>11

LEMMA DriveAnswersLoopInv ==
  ASSUME LoopInv, DriveAnswers
  PROVE  LoopInv'
<1> USE DEF LoopInv
<1>1. i' \in Nat /\ pc' \in CallState /\ attempts' \in Nat
  BY EndFrameType, CountAttemptType DEF DriveAnswers
<1>2. cache' \in [valid : BOOLEAN, lba : Nat, data : [SectorIndex -> Content]]
  BY DEF DriveAnswers, TypeOK
<1>3. TypeOK'
  BY <1>1, <1>2 DEF DriveAnswers, TypeOK, bufferVars
<1>4. pc' = "return"
  BY DEF DriveAnswers, EndFrame, Frames, TypeOK
<1>5. BufferInv'
  BY <1>4 DEF BufferInv
<1> QED
  BY <1>3, <1>5

\* What a failed request leaves behind has the shape of the buffer.
LEMMA MayTearType ==
  ASSUME TypeOK, MayTear
  PROVE  DOMAIN xfer' = DOMAIN xfer /\ \A k \in DOMAIN xfer' : xfer'[k] \in Content
<1>1. [o \in SectorIndex |-> Torn] \in [SectorIndex -> Content]
  BY ContentTypes
<1>2. xferPos \in Nat /\ DOMAIN xfer \subseteq Nat /\ \A k \in DOMAIN xfer : xfer[k] \in Content
  BY DEF TypeOK
<1> DEFINE t == Store(xfer, xferPos, [o \in SectorIndex |-> Torn])
<1>3. DOMAIN t = DOMAIN xfer /\ \A k \in DOMAIN xfer : t[k] \in Content
  BY <1>1, <1>2, StoreType
<1>4. xfer' = xfer \/ xfer' = t
  BY DEF MayTear
<1> HIDE DEF t
<1> QED
  BY <1>2, <1>3, <1>4

LEMMA DriveFailsLoopInv ==
  ASSUME LoopInv, DriveFailsRetry \/ DriveFails
  PROVE  LoopInv'
<1> USE DEF LoopInv
<1>1. /\ DOMAIN xfer' = DOMAIN xfer /\ (\A k \in DOMAIN xfer' : xfer'[k] \in Content)
      /\ attempts' \in Nat
  BY MayTearType, CountAttemptType DEF DriveFailsRetry, DriveFails
<1>2. sense' \in 0 .. 15
  BY SenseAssumption DEF DriveFailsRetry, DriveFails, TypeOK
<1>3. CASE DriveFailsRetry
  <2>1. retriesLeft' \in 0 .. MaxRetries
    BY <1>3, RetryAssumption DEF DriveFailsRetry, MayRetry, SpendRetry, TypeOK
  <2>2. TypeOK'
    BY <1>1, <1>2, <1>3, <2>1 DEF DriveFailsRetry, TypeOK, driveVars, loopVars
  <2>3. IsRead' = IsRead /\ Frames' = Frames /\ PaddedUnits' = PaddedUnits
    BY <1>3 DEF DriveFailsRetry, IsRead, Frames, PaddedUnits
  <2>4. BufferInv'
    BY <1>1, <1>3, <2>3 DEF DriveFailsRetry, BufferInv, loopVars
  <2> QED
    BY <2>2, <2>4
<1>4. CASE DriveFails
  <2>1. i' \in Nat /\ pc' \in CallState /\ failed' \subseteq Nat /\ rv' \in {0, 1}
    BY <1>4, EndFrameType DEF DriveFails, TypeOK
  <2>2. TypeOK'
    BY <1>1, <1>2, <1>4, <2>1 DEF DriveFails, TypeOK, driveVars
  <2>3. BufferInv'
    BY <1>1, <1>4, FailedFrame DEF DriveFails
  <2> QED
    BY <2>2, <2>3
<1> QED
  BY <1>3, <1>4

LEMMA ReturnLoopInv ==
  ASSUME LoopInv, Return
  PROVE  LoopInv'
<1> USE DEF LoopInv
<1>1. cache' \in [valid : BOOLEAN, lba : Nat, data : [SectorIndex -> Content]]
  BY DEF Return, TypeOK
<1>2. TypeOK'
  BY <1>1 DEF Return, TypeOK, CallState, loopVars, bufferVars, retryVars
<1>3. BufferInv'
  BY DEF Return, BufferInv
<1> QED
  BY <1>2, <1>3

LEMMA SwapDiscLoopInv ==
  ASSUME LoopInv, SwapDisc \/ UNCHANGED vars
  PROVE  LoopInv'
<1> USE DEF LoopInv
<1>1. media' \in 0 .. MaxSwaps
  BY SwapAssumption DEF SwapDisc, TypeOK, vars, driveVars
<1>2. UNCHANGED <<cache, pc, req, loopVars, bufferVars, retryVars, rv, failed>>
  BY DEF SwapDisc, vars, driveVars
<1>3. TypeOK'
  BY <1>1, <1>2 DEF TypeOK, loopVars, bufferVars, retryVars
<1>4. BufferInv'
  BY <1>2 DEF BufferInv, loopVars, bufferVars, IsRead, Frames, PaddedUnits
<1> QED
  BY <1>3, <1>4

-----------------------------------------------------------------------------
(* The addresses and the cached frame.                                     *)

AddressInv ==
  /\ IsRead => InReach(req)
  /\ pc = "alloc" => MsfToLba(cdb.end) = MsfToLba(cdb.start)
  /\ pc = "alloc" /\ IsRead => MsfToLba(cdb.start) = req.lba
  /\ pc = "frame" => /\ MsfToLba(cdb.start) = (IF i = 0 THEN req.lba ELSE req.lba + i - 1)
                     /\ MsfToLba(cdb.end) = req.lba + i
  /\ pc \in {"cached", "drive"} /\ IsRead => /\ MsfToLba(cdb.start) = req.lba + i
                                             /\ MsfToLba(cdb.end) = req.lba + i + 1

IInv == LoopInv /\ AddressInv /\ CacheLabel

LEMMA AddressIsNat ==
  ASSUME TypeOK, AddressInv, pc = "drive", IsRead
  PROVE  MsfToLba(cdb.start) \in Nat /\ MsfToLba(cdb.end) - 1 = MsfToLba(cdb.start)
BY DEF TypeOK, AddressInv

\* The head of the loop moves both addresses to the frame.
LEMMA BeginFrameAddress ==
  ASSUME LoopInv, AddressInv, BeginFrame
  PROVE  AddressInv'
<1> USE DEF LoopInv
<1>1. IsRead /\ pc = "frame" /\ i < Frames /\ Frames = FrameCount(req.len, req.skip)
  BY DEF BeginFrame, BufferInv, Frames
<1>2. /\ req.lba \in Nat /\ i \in Nat /\ cdb.start \in MSF /\ cdb.end \in MSF
      /\ FrameCount(req.len, req.skip) \in Nat
  BY FrameCountBounds DEF TypeOK
<1>3. req.lba + Frames < MsfLimit /\ MsfLimit \in Int
  BY <1>1 DEF AddressInv, InReach, MsfLimit, FramesPerMin, FramesPerSec, SecsPerMin, ByteMod
<1>4. MsfToLba(IncrementMsf(cdb.end)) = req.lba + i + 1
  <2>1. MsfToLba(cdb.end) = req.lba + i
    BY <1>1 DEF AddressInv
  <2>2. MsfToLba(cdb.end) + 1 < MsfLimit
    BY <2>1, <1>1, <1>2, <1>3
  <2> QED
    BY <2>1, <2>2, <1>2, IncrementIsSuccessor
<1>5. MsfToLba(StartOfFrame) = req.lba + i
  <2>1. CASE i = 0
    BY <2>1, <1>1, <1>2 DEF StartOfFrame, AddressInv
  <2>2. CASE i /= 0
    <3>1. MsfToLba(cdb.start) = req.lba + i - 1
      BY <2>2, <1>1 DEF AddressInv
    <3>2. MsfToLba(cdb.start) + 1 < MsfLimit
      BY <3>1, <1>1, <1>2, <1>3
    <3> QED
      BY <2>2, <3>1, <3>2, <1>2, IncrementIsSuccessor DEF StartOfFrame
  <2> QED
    BY <2>1, <2>2
<1>6. /\ cdb'.start = StartOfFrame /\ cdb'.end = IncrementMsf(cdb.end)
      /\ req' = req /\ i' = i /\ IsRead' /\ pc' \in {"cached", "drive"}
  BY <1>1 DEF BeginFrame, IsRead
<1> QED
  BY <1>1, <1>4, <1>5, <1>6 DEF AddressInv, InReach

\* The end of a pass leaves them one frame behind the counter.
LEMMA EndFrameAddress ==
  ASSUME LoopInv, AddressInv, pc \in {"cached", "drive"}, EndFrame, UNCHANGED <<req, cdb>>
  PROVE  AddressInv'
<1> USE DEF LoopInv
<1>1. /\ IsRead' = IsRead /\ Frames' = Frames /\ i' = i + 1 /\ i \in Nat
      /\ pc' \in {"frame", "return"} /\ req.lba \in Nat
  BY DEF EndFrame, IsRead, Frames, TypeOK
<1>2. pc' = "frame" => IsRead
  BY <1>1 DEF EndFrame, Frames
<1> QED
  BY <1>1, <1>2 DEF AddressInv, InReach

LEMMA CallAddress ==
  ASSUME NEW lba \in Nat, NEW len \in Nat, NEW sk \in 0 .. SectorUnits - 1, NEW o,
         o = ReadCd => lba + FrameCount(len, sk) < MsfLimit,
         Call(o, lba, len, sk)
  PROVE  AddressInv'
<1>1. /\ req'.op = o /\ req'.lba = lba /\ req'.len = len /\ req'.skip = sk /\ pc' = "alloc"
      /\ cdb'.start = LbaToMsf(lba) /\ cdb'.end = LbaToMsf(lba)
  BY DEF Call
<1>2. IsRead' => InReach(req)' /\ MsfToLba(cdb'.start) = lba
  <2>1. SUFFICES ASSUME IsRead'
                 PROVE  InReach(req)' /\ MsfToLba(cdb'.start) = lba
    OBVIOUS
  <2>2. lba + FrameCount(len, sk) < MsfLimit
    BY <1>1, <2>1 DEF IsRead
  <2>3. FrameCount(len, sk) \in Nat /\ MsfLimit \in Int
    BY FrameCountBounds, MsfLimitInt
  <2>4. lba < MsfLimit
    BY <2>2, <2>3
  <2>5. MsfToLba(LbaToMsf(lba)) = lba
    BY <2>4, MsfRoundTrip
  <2> QED
    BY <1>1, <2>2, <2>5 DEF InReach
<1> QED
  BY <1>1, <1>2 DEF AddressInv

\* Every step keeps the addresses.
LEMMA AddressStep ==
  ASSUME LoopInv, AddressInv, [Next]_vars
  PROVE  AddressInv'
<1> USE DEF LoopInv
<1>1. ASSUME NEW r \in Reads, StartRead(r.lba, r.len, r.skip)
      PROVE  AddressInv'
  <2>1. /\ r.lba \in Nat /\ r.len \in Nat /\ r.skip \in 0 .. SectorUnits - 1
        /\ r.lba + FrameCount(r.len, r.skip) < MsfLimit
    BY ReadsAssumption DEF ReadRequest, InReach
  <2> QED
    BY <2>1, <1>1, CallAddress DEF StartRead
<1>2. ASSUME NEW o \in Commands, StartCommand(o)
      PROVE  AddressInv'
  <2>1. o /= ReadCd
    BY CommandAssumption DEF OtherCommands, NeverRetried, NoData, ReadCd
  <2> QED
    BY <2>1, <1>2, CallAddress DEF StartCommand
<1>3. CASE Allocate
  <2>1. UNCHANGED <<req, cdb, i>> /\ pc = "alloc" /\ pc' \in {"return", "frame", "drive"}
    BY <1>3 DEF Allocate, loopVars
  <2>2. i = 0 /\ req.lba \in Nat
    BY <2>1 DEF BufferInv, TypeOK
  <2>3. (pc' = "frame" => IsRead) /\ (pc' = "drive" => ~IsRead) /\ IsRead' = IsRead
    BY <1>3, <2>1 DEF Allocate, IsRead
  <2> QED
    BY <2>1, <2>2, <2>3 DEF AddressInv, InReach
<1>4. CASE AllocationFails
  BY <1>4 DEF AllocationFails, AddressInv, InReach, IsRead, loopVars
<1>5. CASE BeginFrame
  BY <1>5, BeginFrameAddress
<1>6. CASE CachedFrame
  BY <1>6, EndFrameAddress DEF CachedFrame
<1>7. CASE DriveReads
  BY <1>7, EndFrameAddress DEF DriveReads
<1>8. CASE DriveAnswers
  BY <1>8, EndFrameAddress DEF DriveAnswers
<1>9. CASE DriveFailsRetry
  BY <1>9 DEF DriveFailsRetry, AddressInv, InReach, IsRead, loopVars
<1>10. CASE DriveFails
  BY <1>10, EndFrameAddress DEF DriveFails
<1>11. CASE Return
  BY <1>11 DEF Return, AddressInv, InReach, IsRead, loopVars
<1>12. CASE SwapDisc
  BY <1>12 DEF SwapDisc, AddressInv, InReach, IsRead, loopVars
<1>13. CASE UNCHANGED vars
  BY <1>13 DEF vars, AddressInv, InReach, IsRead, loopVars
<1> QED
  BY <1>1, <1>2, <1>3, <1>4, <1>5, <1>6, <1>7, <1>8, <1>9, <1>10, <1>11, <1>12, <1>13
     DEF Next, Step, InCall

\* Every step keeps the types and the counters.
LEMMA LoopStep ==
  ASSUME LoopInv, AddressInv, [Next]_vars
  PROVE  LoopInv'
<1>1. ASSUME NEW r \in Reads, StartRead(r.lba, r.len, r.skip)
      PROVE  LoopInv'
  <2>1. r.lba \in Nat /\ r.len \in Nat /\ r.skip \in 0 .. SectorUnits - 1
    BY ReadsAssumption DEF ReadRequest
  <2> QED
    BY <2>1, <1>1, CallLoopInv DEF StartRead
<1>2. ASSUME NEW o \in Commands, StartCommand(o)
      PROVE  LoopInv'
  <2>1. o \in OtherCommands \cup {ReadCd} /\ 0 \in 0 .. SectorUnits - 1
    BY CommandAssumption
  <2> QED
    BY <2>1, <1>2, CallLoopInv DEF StartCommand
<1>3. CASE DriveReads
  <2>1. MsfToLba(cdb.start) \in Nat /\ MsfToLba(cdb.end) - 1 \in Nat
    BY <1>3, AddressIsNat DEF DriveReads, LoopInv
  <2> QED
    BY <1>3, <2>1, DriveReadsLoopInv
<1> QED
  BY <1>1, <1>2, <1>3, AllocateLoopInv, BeginFrameLoopInv, CachedFrameLoopInv, DriveAnswersLoopInv,
     DriveFailsLoopInv, ReturnLoopInv, SwapDiscLoopInv
     DEF Next, Step, InCall

\* Every step keeps the label of the cached frame true.
LEMMA CacheStep ==
  ASSUME IInv, [Next]_vars
  PROVE  CacheLabel'
<1> USE DEF IInv, LoopInv
<1>1. CASE DriveReads
  <2> DEFINE s == Sector(media, MsfToLba(cdb.start))
  <2>1. cache' = Remember(s)
    BY <1>1 DEF DriveReads
  <2>2. cache'.lba = MsfToLba(cdb.start) /\ cache'.data = s
    BY <1>1, <2>1, AddressIsNat DEF Remember, DriveReads
  <2>3. ASSUME NEW o \in SectorIndex
        PROVE  s[o].kind = "disc" /\ s[o].at = MsfToLba(cdb.start) * SectorUnits + o
    BY DEF Sector, Disc
  <2> QED
    BY <2>2, <2>3 DEF CacheLabel
<1>2. CASE cache'.lba = cache.lba /\ cache'.data = cache.data /\ (cache'.valid => cache.valid)
  BY <1>2 DEF CacheLabel
<1>3. CASE UNCHANGED cache
  BY <1>3 DEF CacheLabel
<1>4. CASE CachedFrame \/ DriveAnswers \/ Return
  <2>1. cache'.lba = cache.lba /\ cache'.data = cache.data /\ (cache'.valid => cache.valid)
    BY <1>4 DEF CachedFrame, DriveAnswers, Return, TypeOK
  <2> QED
    BY <2>1, <1>2
<1> QED
  BY <1>1, <1>3, <1>4
     DEF Next, Step, InCall, StartRead, StartCommand, Call, Allocate, AllocationFails, BeginFrame,
         DriveFailsRetry, DriveFails, SwapDisc, vars, driveVars

LEMMA InitIInv == Init => IInv
<1> SUFFICES ASSUME Init
             PROVE  IInv
  OBVIOUS
<1>1. LoopInv
  BY InitLoopInv
<1>2. AddressInv
  BY DEF Init, AddressInv, IsRead, ReadCd
<1>3. CacheLabel
  BY DEF Init, CacheLabel
<1> QED
  BY <1>1, <1>2, <1>3 DEF IInv

LEMMA StepIInv == IInv /\ [Next]_vars => IInv'
BY LoopStep, AddressStep, CacheStep DEF IInv

THEOREM Invariance == Spec => []IInv
BY InitIInv, StepIInv, PTL DEF Spec

THEOREM TypeCorrect == Spec => []TypeOK
<1>1. IInv => TypeOK
  BY DEF IInv, LoopInv
<1> QED
  BY <1>1, Invariance, PTL

THEOREM NoOverrunHolds == Spec => []NoOverrun
<1>1. IInv => NoOverrun
  BY BufferBounds DEF IInv, LoopInv, NoOverrun
<1> QED
  BY <1>1, Invariance, PTL

THEOREM CacheLabelHolds == Spec => []CacheLabel
<1>1. IInv => CacheLabel
  BY DEF IInv
<1> QED
  BY <1>1, Invariance, PTL
=============================================================================
