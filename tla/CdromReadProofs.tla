--------------------------- MODULE CdromReadProofs ---------------------------
(***************************************************************************)
(* What a read delivers and what it costs, for every sector size, number   *)
(* of retries, read and behaviour of the drive.                            *)
(*                                                                         *)
(* AttemptInv: an ioctl is paid for by a frame that ends or by a retry, so *)
(* ioctls issued plus retries left never exceed frames ended plus the      *)
(* initial budget.  ContentInv: as long as no frame was given up on, the   *)
(* counters are functions of the frame number and the part of the buffer   *)
(* below copied_bytes is exact.  TailInv, RangeInv and OrderInv say what   *)
(* is in the two buffers when frames were given up on, and MediaInv which  *)
(* disc it is from: a sector from the cache is never delivered after one   *)
(* from the drive.                                                         *)
(***************************************************************************)
EXTENDS CdromCommandProofs

USE SectorAssumption

InLoop == pc \in {"frame", "cached", "drive"}

-----------------------------------------------------------------------------
(* The number of ioctls.                                                   *)

AttemptInv ==
  /\ pc = "alloc" => attempts = 0 /\ retriesLeft = MaxRetries
  /\ InLoop => i < Frames /\ attempts + retriesLeft <= i + MaxRetries
  /\ AttemptBound

LEMMA FramesType ==
  ASSUME TypeOK
  PROVE  Frames \in Nat
BY FrameCountBounds DEF TypeOK, Frames

\* The end of a pass that issued one ioctl, or none.
LEMMA EndFrameAttempts ==
  ASSUME TypeOK, AttemptInv, InLoop, EndFrame, UNCHANGED <<req, retriesLeft>>,
         CountAttempt \/ UNCHANGED attempts
  PROVE  AttemptInv'
<1>1. Frames' = Frames /\ Frames \in Nat
  BY FramesType DEF Frames, IsRead
<1>2. /\ i \in Nat /\ attempts \in Nat /\ retriesLeft \in Nat /\ MaxRetries \in Nat
      /\ attempts' \in {attempts, attempts + 1}
  BY RetryAssumption DEF TypeOK, CountAttempt
<1>3. i' = i + 1 /\ pc' \in {"frame", "return"} /\ (pc' = "frame" => i + 1 < Frames)
  BY DEF EndFrame
<1>4. i < Frames /\ attempts + retriesLeft <= i + MaxRetries
  BY DEF AttemptInv
<1>5. attempts' + retriesLeft' <= i' + MaxRetries /\ attempts' <= Frames' + MaxRetries
  <2> DEFINE a == attempts'
  <2>1. a <= attempts + 1 /\ a \in Nat /\ retriesLeft' = retriesLeft
    BY <1>2
  <2> HIDE DEF a
  <2>2. a <= Frames + MaxRetries /\ a + retriesLeft <= (i + 1) + MaxRetries
    BY <2>1, <1>1, <1>2, <1>4
  <2> QED
    BY <2>1, <2>2, <1>1, <1>3 DEF a
<1>6. InLoop' => i' < Frames'
  BY <1>1, <1>3 DEF InLoop
<1> QED
  BY <1>3, <1>5, <1>6 DEF AttemptInv, AttemptBound

LEMMA AttemptStep ==
  ASSUME IInv, IInv', AttemptInv, [Next]_vars
  PROVE  AttemptInv'
<1> USE DEF IInv, LoopInv
<1>0. /\ i \in Nat /\ attempts \in Nat /\ retriesLeft \in Nat /\ MaxRetries \in Nat
      /\ Frames \in Nat
  <2>1. Frames \in Nat
    BY FramesType
  <2> QED
    BY <2>1, RetryAssumption DEF TypeOK
<1>1. CASE pc' = "alloc" /\ attempts' = 0 /\ retriesLeft' = MaxRetries
  <2> DEFINE n == Frames'
  <2>1. n \in Nat
    BY FrameCountBounds DEF TypeOK, Frames
  <2> HIDE DEF n
  <2>2. attempts' <= n + MaxRetries
    BY <1>0, <1>1, <2>1
  <2> QED
    BY <1>1, <2>2 DEF n, AttemptInv, AttemptBound, InLoop
<1>2. CASE (\E r \in Reads : StartRead(r.lba, r.len, r.skip)) \/ (\E o \in Commands : StartCommand(o))
  BY <1>1, <1>2 DEF StartRead, StartCommand, Call
<1>3. CASE Allocate
  <2>1. UNCHANGED <<req, i, attempts, retriesLeft>> /\ pc = "alloc" /\ i = 0
    BY <1>3 DEF Allocate, loopVars, retryVars, BufferInv
  <2>2. Frames' = Frames /\ (pc' /= "return" => Frames /= 0)
    BY <1>3, <2>1 DEF Allocate, Frames, IsRead
  <2> QED
    BY <1>0, <2>1, <2>2 DEF AttemptInv, AttemptBound, InLoop
<1>4. CASE DriveFailsRetry
  <2>1. /\ pc = "drive" /\ UNCHANGED <<req, i, pc>> /\ Frames' = Frames
        /\ attempts' \in {attempts, attempts + 1} /\ retriesLeft' = retriesLeft - 1
    BY <1>4 DEF DriveFailsRetry, loopVars, CountAttempt, SpendRetry, Frames, IsRead
  <2>2. i < Frames /\ attempts + retriesLeft <= i + MaxRetries
    BY <2>1 DEF AttemptInv, InLoop
  <2>3. retriesLeft > 0
    BY <1>4 DEF DriveFailsRetry, MayRetry
  <2> DEFINE a == attempts'
  <2>4. a <= attempts + 1 /\ a \in Nat
    BY <1>0, <2>1
  <2> HIDE DEF a
  <2>5. a + (retriesLeft - 1) <= i + MaxRetries /\ a <= Frames + MaxRetries
    BY <1>0, <2>2, <2>3, <2>4
  <2> QED
    BY <2>1, <2>2, <2>5 DEF a, AttemptInv, AttemptBound
<1>5. CASE CachedFrame \/ DriveReads \/ DriveAnswers \/ DriveFails
  BY <1>5, EndFrameAttempts DEF CachedFrame, DriveReads, DriveAnswers, DriveFails, InLoop, retryVars
<1>6. CASE /\ UNCHANGED <<req, i, attempts, retriesLeft>>
           /\ pc' \in {pc, "return", "idle"} \/ (InLoop /\ InLoop')
  <2>1. Frames' = Frames
    BY <1>6 DEF Frames, IsRead
  <2> QED
    BY <1>6, <2>1 DEF AttemptInv, AttemptBound, InLoop
<1>7. CASE AllocationFails \/ BeginFrame \/ Return \/ SwapDisc \/ UNCHANGED vars
  BY <1>6, <1>7
     DEF AllocationFails, BeginFrame, Return, SwapDisc, vars, loopVars, retryVars, InLoop
<1> QED
  BY <1>2, <1>3, <1>4, <1>5, <1>7 DEF Next, Step, InCall

\* A call issues at most one ioctl per frame plus MaxRetries: the retry label
\* inside the frame loop of cdrom_send_command never multiplies the two.
THEOREM AttemptBoundHolds == Spec => []AttemptBound
<1>1. ASSUME Init
      PROVE  AttemptInv
  <2>1. pc = "idle" /\ attempts = 0
    BY <1>1 DEF Init
  <2>2. Frames \in Nat
    BY <1>1, FramesType, InitIInv DEF IInv, LoopInv
  <2>3. attempts <= Frames + MaxRetries
    BY <2>1, <2>2, RetryAssumption
  <2> QED
    BY <2>1, <2>3 DEF AttemptInv, AttemptBound, InLoop
<1>2. IInv /\ IInv' /\ AttemptInv /\ [Next]_vars => AttemptInv'
  BY AttemptStep
<1>3. AttemptInv => AttemptBound
  BY DEF AttemptInv
<1> QED
  BY <1>1, <1>2, <1>3, Invariance, PTL DEF Spec

-----------------------------------------------------------------------------
(* The content of the caller's buffer.                                     *)

Exact(u, at) == u.kind = "disc" /\ u.at = at

Origin == req.lba * SectorUnits + req.skip

ContentInv ==
  /\ InLoop /\ IsRead /\ failed = {} =>
       /\ copied = (IF i = 0 THEN 0 ELSE SectorUnits * i - req.skip)
       /\ xferPos = SectorUnits * i
       /\ \A k \in 0 .. copied - 1 : k \in DOMAIN buf => Exact(buf[k], Origin + k)
  /\ pc = "cached" =>
       \A o \in SectorIndex : Exact(xfer[xferPos + o], (req.lba + i) * SectorUnits + o)
  /\ pc = "alloc" => rv = 0 /\ failed = {}
  /\ CleanReadIsExact

LEMMA ExactFrom ==
  ASSUME NEW lba \in Nat, NEW n \in Nat, NEW o \in Int
  PROVE  (lba + n) * SectorUnits + o = lba * SectorUnits + SectorUnits * n + o
OBVIOUS

\* A pass that copies the sector of its frame out of the transfer buffer.
LEMMA DeliveredContent ==
  ASSUME LoopInv, ContentInv, pc \in {"cached", "drive"}, IsRead,
         NEW x, CopyOut(x), EndFrame, UNCHANGED <<req, failed>>,
         \A o \in SectorIndex : Exact(x[xferPos + o], (req.lba + i) * SectorUnits + o)
  PROVE  ContentInv'
<1> USE DEF LoopInv
<1> SUFFICES ASSUME failed = {}
             PROVE  ContentInv'
  BY DEF ContentInv, EndFrame, CleanReadIsExact, Delivered
<1>1. /\ req.lba \in Nat /\ req.len \in Nat /\ req.skip \in 0 .. SectorUnits - 1
      /\ i \in Nat /\ copied \in Nat /\ xferPos \in Nat /\ copyLen \in Nat
      /\ skip \in 0 .. SectorUnits - 1 /\ buf \in [0 .. req.len - 1 -> Content]
      /\ Frames \in Nat
  BY FramesType DEF TypeOK
<1>2. /\ copied = (IF i = 0 THEN 0 ELSE SectorUnits * i - req.skip) /\ xferPos = SectorUnits * i
      /\ \A k \in 0 .. copied - 1 : k \in DOMAIN buf => Exact(buf[k], Origin + k)
  BY DEF ContentInv, InLoop
<1>3. /\ skip = (IF i = 0 THEN req.skip ELSE 0) /\ i < Frames
      /\ copyLen = (IF i = Frames - 1 THEN req.len - copied ELSE SectorUnits - skip)
      /\ PaddedUnits = SectorUnits * Frames
  BY DEF BufferInv, PaddedUnits, Frames
<1>4. SectorUnits * i \in Nat /\ SectorUnits * (i + 1) = SectorUnits * i + SectorUnits
      /\ (i = 0 => SectorUnits * i = 0)
  BY <1>1, MultSucc
<1>5. skip + copyLen <= SectorUnits
  <2>1. CASE i = Frames - 1
    <3>1. SectorUnits * Frames = SectorUnits * i + SectorUnits
      BY <2>1, <1>1, <1>4
    <3>2. xferPos + skip + copyLen <= PaddedUnits
      BY BufferBounds
    <3>3. xferPos = SectorUnits * i /\ PaddedUnits = SectorUnits * i + SectorUnits
      BY <3>1, <1>2, <1>3
    <3> QED
      BY <3>2, <3>3, <1>1, <1>4
  <2>2. CASE i /= Frames - 1
    BY <2>2, <1>1, <1>3
  <2> QED
    BY <2>1, <2>2
<1>6. SectorUnits * i + skip = copied + req.skip
  BY <1>1, <1>2, <1>3, <1>4
<1>7. ASSUME NEW k \in DOMAIN buf, k < copied + copyLen
      PROVE  Exact(buf'[k], Origin + k)
  <2>1. k \in Nat
    BY <1>1
  <2>2. CASE k < copied
    <3>1. buf'[k] = buf[k]
      BY <2>2, <2>1, <1>1 DEF CopyOut
    <3> QED
      BY <3>1, <2>1, <2>2, <1>1, <1>2
  <2>3. CASE k >= copied
    <3>0. PICK off \in Int : off = skip + (k - copied)
      BY <2>1, <1>1
    <3>1. off \in SectorIndex
      BY <3>0, <2>1, <2>3, <1>1, <1>5, <1>7, SMTT(20) DEF SectorIndex
    <3>2. buf'[k] = x[xferPos + skip + (k - copied)]
      BY <2>1, <2>3, <1>1, <1>7 DEF CopyOut
    <3>3. xferPos + skip + (k - copied) = xferPos + off
      BY <3>0, <2>1, <1>1
    <3>4. Exact(buf'[k], (req.lba + i) * SectorUnits + off)
      BY <3>1, <3>2, <3>3
    <3>5. (req.lba + i) * SectorUnits + off = Origin + k
      <4>1. off \in Int /\ req.lba * SectorUnits \in Int
        BY <2>1, <1>1
      <4>2. (req.lba + i) * SectorUnits + off = req.lba * SectorUnits + SectorUnits * i + off
        BY <4>1, <1>1, ExactFrom
      <4>3. PICK b \in Int : b = req.lba * SectorUnits
        BY <4>1
      <4>4. PICK p \in Int : p = SectorUnits * i
        BY <1>4
      <4>5. p + skip = copied + req.skip
        BY <4>4, <1>6
      <4>6. Origin = b + req.skip
        BY <4>3 DEF Origin
      <4>7. (req.lba + i) * SectorUnits + off = b + p + off
        BY <4>2, <4>3, <4>4
      <4>8. b + p + off = b + req.skip + k
        <5>1. skip \in Int /\ copied \in Int /\ req.skip \in Int /\ k \in Int
          BY <2>1, <1>1
        <5>2. p + off = req.skip + k
          BY <5>1, <3>0, <4>5
        <5> QED
          BY <5>1, <5>2
      <4> QED
        BY <4>6, <4>7, <4>8
    <3> QED
      BY <3>4, <3>5
  <2> QED
    BY <2>1, <2>2, <2>3, <1>1
<1>8. /\ i' = i + 1 /\ copied' = copied + copyLen /\ xferPos' = xferPos + SectorUnits
      /\ DOMAIN buf' = DOMAIN buf /\ Origin' = Origin /\ Frames' = Frames /\ IsRead' = IsRead
      /\ pc' \in {"frame", "return"} /\ (pc' = "frame" <=> i + 1 < Frames) /\ failed' = {}
  BY DEF EndFrame, CopyOut, Origin, Frames, IsRead
<1>9. CASE pc' = "frame"
  <2>1. i /= Frames - 1
    BY <1>9, <1>1, <1>8
  <2>2. copied + copyLen = SectorUnits * (i + 1) - req.skip
    <3>1. copyLen = SectorUnits - skip
      BY <2>1, <1>3
    <3>2. copied = SectorUnits * i + skip - req.skip
      BY <1>1, <1>4, <1>6, SMTT(20)
    <3> QED
      BY <3>1, <3>2, <1>1, <1>4, SMTT(20)
  <2>3. \A k \in 0 .. copied' - 1 : k \in DOMAIN buf' => Exact(buf'[k], Origin' + k)
    BY <1>1, <1>7, <1>8
  <2>4. copied' = SectorUnits * i' - req'.skip /\ xferPos' = SectorUnits * i' /\ i' /= 0
    BY <2>2, <1>1, <1>2, <1>4, <1>8
  <2> QED
    BY <2>3, <2>4, <1>9 DEF ContentInv, CleanReadIsExact, Delivered
<1>10. CASE pc' = "return"
  <2>1. i = Frames - 1
    BY <1>10, <1>1, <1>3, <1>8
  <2>2. copied + copyLen = req.len
    BY <2>1, <1>1, <1>3
  <2>3. \A k \in DOMAIN buf' : Exact(buf'[k], Origin + k)
    <3>1. DOMAIN buf = 0 .. req.len - 1 /\ DOMAIN buf' = DOMAIN buf
      BY <1>1, <1>8
    <3>2. ASSUME NEW k \in DOMAIN buf'
          PROVE  k \in DOMAIN buf /\ k < copied + copyLen
      BY <3>1, <2>2, <1>1
    <3> QED
      BY <3>2, <1>7, Zenon
  <2>4. (\A k \in DOMAIN buf : /\ buf[k].kind = "disc"
                               /\ buf[k].at = req.lba * SectorUnits + req.skip + k)'
    <3>1. Origin' = req'.lba * SectorUnits + req'.skip
      BY DEF Origin
    <3>2. \A k \in DOMAIN buf' : buf'[k].kind = "disc" /\ buf'[k].at = Origin' + k
      BY <2>3, <1>8 DEF Exact
    <3> QED
      BY <3>1, <3>2
  <2> QED
    BY <2>4, <1>10 DEF ContentInv, InLoop, CleanReadIsExact
<1> QED
  BY <1>8, <1>9, <1>10

\* The sector of the frame, where it is stored in the transfer buffer.
LEMMA StoredSector ==
  ASSUME LoopInv, InLoop, IsRead, NEW s \in [SectorIndex -> Content]
  PROVE  \A o \in SectorIndex : Store(xfer, xferPos, s)[xferPos + o] = s[o]
<1> USE DEF LoopInv
<1>1. xferPos + SectorUnits <= PaddedUnits /\ DOMAIN xfer = 0 .. PaddedUnits - 1
  BY BufferBounds DEF BufferInv, InLoop
<1>2. xferPos \in Nat /\ PaddedUnits \in Nat
  BY FrameCountBounds DEF TypeOK, PaddedUnits
<1>3. TAKE o \in SectorIndex
<1>4. o \in 0 .. SectorUnits - 1
  BY DEF SectorIndex
<1>5. xferPos + o \in DOMAIN xfer /\ xferPos + o \in xferPos .. xferPos + SectorUnits - 1
  BY <1>1, <1>2, <1>4
<1>6. Store(xfer, xferPos, s)[xferPos + o] = s[(xferPos + o) - xferPos]
  BY <1>5 DEF Store
<1>7. (xferPos + o) - xferPos = o
  BY <1>2, <1>4
<1> QED
  BY <1>6, <1>7

\* Storing the sector of the frame makes the transfer buffer exact there.
LEMMA StoreExact ==
  ASSUME LoopInv, InLoop, IsRead, NEW s \in [SectorIndex -> Content], NEW at \in Int,
         \A o \in SectorIndex : Exact(s[o], at + o)
  PROVE  \A o \in SectorIndex : Exact(Store(xfer, xferPos, s)[xferPos + o], at + o)
BY StoredSector

LEMMA ContentStep ==
  ASSUME IInv, AddressInv', ContentInv, [Next]_vars
  PROVE  ContentInv'
<1> USE DEF IInv, LoopInv
<1>1. CASE (\E r \in Reads : StartRead(r.lba, r.len, r.skip)) \/ (\E o \in Commands : StartCommand(o))
  BY <1>1 DEF StartRead, StartCommand, Call, ContentInv, InLoop, CleanReadIsExact, Delivered
<1>2. CASE Allocate
  <2>1. /\ pc = "alloc" /\ i = 0 /\ copied = 0 /\ xferPos = 0
        /\ UNCHANGED <<req, i, copied, xferPos, buf, rv, failed>>
    BY <1>2 DEF Allocate, loopVars, BufferInv
  <2>2. pc' \in {"frame", "drive", "return"} /\ (pc' = "return" => Frames = 0)
    BY <1>2 DEF Allocate
  <2>3. SectorUnits * 0 = 0 /\ 0 .. 0 - 1 = {}
    OBVIOUS
  <2>4. pc' = "return" /\ IsRead => DOMAIN buf = {}
    <3>1. SUFFICES ASSUME Frames = 0, IsRead
                   PROVE  DOMAIN buf = {}
      BY <2>2
    <3>2. req.len \in Nat /\ req.skip \in 0 .. SectorUnits - 1 /\ buf \in [0 .. req.len - 1 -> Content]
      BY DEF TypeOK
    <3>3. FrameCount(req.len, req.skip) = 0
      BY <3>1 DEF Frames
    <3>4. req.len + req.skip <= SectorUnits * 0
      BY <3>2, <3>3, FrameCountBounds
    <3>5. req.len = 0
      BY <3>2, <3>4
    <3> QED
      BY <3>2, <3>5
  <2>5. CleanReadIsExact'
    BY <2>1, <2>4 DEF CleanReadIsExact, Delivered, IsRead
  <2>6. pc' /= "cached" /\ pc' /= "alloc"
    BY <2>2
  <2>7. copied' = 0 /\ xferPos' = 0 /\ i' = 0
    BY <2>1
  <2> QED
    BY <2>3, <2>5, <2>6, <2>7 DEF ContentInv
<1>3. CASE AllocationFails
  BY <1>3 DEF AllocationFails, ContentInv, InLoop, CleanReadIsExact, Delivered
<1>4. CASE BeginFrame
  <2>1. pc = "frame" /\ IsRead /\ pc' \in {"cached", "drive"} /\ InLoop
    BY <1>4 DEF BeginFrame, BufferInv, InLoop
  <2>2. UNCHANGED <<req, i, copied, xferPos, buf, rv, failed>>
    BY <1>4 DEF BeginFrame
  <2>3. IsRead' = IsRead /\ Origin' = Origin
    BY <2>2 DEF IsRead, Origin
  <2>4. ASSUME pc' = "cached"
        PROVE  \A o \in SectorIndex : Exact(xfer'[xferPos + o], (req.lba + i) * SectorUnits + o)
    <3>1. /\ cache.valid /\ MsfToLba(StartOfFrame) = cache.lba /\ cdb'.start = StartOfFrame
          /\ xfer' = Store(xfer, xferPos, cache.data)
      BY <1>4, <2>4 DEF BeginFrame
    <3>2. cache.lba = req.lba + i
      BY <2>1, <2>2, <2>3, <2>4, <3>1 DEF AddressInv
    <3>3. /\ cache.data \in [SectorIndex -> Content]
          /\ (req.lba + i) * SectorUnits \in Int
      BY DEF TypeOK
    <3>4. \A o \in SectorIndex : Exact(cache.data[o], (req.lba + i) * SectorUnits + o)
      BY <3>1, <3>2 DEF CacheLabel, Exact
    <3> QED
      BY <2>1, <3>1, <3>3, <3>4, StoreExact
  <2>5. (InLoop /\ IsRead /\ failed = {} =>
           /\ copied = (IF i = 0 THEN 0 ELSE SectorUnits * i - req.skip)
           /\ xferPos = SectorUnits * i
           /\ \A k \in 0 .. copied - 1 : k \in DOMAIN buf => Exact(buf[k], Origin + k))'
    BY <2>1, <2>2, <2>3 DEF ContentInv
  <2>6. pc' /= "alloc" /\ pc' /= "return"
    BY <2>1
  <2> QED
    BY <2>2, <2>4, <2>5, <2>6 DEF ContentInv, CleanReadIsExact, Delivered
<1>5. CASE CachedFrame
  <2>1. pc = "cached" /\ IsRead
    BY <1>5 DEF CachedFrame, BufferInv
  <2> QED
    BY <1>5, <2>1, DeliveredContent DEF CachedFrame, ContentInv
<1>6. CASE DriveReads
  <2> DEFINE lba == MsfToLba(cdb.start)
             s == Sector(media, lba)
             x == Store(xfer, xferPos, s)
  <2>1. pc = "drive" /\ IsRead /\ InLoop /\ CopyOut(x) /\ EndFrame /\ UNCHANGED <<req, failed>>
    BY <1>6 DEF DriveReads, InLoop
  <2>2. lba \in Nat /\ lba = req.lba + i
    BY <2>1, AddressIsNat DEF AddressInv
  <2>3. \A o \in SectorIndex : Exact(s[o], lba * SectorUnits + o)
    BY DEF Sector, Disc, Exact
  <2>4. s \in [SectorIndex -> Content] /\ lba * SectorUnits \in Int
    BY <2>2, SectorType, SwapAssumption, SMTT(20) DEF TypeOK
  <2> HIDE DEF s
  <2>5. \A o \in SectorIndex : Exact(x[xferPos + o], lba * SectorUnits + o)
    BY <2>1, <2>3, <2>4, StoreExact
  <2> HIDE DEF x, lba
  <2>6. \A o \in SectorIndex : Exact(x[xferPos + o], (req.lba + i) * SectorUnits + o)
    BY <2>2, <2>5
  <2> QED
    BY <2>1, <2>6, DeliveredContent
<1>7. CASE DriveAnswers
  <2>1. ~IsRead' /\ pc' = "return"
    BY <1>7 DEF DriveAnswers, IsRead, EndFrame, Frames, TypeOK
  <2> QED
    BY <2>1 DEF ContentInv, InLoop, CleanReadIsExact, Delivered
<1>8. CASE DriveFailsRetry
  <2>1. UNCHANGED <<pc, req, i, copied, xferPos, buf, rv, failed>> /\ pc = "drive"
    BY <1>8 DEF DriveFailsRetry, loopVars
  <2> QED
    BY <2>1 DEF ContentInv, InLoop, IsRead, Origin, CleanReadIsExact, Delivered
<1>9. CASE DriveFails
  <2>1. failed' /= {} /\ pc' \in {"frame", "return"}
    BY <1>9 DEF DriveFails, EndFrame
  <2> QED
    BY <2>1 DEF ContentInv, InLoop, CleanReadIsExact
<1>10. CASE Return
  BY <1>10 DEF Return, ContentInv, InLoop, CleanReadIsExact, Delivered
<1>11. CASE SwapDisc \/ UNCHANGED vars
  <2>1. UNCHANGED <<pc, req, i, copied, xfer, xferPos, buf, rv, failed>>
    BY <1>11 DEF SwapDisc, vars, loopVars, bufferVars
  <2> QED
    BY <2>1 DEF ContentInv, InLoop, IsRead, Origin, CleanReadIsExact, Delivered
<1> QED
  BY <1>1, <1>2, <1>3, <1>4, <1>5, <1>6, <1>7, <1>8, <1>9, <1>10, <1>11 DEF Next, Step, InCall

\* A read none of whose frames was given up on delivers exactly the bytes
\* asked for, through retries, cache hits and the skip into the first sector
\* (lines 438-511 of cdrom.c).
THEOREM CleanReadIsExactHolds == Spec => []CleanReadIsExact
<1>1. Init => ContentInv
  BY DEF Init, ContentInv, InLoop, CleanReadIsExact, Delivered
<1>2. IInv /\ IInv' /\ ContentInv /\ [Next]_vars => ContentInv'
  BY ContentStep DEF IInv
<1>3. ContentInv => CleanReadIsExact
  BY DEF ContentInv
<1> QED
  BY <1>1, <1>2, <1>3, Invariance, PTL DEF Spec
-----------------------------------------------------------------------------
(* The order of what a read delivers, frames given up on included.         *)

Base(n) == (req.lba + n) * SectorUnits

\* Past the sector being filled the transfer buffer is as memset left it.
TailInv ==
  InLoop /\ IsRead => \A p \in DOMAIN xfer : p >= xferPos + SectorUnits => xfer[p] = Zero

\* Disc content in the caller's buffer is from the sectors passed so far.
RangeInv ==
  /\ IsRead /\ pc = "return" => i <= Frames
  /\ IsRead => \A k \in DOMAIN buf : buf[k].kind = "disc" => buf[k].at \in Base(0) .. Base(i) - 1

\* Below copied_bytes there is nothing else, in ascending order.
OrderInv ==
  /\ InLoop /\ IsRead =>
       \A k \in DOMAIN buf : k < copied => /\ buf[k].kind = "disc"
                                           /\ k > 0 => buf[k - 1].at < buf[k].at
  /\ DeliveredInOrder

\* The sectors of a read start where the one before ends.
LEMMA BaseFacts ==
  ASSUME TypeOK, NEW n \in Nat
  PROVE  /\ Base(0) \in Nat /\ Base(n) \in Nat
         /\ Base(0) <= Base(n)
         /\ Base(n + 1) = Base(n) + SectorUnits
<1>1. req.lba \in Nat /\ SectorUnits \in Nat
  BY DEF TypeOK
<1>2. /\ (req.lba + 0) * SectorUnits \in Nat /\ (req.lba + n) * SectorUnits \in Nat
      /\ (req.lba + 0) * SectorUnits <= (req.lba + n) * SectorUnits
  <2>1. (req.lba + n) * SectorUnits = req.lba * SectorUnits + n * SectorUnits
    BY <1>1
  <2>2. req.lba * SectorUnits \in Nat /\ n * SectorUnits \in Nat /\ req.lba + 0 = req.lba
    BY <1>1
  <2> QED
    BY <2>1, <2>2
<1>3. (req.lba + (n + 1)) * SectorUnits = (req.lba + n) * SectorUnits + SectorUnits
  <2>1. PICK m \in Int : m = req.lba + n
    BY <1>1
  <2>2. (m + 1) * SectorUnits = m * SectorUnits + SectorUnits
    BY <1>1
  <2>3. req.lba + (n + 1) = m + 1
    BY <1>1, <2>1
  <2> QED
    BY <2>1, <2>2, <2>3
<1> QED
  BY <1>2, <1>3 DEF Base

\* What one copy puts into the caller's buffer: the rest of the sector, then,
\* in the last frame after failed ones, the untouched part of the buffer.
LEMMA CopiedUnits ==
  ASSUME LoopInv, pc \in {"cached", "drive"}, IsRead, NEW x, CopyOut(x), EndFrame, req' = req,
         DOMAIN x = DOMAIN xfer,
         \A p \in DOMAIN x : p >= xferPos + SectorUnits => x[p] = Zero
  PROVE  /\ DOMAIN buf' = DOMAIN buf /\ DOMAIN buf \subseteq Nat /\ copied \in Nat /\ copied' = copied + copyLen
         /\ xferPos' = xferPos + SectorUnits
         /\ \A k \in DOMAIN buf : k < copied \/ k >= copied + copyLen => buf'[k] = buf[k]
         /\ \A k \in DOMAIN buf : k >= copied /\ k < copied + copyLen =>
              \/ /\ skip + (k - copied) \in SectorIndex
                 /\ buf'[k] = x[xferPos + (skip + (k - copied))]
              \/ i = Frames - 1 /\ buf'[k] = Zero
         /\ pc' = "return" => \A k \in DOMAIN buf : k < copied + copyLen
         /\ pc' = "frame" => i /= Frames - 1
<1> USE DEF LoopInv
<1>1. /\ copied \in Nat /\ copyLen \in Nat /\ xferPos \in Nat /\ i \in Nat
      /\ skip \in 0 .. SectorUnits - 1 /\ req.len \in Nat /\ req.skip \in 0 .. SectorUnits - 1
      /\ buf \in [0 .. req.len - 1 -> Content] /\ Frames \in Nat
  BY FramesType DEF TypeOK
<1>2. DOMAIN xfer = 0 .. PaddedUnits - 1 /\ PaddedUnits \in Nat
  BY <1>1, FrameCountBounds DEF BufferInv, PaddedUnits
<1>3. xferPos + skip + copyLen <= PaddedUnits
  BY BufferBounds
<1>4. Frames' = Frames /\ IsRead'
  BY DEF Frames, IsRead
<1>5. i < Frames /\ copyLen = (IF i = Frames - 1 THEN req.len - copied ELSE SectorUnits - skip)
  BY DEF BufferInv
<1>6. ASSUME NEW k \in DOMAIN buf, k >= copied, k < copied + copyLen
      PROVE  \/ /\ skip + (k - copied) \in SectorIndex
                /\ buf'[k] = x[xferPos + (skip + (k - copied))]
             \/ i = Frames - 1 /\ buf'[k] = Zero
  <2>0. k \in Nat
    BY <1>1
  <2>1. PICK off \in Nat : off = skip + (k - copied)
    BY <1>1, <1>6, <2>0
  <2>2. buf'[k] = x[xferPos + skip + (k - copied)] /\ xferPos + skip + (k - copied) = xferPos + off
    BY <1>1, <1>6, <2>0, <2>1 DEF CopyOut
  <2>3. xferPos + off \in DOMAIN x
    BY <1>1, <1>2, <1>3, <1>6, <2>0, <2>1
  <2>4. CASE off < SectorUnits
    BY <2>1, <2>2, <2>4 DEF SectorIndex
  <2>5. CASE off >= SectorUnits
    <3>1. x[xferPos + off] = Zero
      BY <1>1, <2>1, <2>3, <2>5
    <3>2. i = Frames - 1
      BY <1>1, <1>5, <1>6, <2>0, <2>1, <2>5
    <3> QED
      BY <2>2, <3>1, <3>2
  <2> QED
    BY <2>1, <2>4, <2>5
<1>7. pc' = "return" => \A k \in DOMAIN buf : k < copied + copyLen
  <2>1. pc' = "return" => i = Frames - 1
    BY <1>1, <1>4, <1>5 DEF EndFrame
  <2> QED
    BY <1>1, <1>5, <2>1
<1>8. pc' = "frame" => i /= Frames - 1
  BY <1>1, <1>4 DEF EndFrame
<1>9. \A k \in DOMAIN buf : k < copied \/ k >= copied + copyLen => buf'[k] = buf[k]
  BY <1>1 DEF CopyOut
<1>10. DOMAIN buf' = DOMAIN buf /\ DOMAIN buf \subseteq Nat /\ copied' = copied + copyLen
       /\ xferPos' = xferPos + SectorUnits
  BY <1>1 DEF CopyOut
<1> QED
  BY <1>1, <1>6, <1>7, <1>8, <1>9, <1>10

\* A delivered frame continues what is in the caller's buffer.
LEMMA DeliveredOrder ==
  ASSUME LoopInv, TailInv, RangeInv, OrderInv, pc \in {"cached", "drive"}, IsRead,
         CopyOut(xfer'), EndFrame, req' = req, DOMAIN xfer' = DOMAIN xfer,
         \A p \in DOMAIN xfer : p >= xferPos + SectorUnits => xfer'[p] = Zero,
         \A o \in SectorIndex : Exact(xfer'[xferPos + o], Base(i) + o)
  PROVE  TailInv' /\ RangeInv' /\ OrderInv'
<1> USE DEF LoopInv
<1>0. /\ copied \in Nat /\ xferPos \in Nat /\ i \in Nat /\ copyLen \in Nat /\ skip \in Nat
      /\ Frames \in Nat /\ i < Frames /\ i' = i + 1
      /\ Frames' = Frames /\ IsRead' = IsRead /\ Base(0)' = Base(0)
      /\ buf \in [0 .. req.len - 1 -> Content] /\ req.len \in Nat
  BY FramesType, SMTT(20) DEF TypeOK, BufferInv, EndFrame, Frames, IsRead, Base
<1>1. /\ Base(0) \in Nat /\ Base(i) \in Nat /\ Base(0) <= Base(i)
      /\ Base(i)' = Base(i) + SectorUnits
  <2>1. Base(i)' = Base(i + 1)
    BY <1>0 DEF Base
  <2> QED
    BY <1>0, <2>1, BaseFacts
<1>2. /\ DOMAIN buf' = DOMAIN buf /\ DOMAIN buf \subseteq Nat /\ copied' = copied + copyLen
      /\ xferPos' = xferPos + SectorUnits
      /\ \A k \in DOMAIN buf : k < copied \/ k >= copied + copyLen => buf'[k] = buf[k]
      /\ \A k \in DOMAIN buf : k >= copied /\ k < copied + copyLen =>
           \/ /\ skip + (k - copied) \in SectorIndex
              /\ buf'[k] = xfer'[xferPos + (skip + (k - copied))]
           \/ i = Frames - 1 /\ buf'[k] = Zero
      /\ pc' = "return" => \A k \in DOMAIN buf : k < copied + copyLen
      /\ pc' = "frame" => i /= Frames - 1
  BY CopiedUnits
<1>3. Zero.kind = "zero"
  BY DEF Zero, NoContent
<1>4. ASSUME NEW k \in DOMAIN buf, k < copied
      PROVE  /\ buf'[k].kind = "disc" /\ buf'[k].at \in Base(0) .. Base(i) - 1
             /\ k > 0 => buf'[k - 1].kind = "disc" /\ buf'[k - 1].at < buf'[k].at
  <2>1. buf'[k] = buf[k] /\ buf[k].kind = "disc" /\ (k > 0 => buf[k - 1].at < buf[k].at)
    BY <1>2, <1>4 DEF OrderInv, InLoop
  <2>2. buf[k].at \in Base(0) .. Base(i) - 1
    BY <2>1 DEF RangeInv
  <2>3. ASSUME k > 0
        PROVE  buf'[k - 1] = buf[k - 1] /\ buf[k - 1].kind = "disc"
    <3>1. k - 1 \in DOMAIN buf /\ k - 1 < copied
      BY <1>0, <1>4, <2>3
    <3> QED
      BY <1>2, <3>1 DEF OrderInv, InLoop
  <2> QED
    BY <2>1, <2>2, <2>3
<1>5. ASSUME NEW k \in DOMAIN buf, k >= copied, k < copied + copyLen, buf'[k].kind = "disc"
      PROVE  /\ buf'[k].at \in Base(0) .. (Base(i) + SectorUnits) - 1
             /\ k > 0 => buf'[k - 1].kind = "disc" /\ buf'[k - 1].at < buf'[k].at
  <2>0. k \in Nat
    BY <1>2
  <2>1. PICK off \in Int : off = skip + (k - copied)
    BY <1>0, <2>0
  <2>2. off \in SectorIndex /\ Exact(buf'[k], Base(i) + off)
    BY <1>2, <1>3, <1>5, <2>1
  <2>3. off \in 0 .. SectorUnits - 1 /\ buf'[k].at = Base(i) + off
    BY <2>2 DEF SectorIndex, Exact
  <2>4. buf'[k].at \in Base(0) .. (Base(i) + SectorUnits) - 1
    BY <1>1, <2>3
  <2>5. ASSUME k > 0
        PROVE  buf'[k - 1].kind = "disc" /\ buf'[k - 1].at < buf'[k].at
    <3>1. k - 1 \in DOMAIN buf
      BY <1>0, <2>5
    <3>2. CASE k - 1 < copied
      <4>1. buf'[k - 1].kind = "disc" /\ buf'[k - 1].at \in Base(0) .. Base(i) - 1
        BY <1>4, <3>1, <3>2
      <4> QED
        BY <1>1, <2>3, <4>1
    <3>3. CASE k - 1 >= copied
      <4>1. skip + ((k - 1) - copied) = off - 1 /\ off - 1 \in Int
        BY <1>0, <2>0, <2>1
      <4>2. off - 1 \in SectorIndex
        <5>1. off >= 1
          BY <1>0, <2>0, <2>1, <3>3
        <5> QED
          BY <2>3, <5>1 DEF SectorIndex
      <4>3. k - 1 < copied + copyLen
        BY <1>0, <1>5, <2>0
      <4>4. buf'[k - 1] = xfer'[xferPos + (off - 1)]
        <5>1. buf'[k - 1] = xfer'[xferPos + skip + ((k - 1) - copied)]
          BY <1>0, <2>0, <3>1, <3>3, <4>3 DEF CopyOut
        <5>2. xferPos + skip + ((k - 1) - copied) = xferPos + (off - 1)
          BY <1>0, <2>0, <4>1
        <5> QED
          BY <5>1, <5>2
      <4>5. Exact(buf'[k - 1], Base(i) + (off - 1))
        BY <4>2, <4>4
      <4> QED
        BY <1>1, <2>3, <4>5 DEF Exact
    <3> QED
      BY <1>0, <2>0, <3>2, <3>3
  <2> QED
    BY <2>4, <2>5
<1>6. TailInv'
  <2>1. \A p \in DOMAIN xfer : p \in Int
    BY <1>0, FrameCountBounds DEF BufferInv, PaddedUnits, TypeOK
  <2> QED
    BY <1>0, <1>2, <2>1 DEF TailInv
<1>7. RangeInv'
  <2>1. ASSUME NEW k \in DOMAIN buf, buf'[k].kind = "disc"
        PROVE  buf'[k].at \in Base(0) .. Base(i)' - 1
    <3>1. CASE k < copied
      BY <1>1, <1>4, <3>1
    <3>2. CASE k >= copied /\ k < copied + copyLen
      BY <1>1, <1>5, <2>1, <3>2
    <3>3. CASE k >= copied + copyLen
      <4>1. buf[k].at \in Base(0) .. Base(i) - 1
        BY <1>2, <2>1, <3>3 DEF RangeInv
      <4> QED
        BY <1>1, <1>2, <3>3, <4>1
    <3> QED
      BY <1>0, <1>2, <3>1, <3>2, <3>3
  <2>2. i' <= Frames'
    BY <1>0
  <2> QED
    BY <1>0, <1>2, <2>1, <2>2 DEF RangeInv
<1>8. \A k \in DOMAIN buf : k < copied + copyLen /\ buf'[k].kind = "disc" /\ k > 0 =>
        buf'[k - 1].kind = "disc" /\ buf'[k - 1].at < buf'[k].at
  BY <1>0, <1>2, <1>4, <1>5
<1>9. \A k \in DOMAIN buf : k < copied + copyLen =>
        buf'[k].kind \in {"disc", "zero"} /\ (i /= Frames - 1 => buf'[k].kind = "disc")
  <2> TAKE k \in DOMAIN buf
  <2> HAVE k < copied + copyLen
  <2>1. CASE k < copied
    BY <1>4, <2>1
  <2>2. CASE k >= copied
    BY <1>2, <1>3, <2>2 DEF Exact
  <2> QED
    BY <1>0, <1>2, <2>1, <2>2
<1>10. pc' \in {"frame", "return"}
  BY DEF EndFrame
<1>11. OrderInv'
  BY <1>2, <1>8, <1>9, <1>10 DEF OrderInv, InLoop, DeliveredInOrder, Delivered
<1> QED
  BY <1>6, <1>7, <1>11

\* A call starts with a buffer it has not written.
LEMMA CallOrder ==
  ASSUME NEW o, NEW lba, NEW len, NEW sk, Call(o, lba, len, sk)
  PROVE  TailInv' /\ RangeInv' /\ OrderInv'
<1>1. pc' = "alloc" /\ \A k \in DOMAIN buf' : buf'[k] = Caller
  BY DEF Call
<1>2. Caller.kind /= "disc"
  BY DEF Caller, NoContent
<1> QED
  BY <1>1, <1>2 DEF TailInv, RangeInv, OrderInv, InLoop, DeliveredInOrder, Delivered

\* Every step keeps the order.
LEMMA OrderStep ==
  ASSUME IInv, IInv', ContentInv, TailInv, RangeInv, OrderInv, [Next]_vars
  PROVE  TailInv' /\ RangeInv' /\ OrderInv'
<1> USE DEF IInv, LoopInv
<1>0. /\ copied \in Nat /\ xferPos \in Nat /\ i \in Nat /\ Frames \in Nat
      /\ buf \in [0 .. req.len - 1 -> Content] /\ req.len \in Nat /\ req.skip \in 0 .. SectorUnits - 1
      /\ PaddedUnits \in Nat
  BY FramesType, FrameCountBounds DEF TypeOK, PaddedUnits
<1>1. CASE (\E r \in Reads : StartRead(r.lba, r.len, r.skip)) \/ (\E o \in Commands : StartCommand(o))
  BY <1>1, CallOrder DEF StartRead, StartCommand
<1>2. CASE Allocate
  <2>1. /\ pc = "alloc" /\ i = 0 /\ copied = 0 /\ xferPos = 0
        /\ UNCHANGED <<req, i, copied, xferPos, buf>> /\ xfer' = [k \in 0 .. PaddedUnits - 1 |-> Zero]
    BY <1>2 DEF Allocate, loopVars, BufferInv
  <2>2. IsRead' = IsRead /\ Frames' = Frames /\ Base(0)' = Base(0) /\ Base(i)' = Base(i)
    BY <2>1 DEF IsRead, Frames, Base
  <2>3. pc' = "return" /\ IsRead => DOMAIN buf = {}
    <3>1. SUFFICES ASSUME FrameCount(req.len, req.skip) = 0
                   PROVE  DOMAIN buf = {}
      BY <1>2 DEF Allocate, Frames
    <3>2. req.len + req.skip <= SectorUnits * 0
      BY <1>0, <3>1, FrameCountBounds
    <3> QED
      BY <1>0, <3>2
  <2>4. TailInv'
    BY <2>1 DEF TailInv
  <2>5. RangeInv'
    BY <1>0, <2>1, <2>2 DEF RangeInv
  <2>6. \A k \in DOMAIN buf : ~(k < copied)
    BY <1>0, <2>1
  <2>7. OrderInv'
    BY <2>1, <2>2, <2>3, <2>6 DEF OrderInv, DeliveredInOrder, Delivered
  <2> QED
    BY <2>4, <2>5, <2>7
<1>3. CASE AllocationFails
  <2>1. /\ pc = "alloc" /\ i = 0 /\ pc' = "return" /\ rv' = 1
        /\ UNCHANGED <<req, i, buf>>
    BY <1>3 DEF AllocationFails, loopVars, bufferVars, BufferInv
  <2>2. IsRead' = IsRead /\ Frames' = Frames /\ Base(0)' = Base(0) /\ Base(i)' = Base(i)
    BY <2>1 DEF IsRead, Frames, Base
  <2>3. RangeInv'
    BY <1>0, <2>1, <2>2 DEF RangeInv
  <2> QED
    BY <2>1, <2>3 DEF TailInv, OrderInv, InLoop, DeliveredInOrder, Delivered
<1>4. ASSUME UNCHANGED <<req, i, copied, xferPos, buf>>,
             \/ pc' \in {pc, "idle"} /\ UNCHANGED rv
             \/ InLoop /\ pc' \in {"cached", "drive"},
             \/ UNCHANGED xfer
             \/ \E s : xfer' = Store(xfer, xferPos, s)
      PROVE  TailInv' /\ RangeInv' /\ OrderInv'
  <2>1. IsRead' = IsRead /\ Frames' = Frames /\ Base(0)' = Base(0) /\ Base(i)' = Base(i)
    BY <1>4 DEF IsRead, Frames, Base
  <2>2. InLoop' => InLoop
    BY <1>4 DEF InLoop
  <2>3. ASSUME InLoop, IsRead
        PROVE  /\ DOMAIN xfer' = DOMAIN xfer
               /\ \A p \in DOMAIN xfer : p >= xferPos + SectorUnits => xfer'[p] = xfer[p]
    <3>1. CASE UNCHANGED xfer
      BY <3>1
    <3>2. ASSUME NEW s, xfer' = Store(xfer, xferPos, s)
          PROVE  /\ DOMAIN xfer' = DOMAIN xfer
                 /\ \A p \in DOMAIN xfer : p >= xferPos + SectorUnits => xfer'[p] = xfer[p]
      <4>1. DOMAIN xfer = 0 .. PaddedUnits - 1
        BY <2>3 DEF BufferInv, InLoop
      <4> QED
        BY <1>0, <3>2, <4>1 DEF Store
    <3> QED
      BY <1>4, <3>1, <3>2
  <2>4. TailInv'
    BY <1>4, <2>1, <2>2, <2>3 DEF TailInv
  <2>5. RangeInv'
    BY <1>4, <2>1 DEF RangeInv
  <2>6. Delivered' => Delivered
    BY <1>4, <2>1 DEF Delivered
  <2>7. OrderInv'
    BY <1>4, <2>1, <2>2, <2>6 DEF OrderInv, DeliveredInOrder
  <2> QED
    BY <2>4, <2>5, <2>7
<1>5. CASE BeginFrame
  <2>1. UNCHANGED <<req, i, copied, xferPos, buf>> /\ InLoop /\ pc' \in {"cached", "drive"}
    BY <1>5 DEF BeginFrame, InLoop
  <2>2. UNCHANGED xfer \/ \E s : xfer' = Store(xfer, xferPos, s)
    BY <1>5 DEF BeginFrame
  <2> QED
    BY <1>4, <2>1, <2>2
<1>6. ASSUME pc \in {"cached", "drive"}, IsRead
      PROVE  DOMAIN xfer = 0 .. PaddedUnits - 1 /\ \A p \in DOMAIN xfer : p >= xferPos + SectorUnits => xfer[p] = Zero
  BY <1>6 DEF TailInv, InLoop, BufferInv
<1>7. CASE CachedFrame
  <2>1. pc = "cached" /\ IsRead /\ CopyOut(xfer') /\ EndFrame /\ UNCHANGED <<req, xfer>>
    BY <1>7 DEF CachedFrame, BufferInv
  <2>2. \A o \in SectorIndex : Exact(xfer'[xferPos + o], Base(i) + o)
    BY <2>1 DEF ContentInv, Base
  <2> QED
    BY <1>6, <2>1, <2>2, DeliveredOrder
<1>8. CASE DriveReads
  <2> DEFINE lba == MsfToLba(cdb.start)
             s == Sector(media, lba)
  <2>1. pc = "drive" /\ IsRead /\ InLoop /\ xfer' = Store(xfer, xferPos, s) /\ CopyOut(xfer') /\ EndFrame /\ req' = req
    BY <1>8 DEF DriveReads, InLoop
  <2>2. lba \in Nat /\ lba = req.lba + i
    BY <2>1, AddressIsNat DEF AddressInv
  <2>3. \A o \in SectorIndex : Exact(s[o], lba * SectorUnits + o)
    BY DEF Sector, Disc, Exact
  <2>4. s \in [SectorIndex -> Content] /\ lba * SectorUnits \in Int
    <3>1. media \in Nat
      BY SwapAssumption DEF TypeOK
    <3> HIDE DEF lba
    <3>2. Sector(media, lba) \in [SectorIndex -> Content]
      BY <2>2, <3>1, SectorType
    <3>3. lba * SectorUnits \in Int
      BY <2>2
    <3> QED
      BY <3>2, <3>3
  <2> HIDE DEF s
  <2>5. \A o \in SectorIndex : Exact(xfer'[xferPos + o], lba * SectorUnits + o)
    BY <2>1, <2>3, <2>4, StoreExact
  <2> HIDE DEF lba
  <2>6. \A o \in SectorIndex : Exact(xfer'[xferPos + o], Base(i) + o)
    BY <2>2, <2>5 DEF Base
  <2>7. DOMAIN xfer' = DOMAIN xfer /\ \A p \in DOMAIN xfer : p >= xferPos + SectorUnits => xfer'[p] = Zero
    BY <1>0, <1>6, <2>1 DEF Store
  <2> QED
    BY <2>1, <2>6, <2>7, DeliveredOrder
<1>9. CASE DriveAnswers
  <2>1. ~IsRead' /\ pc' = "return"
    BY <1>9 DEF DriveAnswers, IsRead, EndFrame, Frames, TypeOK
  <2> QED
    BY <2>1 DEF TailInv, RangeInv, OrderInv, InLoop, DeliveredInOrder, Delivered
<1>10. MayTear => UNCHANGED xfer \/ \E s : xfer' = Store(xfer, xferPos, s)
  BY DEF MayTear
<1>11. CASE DriveFailsRetry
  <2>1. UNCHANGED <<pc, req, i, copied, xferPos, buf, rv>>
    BY <1>11 DEF DriveFailsRetry, loopVars
  <2> QED
    BY <1>4, <1>10, <1>11, <2>1 DEF DriveFailsRetry
<1>12. CASE DriveFails
  <2>1. /\ pc = "drive" /\ EndFrame /\ UNCHANGED <<req, copied, xferPos, buf>> /\ rv' = 1
        /\ i' = i + 1 /\ pc' \in {"frame", "return"}
    BY <1>12 DEF DriveFails, EndFrame
  <2>2. IsRead' = IsRead /\ Frames' = Frames /\ Base(0)' = Base(0)
    BY <2>1 DEF IsRead, Frames, Base
  <2>3. Base(i)' = Base(i) + SectorUnits /\ Base(i) \in Int /\ Base(0) \in Int
    <3>1. Base(i)' = Base(i + 1)
      BY <2>1 DEF Base
    <3>2. TypeOK /\ i \in Nat
      BY <1>0
    <3>3. Base(i + 1) = Base(i) + SectorUnits /\ Base(i) \in Int /\ Base(0) \in Int
      BY <3>2, BaseFacts
    <3> QED
      BY <3>1, <3>3
  <2>4. TailInv'
    <3>1. SUFFICES ASSUME IsRead
                   PROVE  /\ DOMAIN xfer' = DOMAIN xfer
                          /\ \A p \in DOMAIN xfer : p >= xferPos + SectorUnits => xfer'[p] = Zero
      BY <2>1, <2>2 DEF TailInv
    <3>2. CASE UNCHANGED xfer
      BY <1>6, <2>1, <3>1, <3>2
    <3>3. ASSUME NEW s, xfer' = Store(xfer, xferPos, s)
          PROVE  /\ DOMAIN xfer' = DOMAIN xfer
                 /\ \A p \in DOMAIN xfer : p >= xferPos + SectorUnits => xfer'[p] = Zero
      BY <1>0, <1>6, <2>1, <3>1, <3>3 DEF Store
    <3> QED
      BY <1>10, <1>12, <3>2, <3>3 DEF DriveFails
  <2>5. RangeInv'
    <3>1. IsRead => i' <= Frames'
      BY <1>0, <2>1, <2>2 DEF BufferInv
    <3>2. \A k \in DOMAIN buf : IsRead /\ buf[k].kind = "disc" => buf[k].at \in Base(0) .. Base(i)' - 1
      BY <2>3 DEF RangeInv
    <3> QED
      BY <2>1, <2>2, <3>1, <3>2 DEF RangeInv
  <2>6. OrderInv'
    BY <2>1, <2>2 DEF OrderInv, InLoop, DeliveredInOrder, Delivered
  <2> QED
    BY <2>4, <2>5, <2>6
<1>13. CASE Return
  BY <1>4, <1>13 DEF Return, loopVars, bufferVars
<1>14. CASE SwapDisc \/ UNCHANGED vars
  <2>1. UNCHANGED <<pc, req, i, copied, xfer, xferPos, buf, rv>>
    BY <1>14 DEF SwapDisc, vars, loopVars, bufferVars
  <2> QED
    BY <1>4, <2>1
<1> QED
  BY <1>1, <1>2, <1>3, <1>5, <1>7, <1>8, <1>9, <1>11, <1>12, <1>13, <1>14 DEF Next, Step, InCall

\* What cdrom_read delivers when it returns success is disc content in
\* ascending order, then zeros, also past frames that were given up on: no
\* torn sector, nothing unwritten, nothing twice.
THEOREM DeliveredInOrderHolds == Spec => []DeliveredInOrder
<1> DEFINE I == ContentInv /\ TailInv /\ RangeInv /\ OrderInv
<1>1. Init => I
  <2>1. Init => ContentInv
    BY DEF Init, ContentInv, InLoop, CleanReadIsExact, Delivered
  <2>2. Init => TailInv /\ RangeInv /\ OrderInv
    BY DEF Init, TailInv, RangeInv, OrderInv, InLoop, DeliveredInOrder, Delivered
  <2> QED
    BY <2>1, <2>2
<1>2. IInv /\ IInv' /\ I /\ [Next]_vars => I'
  BY ContentStep, OrderStep DEF IInv
<1>3. I => DeliveredInOrder
  BY DEF OrderInv
<1> HIDE DEF I
<1> QED
  BY <1>1, <1>2, <1>3, Invariance, PTL DEF Spec

-----------------------------------------------------------------------------
(* The discs the delivered content is from.                                *)

\* Content of the caller's buffer is from discs in the order they were in the
\* drive.  Once something was delivered the cached frame is one passed already:
\* a cache hit, whose sector may be of an earlier disc, is the first delivery.
MediaInv ==
  /\ cache.valid => \E m \in 0 .. media : \A o \in SectorIndex : cache.data[o].media = m
  /\ InLoop /\ IsRead =>
       \A k \in DOMAIN buf : k < copied => /\ buf[k].media \in 0 .. media
                                           /\ k > 0 => buf[k - 1].media <= buf[k].media
  /\ pc \in {"frame", "drive"} /\ IsRead /\ copied > 0 /\ cache.valid => cache.lba < req.lba + i
  /\ pc = "cached" =>
       /\ copied = 0
       /\ \E m \in 0 .. media : \A o \in SectorIndex : xfer[xferPos + o].media = m
  /\ MediaOrder

\* A delivered frame whose sector is from the disc m.
LEMMA DeliveredMedia ==
  ASSUME LoopInv, MediaInv, pc \in {"cached", "drive"}, IsRead,
         CopyOut(xfer'), EndFrame, UNCHANGED <<req, media>>, DOMAIN xfer' = DOMAIN xfer,
         \A p \in DOMAIN xfer : p >= xferPos + SectorUnits => xfer'[p] = Zero,
         NEW m \in 0 .. media, \A o \in SectorIndex : xfer'[xferPos + o].media = m,
         m = media \/ copied = 0,
         cache'.valid => \A o \in SectorIndex : cache'.data[o].media = m,
         cache'.valid => cache'.lba < req.lba + i'
  PROVE  MediaInv'
<1> USE DEF LoopInv
<1>0. /\ copied \in Nat /\ media \in Nat /\ m \in Nat /\ copyLen \in Nat
      /\ buf \in [0 .. req.len - 1 -> Content] /\ req.len \in Nat
      /\ IsRead' = IsRead
  BY SwapAssumption DEF TypeOK, IsRead
<1>1. Zero.kind = "zero" /\ Zero.media = 0
  BY DEF Zero, NoContent
<1>2. /\ DOMAIN buf' = DOMAIN buf /\ copied' = copied + copyLen
      /\ \A k \in DOMAIN buf : k < copied \/ k >= copied + copyLen => buf'[k] = buf[k]
      /\ pc' = "return" => \A k \in DOMAIN buf : k < copied + copyLen
      /\ pc' = "frame" => i /= Frames - 1
  BY CopiedUnits
<1>3. ASSUME NEW k \in DOMAIN buf, k >= copied, k < copied + copyLen
      PROVE  buf'[k].media = m \/ (i = Frames - 1 /\ buf'[k] = Zero)
  <2>1. \/ /\ skip + (k - copied) \in SectorIndex
           /\ buf'[k] = xfer'[xferPos + (skip + (k - copied))]
        \/ i = Frames - 1 /\ buf'[k] = Zero
    BY <1>3, CopiedUnits
  <2> QED
    BY <2>1
<1>4. ASSUME NEW k \in DOMAIN buf, k < copied
      PROVE  buf'[k].media \in 0 .. media /\ (k > 0 => buf'[k - 1].media <= buf'[k].media)
  <2>1. buf'[k] = buf[k] /\ (k > 0 => buf'[k - 1] = buf[k - 1])
    BY <1>0, <1>2, <1>4
  <2> QED
    BY <1>4, <2>1 DEF MediaInv, InLoop
<1>5. ASSUME NEW k \in DOMAIN buf, k >= copied, k < copied + copyLen, buf'[k].media = m, k > 0
      PROVE  buf'[k - 1].media <= buf'[k].media
  <2>1. k - 1 \in DOMAIN buf /\ k \in Nat
    BY <1>0, <1>5
  <2>2. CASE k - 1 < copied
    <3>1. m = media
      BY <1>0, <2>1, <2>2
    <3>2. buf'[k - 1].media \in 0 .. media
      BY <1>4, <2>1, <2>2
    <3> QED
      BY <1>0, <1>5, <3>1, <3>2
  <2>3. CASE k - 1 >= copied
    <3>1. buf'[k - 1].media = m \/ buf'[k - 1] = Zero
      BY <1>0, <1>3, <1>5, <2>1, <2>3
    <3> QED
      BY <1>0, <1>1, <1>5, <3>1
  <2> QED
    BY <1>0, <2>1, <2>2, <2>3
<1>6. pc' \in {"frame", "return"}
  BY DEF EndFrame
<1>7. ASSUME pc' = "frame"
      PROVE  \A k \in DOMAIN buf : k < copied + copyLen => /\ buf'[k].media \in 0 .. media
                                                           /\ k > 0 => buf'[k - 1].media <= buf'[k].media
  <2> TAKE k \in DOMAIN buf
  <2> HAVE k < copied + copyLen
  <2>1. CASE k < copied
    BY <1>4, <2>1
  <2>2. CASE k >= copied
    <3>1. buf'[k].media = m
      BY <1>2, <1>3, <1>7, <2>2
    <3> QED
      BY <1>5, <2>2, <3>1
  <2>3. k \in Nat
    BY <1>0
  <2> QED
    BY <1>0, <2>1, <2>2, <2>3
<1>8. ASSUME pc' = "return"
      PROVE  \A k \in DOMAIN buf :
               k > 0 /\ buf'[k].kind = "disc" => buf'[k - 1].media <= buf'[k].media /\ buf'[k].media <= media
  <2> TAKE k \in DOMAIN buf
  <2> HAVE k > 0 /\ buf'[k].kind = "disc"
  <2>1. CASE k < copied
    BY <1>4, <2>1
  <2>2. CASE k >= copied
    <3>1. k < copied + copyLen
      BY <1>2, <1>8
    <3>2. buf'[k].media = m
      BY <1>1, <1>3, <2>2, <3>1
    <3> QED
      BY <1>0, <1>5, <2>2, <3>1, <3>2
  <2>3. k \in Nat
    BY <1>0
  <2> QED
    BY <1>0, <2>1, <2>2, <2>3
<1>9. MediaOrder'
  BY <1>0, <1>2, <1>8 DEF MediaOrder, Delivered
<1>10. cache'.valid => \E n \in 0 .. media : \A o \in SectorIndex : cache'.data[o].media = n
  OBVIOUS
<1> QED
  BY <1>0, <1>2, <1>6, <1>7, <1>9, <1>10 DEF MediaInv, InLoop

\* Every step keeps the discs in order.
LEMMA MediaStep ==
  ASSUME IInv, TailInv, MediaInv, [Next]_vars
  PROVE  MediaInv'
<1> USE DEF IInv, LoopInv
<1>0. /\ copied \in Nat /\ xferPos \in Nat /\ i \in Nat /\ Frames \in Nat /\ media \in Nat
      /\ req.lba \in Nat /\ PaddedUnits \in Nat
      /\ buf \in [0 .. req.len - 1 -> Content] /\ req.len \in Nat /\ req.skip \in 0 .. SectorUnits - 1
      /\ cache \in [valid : BOOLEAN, lba : Nat, data : [SectorIndex -> Content]]
  <2>1. /\ copied \in Nat /\ xferPos \in Nat /\ i \in Nat /\ Frames \in Nat
        /\ req.lba \in Nat /\ PaddedUnits \in Nat
        /\ buf \in [0 .. req.len - 1 -> Content] /\ req.len \in Nat /\ req.skip \in 0 .. SectorUnits - 1
    BY FramesType, FrameCountBounds DEF TypeOK, PaddedUnits
  <2>2. media \in Nat /\ cache \in [valid : BOOLEAN, lba : Nat, data : [SectorIndex -> Content]]
    BY SwapAssumption DEF TypeOK
  <2> QED
    BY <2>1, <2>2
<1>1. CASE (\E r \in Reads : StartRead(r.lba, r.len, r.skip)) \/ (\E o \in Commands : StartCommand(o))
  <2>1. UNCHANGED <<media, cache>> /\ pc' = "alloc"
    BY <1>1 DEF StartRead, StartCommand, Call, driveVars
  <2> QED
    BY <2>1 DEF MediaInv, InLoop, MediaOrder, Delivered
<1>2. CASE Allocate
  <2>1. UNCHANGED <<media, cache, req, copied, buf>> /\ pc = "alloc" /\ copied = 0
        /\ pc' \in {"return", "frame", "drive"}
    BY <1>2 DEF Allocate, driveVars, BufferInv
  <2>2. pc' = "return" /\ IsRead => DOMAIN buf = {}
    <3>1. SUFFICES ASSUME FrameCount(req.len, req.skip) = 0
                   PROVE  DOMAIN buf = {}
      BY <1>2 DEF Allocate, Frames
    <3>2. req.len + req.skip <= SectorUnits * 0
      BY <1>0, <3>1, FrameCountBounds
    <3> QED
      BY <1>0, <3>2
  <2>3. \A k \in DOMAIN buf : ~(k < copied)
    BY <1>0, <2>1
  <2>4. IsRead' = IsRead
    BY <2>1 DEF IsRead
  <2> QED
    BY <2>1, <2>2, <2>3, <2>4 DEF MediaInv, InLoop, MediaOrder, Delivered
<1>3. CASE AllocationFails
  BY <1>3 DEF AllocationFails, driveVars, MediaInv, InLoop, MediaOrder, Delivered
<1>4. CASE BeginFrame
  <2>1. /\ UNCHANGED <<media, cache, req, i, copied, xferPos, buf>>
        /\ pc = "frame" /\ pc' \in {"cached", "drive"} /\ InLoop /\ IsRead /\ IsRead'
    BY <1>4 DEF BeginFrame, driveVars, InLoop, IsRead, BufferInv
  <2>2. ASSUME pc' = "cached"
        PROVE  /\ copied = 0
               /\ \E m \in 0 .. media : \A o \in SectorIndex : xfer'[xferPos + o].media = m
    <3>1. /\ cache.valid /\ MsfToLba(cdb'.start) = cache.lba
          /\ xfer' = Store(xfer, xferPos, cache.data)
      BY <1>4, <2>2 DEF BeginFrame
    <3>2. MsfToLba(cdb'.start) = req.lba + i
      <4>1. AddressInv'
        BY <1>4, BeginFrameAddress
      <4> QED
        BY <2>1, <2>2, <4>1 DEF AddressInv
    <3>3. copied = 0
      BY <1>0, <2>1, <3>1, <3>2 DEF MediaInv
    <3>4. \A o \in SectorIndex : xfer'[xferPos + o] = cache.data[o]
      BY <1>0, <2>1, <3>1, StoredSector
    <3> QED
      BY <3>1, <3>3, <3>4 DEF MediaInv
  <2>3. pc' /= "return" /\ pc' /= "frame"
    BY <2>1
  <2> QED
    BY <2>1, <2>2, <2>3 DEF MediaInv, InLoop, MediaOrder, Delivered
<1>5. CASE CachedFrame
  <2>1. /\ pc = "cached" /\ IsRead /\ CopyOut(xfer') /\ EndFrame /\ UNCHANGED <<req, xfer, media>>
        /\ ~cache'.valid
    BY <1>0, <1>5 DEF CachedFrame, BufferInv
  <2>2. \A p \in DOMAIN xfer : p >= xferPos + SectorUnits => xfer'[p] = Zero
    BY <2>1 DEF TailInv, InLoop
  <2>3. PICK m \in 0 .. media : \A o \in SectorIndex : xfer'[xferPos + o].media = m
    BY <2>1 DEF MediaInv
  <2>4. copied = 0
    BY <2>1 DEF MediaInv
  <2> QED
    BY <2>1, <2>2, <2>3, <2>4, DeliveredMedia
<1>6. CASE DriveReads
  <2> DEFINE lba == MsfToLba(cdb.start)
             s == Sector(media, lba)
  <2>1. /\ pc = "drive" /\ IsRead /\ InLoop /\ xfer' = Store(xfer, xferPos, s) /\ CopyOut(xfer') /\ EndFrame
        /\ UNCHANGED <<req, media>> /\ cache' = Remember(s)
    BY <1>6 DEF DriveReads, InLoop
  <2>2. lba \in Nat /\ lba = req.lba + i /\ MsfToLba(cdb.end) - 1 = lba
    BY <2>1, AddressIsNat DEF AddressInv
  <2>3. \A o \in SectorIndex : s[o].media = media
    BY DEF Sector, Disc
  <2>4. s \in [SectorIndex -> Content]
    BY <1>0, <2>2, SectorType
  <2> HIDE DEF s, lba
  <2>5. \A o \in SectorIndex : xfer'[xferPos + o].media = media
    BY <2>1, <2>3, <2>4, StoredSector
  <2>6. DOMAIN xfer = 0 .. PaddedUnits - 1 /\ \A p \in DOMAIN xfer : p >= xferPos + SectorUnits => xfer[p] = Zero
    BY <2>1 DEF TailInv, BufferInv
  <2>7. DOMAIN xfer' = DOMAIN xfer /\ \A p \in DOMAIN xfer : p >= xferPos + SectorUnits => xfer'[p] = Zero
    BY <1>0, <2>1, <2>6 DEF Store
  <2>8. cache'.data = s /\ cache'.lba = lba /\ i' = i + 1
    BY <2>1, <2>2 DEF Remember, EndFrame
  <2>9. cache'.lba < req.lba + i' /\ media \in 0 .. media
    BY <1>0, <2>2, <2>8
  <2> QED
    BY <2>1, <2>3, <2>5, <2>7, <2>8, <2>9, DeliveredMedia
<1>7. CASE DriveAnswers
  <2>1. ~IsRead' /\ pc' = "return" /\ media' = media /\ cache'.data = cache.data /\ (cache'.valid => cache.valid)
    BY <1>0, <1>7 DEF DriveAnswers, IsRead, EndFrame, Frames, TypeOK
  <2> QED
    BY <2>1 DEF MediaInv, InLoop, MediaOrder, Delivered
<1>8. CASE DriveFailsRetry
  <2>1. UNCHANGED <<media, cache, pc, req, i, copied, buf>> /\ pc = "drive"
    BY <1>8 DEF DriveFailsRetry, loopVars, driveVars
  <2>2. IsRead' = IsRead
    BY <2>1 DEF IsRead
  <2> QED
    BY <2>1, <2>2 DEF MediaInv, InLoop, MediaOrder, Delivered
<1>9. CASE DriveFails
  <2>1. /\ pc = "drive" /\ UNCHANGED <<media, cache, req, copied, buf>> /\ rv' = 1
        /\ i' = i + 1 /\ pc' \in {"frame", "return"}
    BY <1>9 DEF DriveFails, EndFrame, driveVars
  <2>2. IsRead' = IsRead
    BY <2>1 DEF IsRead
  <2>3. IsRead /\ copied > 0 /\ cache.valid => cache.lba < req.lba + i'
    BY <1>0, <2>1 DEF MediaInv
  <2> QED
    BY <2>1, <2>2, <2>3 DEF MediaInv, InLoop, MediaOrder, Delivered
<1>10. CASE Return
  <2>1. pc' = "idle" /\ media' = media /\ cache'.data = cache.data /\ (cache'.valid => cache.valid)
    BY <1>0, <1>10 DEF Return
  <2> QED
    BY <2>1 DEF MediaInv, InLoop, MediaOrder, Delivered
<1>11. CASE SwapDisc \/ UNCHANGED vars
  <2>1. /\ media' \in {media, media + 1} /\ UNCHANGED <<cache, pc, req, i, copied, xfer, xferPos, buf, rv>>
    BY <1>11 DEF SwapDisc, vars, loopVars, bufferVars, driveVars
  <2>2. IsRead' = IsRead /\ 0 .. media \subseteq 0 .. media' /\ media <= media'
    BY <1>0, <2>1 DEF IsRead
  <2>3. MediaOrder'
    <3>1. ASSUME Delivered', NEW k \in DOMAIN buf, k > 0, buf[k].kind = "disc"
          PROVE  buf[k - 1].media <= buf[k].media /\ buf[k].media <= media'
      <4>1. buf[k - 1].media <= buf[k].media /\ buf[k].media <= media
        BY <2>1, <2>2, <3>1 DEF MediaInv, MediaOrder, Delivered
      <4>2. buf[k].media \in Int
        BY <1>0 DEF Content
      <4>3. media' \in Int
        BY <1>0, <2>1
      <4> QED
        BY <1>0, <2>2, <4>1, <4>2, <4>3
    <3> QED
      BY <2>1, <3>1 DEF MediaOrder
  <2>4. \/ ~cache.valid
        \/ \E m \in 0 .. media' : \A o \in SectorIndex : cache.data[o].media = m
    BY <2>2 DEF MediaInv
  <2>5. pc = "cached" => \E m \in 0 .. media' : \A o \in SectorIndex : xfer[xferPos + o].media = m
    BY <2>2 DEF MediaInv
  <2>6. InLoop /\ IsRead =>
          \A k \in DOMAIN buf : k < copied => buf[k].media \in 0 .. media'
    BY <2>2 DEF MediaInv
  <2> QED
    BY <2>1, <2>2, <2>3, <2>4, <2>5, <2>6 DEF MediaInv, InLoop
<1> QED
  BY <1>1, <1>2, <1>3, <1>4, <1>5, <1>6, <1>7, <1>8, <1>9, <1>10, <1>11 DEF Next, Step, InCall

\* However often the disc is changed, a read that returns success has content
\* of an earlier disc only in front of content of a later one.
THEOREM MediaOrderHolds == Spec => []MediaOrder
<1> DEFINE I == ContentInv /\ TailInv /\ RangeInv /\ OrderInv /\ MediaInv
<1>1. Init => I
  <2>1. Init => ContentInv
    BY DEF Init, ContentInv, InLoop, CleanReadIsExact, Delivered
  <2>2. Init => TailInv /\ RangeInv /\ OrderInv
    BY DEF Init, TailInv, RangeInv, OrderInv, InLoop, DeliveredInOrder, Delivered
  <2>3. Init => MediaInv
    <3> SUFFICES ASSUME Init
                 PROVE  MediaInv
      OBVIOUS
    <3>1. cache.valid = FALSE
      BY DEF Init
    <3>2. cache.valid => FALSE
      BY <3>1, Zenon
    <3>3. pc = "idle"
      BY DEF Init
    <3> QED
      BY <3>2, <3>3 DEF MediaInv, InLoop, MediaOrder, Delivered
  <2> QED
    BY <2>1, <2>2, <2>3
<1>2. IInv /\ IInv' /\ I /\ [Next]_vars => I'
  BY ContentStep, OrderStep, MediaStep DEF IInv
<1>3. I => MediaOrder
  BY DEF MediaInv
<1> HIDE DEF I
<1> QED
  BY <1>1, <1>2, <1>3, Invariance, PTL DEF Spec
=============================================================================
