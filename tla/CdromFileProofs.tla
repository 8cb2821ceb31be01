--------------------------- MODULE CdromFileProofs ---------------------------
(***************************************************************************)
(* A track as a file, for every table of contents, sector size, sequence   *)
(* of seeks and behaviour of the drive: its two positions agree, a read    *)
(* stays within its track, and the file is a TrackReader.                  *)
(*                                                                         *)
(* The engine below is the one of CdromReadProofs, called with what the    *)
(* file asks for in place of the requests in Reads: Engine collects its    *)
(* inductive invariants, and OpInv ties the call in progress to the file.  *)
(***************************************************************************)
EXTENDS CdromFile, CdromReadProofs

USE SectorAssumption

-----------------------------------------------------------------------------
(* Addresses.                                                              *)

\* The file of a track of the table.
LEMMA TrackFacts ==
  ASSUME NEW t \in Tracks
  PROVE  /\ Toc[t].lba \in Nat /\ LbaLen(Toc[t]) \in Nat
         /\ Toc[t].lba + LbaLen(Toc[t]) < MsfLimit
         /\ TrackUnits(Toc[t]) = LbaLen(Toc[t]) * SectorUnits
         /\ TrackUnits(Toc[t]) \in Nat
<1> DEFINE tr == Toc[t]
<1>1. tr \in TrackRecord /\ LbaLen(tr) >= 0 /\ tr.lba + LbaLen(tr) < MsfLimit
  BY TocAssumption
<1> HIDE DEF tr
<1>2. tr.lba \in Nat /\ LbaLen(tr) \in Int
  BY <1>1 DEF TrackRecord, LbaLen, PregapLen
<1>3. LbaLen(tr) * SectorUnits \in Nat
  BY <1>1, <1>2
<1> QED
  BY <1>1, <1>2, <1>3 DEF TrackUnits, tr

\* A position is in a sector, at an offset; one before the track in a sector
\* before it.
LEMMA PosFacts ==
  ASSUME NEW p \in Int
  PROVE  /\ p \div SectorUnits \in Int /\ p % SectorUnits \in 0 .. SectorUnits - 1
         /\ p = SectorUnits * (p \div SectorUnits) + (p % SectorUnits)
         /\ p >= 0 => p \div SectorUnits >= 0
OBVIOUS

\* Rounding towards zero makes no difference in the track, nor at the start of a
\* sector.
LEMMA TruncFacts ==
  ASSUME NEW p \in Int
  PROVE  /\ TruncDiv(p, SectorUnits) \in Int
         /\ p >= 0 \/ p % SectorUnits = 0 => TruncDiv(p, SectorUnits) = p \div SectorUnits
<1>1. CASE p >= 0
  BY <1>1, PosFacts DEF TruncDiv
<1>2. CASE p < 0
  <2> DEFINE q == p \div SectorUnits
             m == (-p) \div SectorUnits
             r == (-p) % SectorUnits
  <2>1. /\ q \in Int /\ m \in Int /\ r \in 0 .. SectorUnits - 1
        /\ p = SectorUnits * q + (p % SectorUnits)
        /\ -p = SectorUnits * m + r
    BY PosFacts
  <2>2. TruncDiv(p, SectorUnits) = -m
    BY <1>2 DEF TruncDiv
  <2>3. ASSUME p % SectorUnits = 0
        PROVE  q = -m
    <3> HIDE DEF q, m, r
    <3>1. SectorUnits * q + SectorUnits * m = SectorUnits * (q + m)
      BY <2>1
    <3>2. p = SectorUnits * q
      BY <2>1, <2>3
    <3>3. PICK a \in Int : a = SectorUnits * q
      BY <2>1
    <3>4. PICK b \in Int : b = SectorUnits * m
      BY <2>1
    <3>5. a + b = -r
      BY <2>1, <3>2, <3>3, <3>4
    <3>6. SectorUnits * (q + m) = -r
      BY <3>1, <3>3, <3>4, <3>5
    <3>7. PICK s \in Int : s = q + m
      BY <2>1
    <3>8. SectorUnits * s \in -(SectorUnits - 1) .. 0
      BY <2>1, <3>6, <3>7
    <3>9. s = 0
      <4>1. CASE s >= 1
        <5>1. SectorUnits * 1 <= SectorUnits * s
          BY <4>1, <3>7, MultMono
        <5> QED
          BY <3>8, <5>1
      <4>2. CASE s <= -1
        <5>1. SectorUnits * 1 <= SectorUnits * (-s)
          BY <4>2, <3>7, MultMono
        <5>2. SectorUnits * (-s) = -(SectorUnits * s)
          BY <3>7
        <5> QED
          BY <3>8, <5>1, <5>2
      <4> QED
        BY <3>7, <4>1, <4>2
    <3> QED
      BY <2>1, <3>7, <3>9
  <2> QED
    BY <1>2, <2>1, <2>2, <2>3
<1> QED
  BY <1>1, <1>2

\* The sectors of a read that ends in the track are sectors of the track.
LEMMA ReadFits ==
  ASSUME NEW p \in Int, NEW len \in Nat, NEW n \in Nat, p + len <= n * SectorUnits
  PROVE  (p \div SectorUnits) + FrameCount(len, p % SectorUnits) <= n
<1> DEFINE q == p \div SectorUnits
           sk == p % SectorUnits
           f == FrameCount(len, sk)
<1>1. q \in Int /\ sk \in 0 .. SectorUnits - 1 /\ p = SectorUnits * q + sk
  BY PosFacts
<1> HIDE DEF q, sk
<1>2. f \in Nat /\ SectorUnits * f < len + sk + SectorUnits /\ SectorUnits * f \in Nat
  BY <1>1, FrameCountBounds
<1> HIDE DEF f
<1>3. SUFFICES ASSUME n + 1 <= q + f PROVE FALSE
  BY <1>1, <1>2 DEF q, sk, f
<1>4. SectorUnits * (n + 1) <= SectorUnits * (q + f)
  BY <1>1, <1>2, <1>3, MultMono
<1>5. SectorUnits * (q + f) = SectorUnits * q + SectorUnits * f
  BY <1>1, <1>2
<1>6. SectorUnits * (n + 1) = n * SectorUnits + SectorUnits
  OBVIOUS
<1>7. SectorUnits * q \in Int /\ n * SectorUnits \in Nat
  BY <1>1
<1> QED
  BY <1>1, <1>2, <1>4, <1>5, <1>6, <1>7

\* The sector of a position up to the end of a track, and its address, which
\* survives the detour through MSF.
Whole(pos) == pos >= 0 \/ pos % SectorUnits = 0

LEMMA WordFacts ==
  ASSUME NEW a \in Int
  PROVE  /\ a % Word \in Nat
         /\ a \in 0 .. MsfLimit - 1 => a % Word = a
<1>1. ASSUME NEW w \in Nat \ {0}
      PROVE  a % w \in Nat /\ (a \in 0 .. w - 1 => a % w = a)
  OBVIOUS
<1>2. Word \in Nat \ {0} /\ MsfLimit \in Int /\ MsfLimit <= Word
  BY WordAssumption, MsfLimitValue
<1>3. a \in 0 .. MsfLimit - 1 => a \in 0 .. Word - 1
  BY <1>2
<1> QED
  BY <1>1, <1>2, <1>3

LEMMA AddressFacts ==
  ASSUME NEW t \in Tracks, NEW p \in Int
  PROVE  /\ SectorAt(t, p) \in Int /\ LbaAt(Toc[t], p) \in Int
         /\ p >= 0 => SectorAt(t, p) \in Nat
         /\ Whole(p) => LbaAt(Toc[t], p) = SectorAt(t, p)
         /\ p <= TrackUnits(Toc[t]) => SectorAt(t, p) < MsfLimit
         /\ p <= TrackUnits(Toc[t]) /\ SectorAt(t, p) >= 0 => ThroughMsf(SectorAt(t, p)) = SectorAt(t, p)
<1>0. Toc[t].lba \in Nat /\ p \div SectorUnits \in Int /\ (p >= 0 => p \div SectorUnits >= 0)
      /\ TruncDiv(p, SectorUnits) \in Int
  BY TrackFacts, PosFacts, TruncFacts
<1>1. SectorAt(t, p) \in Int /\ LbaAt(Toc[t], p) \in Int
  <2>1. ASSUME NEW a \in Nat, NEW b \in Int
        PROVE  a + b \in Int
    OBVIOUS
  <2> QED
    BY <1>0, <2>1, Zenon DEF LbaAt, SectorAt
<1>2. p >= 0 => SectorAt(t, p) \in Nat
  <2>1. ASSUME NEW a \in Nat, NEW b \in Int, b >= 0
        PROVE  a + b \in Nat
    BY <2>1
  <2> QED
    BY <1>0, <2>1, Zenon DEF SectorAt
<1>3. Whole(p) => LbaAt(Toc[t], p) = SectorAt(t, p)
  BY TruncFacts DEF LbaAt, SectorAt, Whole
<1>4. ASSUME p <= TrackUnits(Toc[t])
      PROVE  SectorAt(t, p) < MsfLimit
  <2> DEFINE n == LbaLen(Toc[t])
             f == FrameCount(0, p % SectorUnits)
  <2>1. n \in Nat /\ p + 0 <= n * SectorUnits /\ Toc[t].lba \in Nat /\ Toc[t].lba + n < MsfLimit
    BY <1>4, TrackFacts
  <2> HIDE DEF n
  <2>2. (p \div SectorUnits) + f <= n /\ f \in Nat /\ p \div SectorUnits \in Int
    BY <2>1, ReadFits, PosFacts, FrameCountBounds
  <2> HIDE DEF f
  <2> QED
    BY <2>1, <2>2, MsfLimitInt DEF SectorAt
<1>5. ASSUME p <= TrackUnits(Toc[t]), SectorAt(t, p) >= 0
      PROVE  ThroughMsf(SectorAt(t, p)) = SectorAt(t, p)
  <2>1. SectorAt(t, p) \in 0 .. MsfLimit - 1
    BY <1>1, <1>4, <1>5, MsfLimitInt
  <2>2. SectorAt(t, p) % Word = SectorAt(t, p)
    BY <2>1, WordFacts
  <2>3. SectorAt(t, p) \in Nat /\ SectorAt(t, p) < MsfLimit
    BY <1>1, <1>4, <1>5
  <2>4. MsfToLba(LbaToMsf(SectorAt(t, p))) = SectorAt(t, p)
    BY <2>3, MsfRoundTrip
  <2> QED
    BY <2>2, <2>4, Zenon DEF ThroughMsf
<1> QED
  BY <1>1, <1>2, <1>3, <1>4, <1>5

\* Any address a seek computes becomes one.
LEMMA ThroughMsfType ==
  ASSUME NEW lba \in Int
  PROVE  ThroughMsf(lba) \in Nat
<1>1. lba % Word \in Nat
  BY WordFacts
<1>2. LbaToMsf(lba % Word) \in MSF
  BY <1>1, LbaToMsfType
<1> QED
  BY <1>2, MsfToLbaType, MsfLimitInt DEF ThroughMsf

-----------------------------------------------------------------------------
(* The engine under the file.                                              *)

Engine == IInv /\ ContentInv /\ TailInv /\ RangeInv /\ OrderInv

\* The engine starts as it does on its own.
LEMMA EngineInit == Init => Engine
<1>1. Init => IInv
  BY InitIInv
<1>2. Init => ContentInv
  BY DEF Init, ContentInv, InLoop, CleanReadIsExact, Delivered
<1>3. Init => TailInv /\ RangeInv /\ OrderInv
  BY DEF Init, TailInv, RangeInv, OrderInv, InLoop, DeliveredInOrder, Delivered
<1> QED
  BY <1>1, <1>2, <1>3 DEF Engine

\* Its own steps are those it has been proved for.
LEMMA EngineStep ==
  ASSUME Engine, [Next]_vars
  PROVE  Engine'
<1>1. IInv'
  BY StepIInv DEF Engine
<1>2. ContentInv'
  BY <1>1, ContentStep DEF Engine, IInv
<1>3. TailInv' /\ RangeInv' /\ OrderInv'
  BY <1>1, OrderStep DEF Engine
<1> QED
  BY <1>1, <1>2, <1>3 DEF Engine

\* A read the file asks for is as good as one of Reads.
LEMMA EngineRead ==
  ASSUME Engine, NEW lba \in Nat, NEW len \in Nat, NEW sk \in 0 .. SectorUnits - 1,
         lba + FrameCount(len, sk) < MsfLimit, StartRead(lba, len, sk)
  PROVE  Engine'
<1>1. Call(ReadCd, lba, len, sk)
  BY DEF StartRead
<1>2. LoopInv'
  BY <1>1, CallLoopInv DEF Engine, IInv
<1>3. AddressInv'
  BY <1>1, CallAddress
<1>4. CacheLabel'
  BY <1>1 DEF Call, driveVars, Engine, IInv, CacheLabel
<1>5. ContentInv'
  BY <1>1 DEF Call, ContentInv, InLoop, CleanReadIsExact, Delivered
<1>6. TailInv' /\ RangeInv' /\ OrderInv'
  BY <1>1, CallOrder
<1> QED
  BY <1>2, <1>3, <1>4, <1>5, <1>6 DEF Engine, IInv

\* An empty cache is no matter to it.
CacheType == [valid : BOOLEAN, lba : Nat, data : [SectorIndex -> Content]]

LEMMA EngineEmptied ==
  ASSUME Engine, cache' \in CacheType, cache'.valid = FALSE,
         UNCHANGED <<media, pc, req, loopVars, bufferVars, retryVars, rv, failed>>
  PROVE  Engine'
<1>1. UNCHANGED <<media, pc, req, loopVars, bufferVars, retryVars, rv, failed>>
  OBVIOUS
<1>2. IsRead' = IsRead /\ Frames' = Frames /\ PaddedUnits' = PaddedUnits /\ Base(0)' = Base(0) /\ Base(i)' = Base(i)
      /\ Origin' = Origin
  BY <1>1 DEF IsRead, Frames, PaddedUnits, Base, Origin, loopVars
<1>3. LoopInv'
  <2>1. cache' \in [valid : BOOLEAN, lba : Nat, data : [SectorIndex -> Content]]
    BY DEF CacheType
  <2>2. TypeOK'
    BY <1>1, <2>1 DEF Engine, IInv, LoopInv, TypeOK, loopVars, bufferVars, retryVars
  <2>3. BufferInv'
    BY <1>1, <1>2 DEF Engine, IInv, LoopInv, BufferInv, loopVars, bufferVars
  <2> QED
    BY <2>2, <2>3 DEF LoopInv
<1>4. AddressInv'
  BY <1>1, <1>2 DEF Engine, IInv, AddressInv, InReach, loopVars
<1>5. CacheLabel'
  <2>1. cache'.valid = FALSE
    OBVIOUS
  <2>2. cache'.valid => FALSE
    BY <2>1, Zenon
  <2> QED
    BY <2>2 DEF CacheLabel
<1>6. ContentInv'
  BY <1>1, <1>2
     DEF Engine, ContentInv, InLoop, CleanReadIsExact, Delivered, loopVars, bufferVars
<1>7. TailInv' /\ RangeInv' /\ OrderInv'
  BY <1>1, <1>2
     DEF Engine, TailInv, RangeInv, OrderInv, InLoop, DeliveredInOrder, Delivered, loopVars, bufferVars
<1> QED
  BY <1>3, <1>4, <1>5, <1>6, <1>7 DEF Engine, IInv

\* A new handle has nothing cached.
LEMMA EngineOpen ==
  ASSUME Engine, NEW t \in Tracks, Open(t)
  PROVE  Engine'
<1>1. /\ cache' = [valid |-> FALSE, lba |-> 0, data |-> [o \in SectorIndex |-> Zero]]
      /\ UNCHANGED <<media, pc, req, loopVars, bufferVars, retryVars, rv, failed>>
  BY DEF Open
<1>2. cache' \in CacheType /\ cache'.valid = FALSE
  BY <1>1, ContentTypes DEF CacheType
<1> QED
  BY <1>1, <1>2, EngineEmptied

\* A read that is not followed drops the cached frame at most.
LEMMA EngineWraps ==
  ASSUME Engine, NEW want, ReadWraps(want)
  PROVE  Engine'
<1>1. UNCHANGED <<media, pc, req, loopVars, bufferVars, retryVars, rv, failed>>
  BY DEF ReadWraps
<1>2. CASE cache' = [cache EXCEPT !.valid = FALSE]
  <2>1. cache \in CacheType
    BY DEF Engine, IInv, LoopInv, TypeOK, CacheType
  <2>2. cache' \in CacheType /\ cache'.valid = FALSE
    BY <1>2, <2>1 DEF CacheType
  <2> QED
    BY <1>1, <2>2, EngineEmptied
<1>3. CASE UNCHANGED cache
  <2>1. UNCHANGED vars
    BY <1>1, <1>3 DEF vars, driveVars
  <2> QED
    BY <2>1, EngineStep
<1> QED
  BY <1>2, <1>3 DEF ReadWraps

-----------------------------------------------------------------------------
(* The inductive invariant of the file.                                    *)

\* The call in progress is the one the file is in, with the file's arguments.
OpInv ==
  /\ op.kind \in {"none", "lost"} <=> pc = "idle"
  /\ op.kind = "read" =>
       /\ handle /\ bytePos < TrackUnits(Toc[track])
       /\ Whole(bytePos) /\ (bytePos >= 0 \/ bytePos + op.want >= 0)
       /\ IsRead /\ req.lba = curLba /\ req.skip = bytePos % SectorUnits /\ req.len = op.take
       /\ op.take = Take(op.want)

FileInv == Engine /\ FileTypeOK /\ OpInv /\ PositionsAgree /\ ReadWithinTrack

\* The length that is read ends in the track, at its end when it was cut.
LEMMA TakeFacts ==
  ASSUME FileTypeOK, bytePos < TrackUnits(Toc[track]), NEW want \in Nat
  PROVE  /\ Take(want) \in Nat
         /\ bytePos + Take(want) <= TrackUnits(Toc[track])
         /\ Take(want) < want => bytePos + Take(want) = TrackUnits(Toc[track])
         /\ bytePos >= 0 \/ bytePos + want >= 0 => bytePos + Take(want) >= 0
<1>1. bytePos \in Int /\ TrackUnits(Toc[track]) \in Nat
  BY TrackFacts DEF FileTypeOK
<1> QED
  BY <1>1 DEF Take

\* A call in progress stays one, with the same arguments.
LEMMA InCallFacts ==
  ASSUME InCall
  PROVE  pc /= "idle" /\ pc' /= "idle" /\ req' = req
<1>1. CASE Allocate \/ AllocationFails \/ BeginFrame
  BY <1>1 DEF Allocate, AllocationFails, BeginFrame
<1>2. CASE CachedFrame \/ DriveReads \/ DriveAnswers \/ DriveFails
  BY <1>2 DEF CachedFrame, DriveReads, DriveAnswers, DriveFails, EndFrame
<1>3. CASE DriveFailsRetry
  BY <1>3 DEF DriveFailsRetry
<1> QED
  BY <1>1, <1>2, <1>3 DEF InCall

\* The read the file begins is within reach of MSF addresses.
LEMMA BeginFacts ==
  ASSUME FileInv, NEW want \in Nat, BeginRead(want)
  PROVE  /\ StartRead(curLba, Take(want), bytePos % SectorUnits)
         /\ curLba \in Nat /\ Take(want) \in Nat /\ bytePos % SectorUnits \in 0 .. SectorUnits - 1
         /\ curLba + FrameCount(Take(want), bytePos % SectorUnits) < MsfLimit
<1> DEFINE len == Take(want)
           n == LbaLen(Toc[track])
           f == FrameCount(len, bytePos % SectorUnits)
<1>1. handle /\ bytePos < TrackUnits(Toc[track]) /\ StartRead(curLba, len, bytePos % SectorUnits)
  BY DEF BeginRead
<1>2. bytePos \in Int /\ curLba \in Nat /\ track \in Tracks /\ bytePos % SectorUnits \in 0 .. SectorUnits - 1
      /\ TrackUnits(Toc[track]) \in Nat
  BY PosFacts, TrackFacts DEF FileInv, FileTypeOK
<1>3. bytePos >= 0 => curLba = Toc[track].lba + (bytePos \div SectorUnits)
  BY <1>1, <1>2 DEF FileInv, PositionsAgree, SectorAt
<1>4. len \in Nat /\ bytePos + len <= n * SectorUnits /\ n \in Nat
      /\ Toc[track].lba \in Nat /\ Toc[track].lba + n < MsfLimit
  BY <1>1, <1>2, TakeFacts, TrackFacts DEF FileInv
<1> HIDE DEF len, n
<1>5. (bytePos \div SectorUnits) + f <= n /\ f \in Nat /\ bytePos \div SectorUnits \in Int
  BY <1>2, <1>4, ReadFits, PosFacts, FrameCountBounds
<1>6. curLba + f < MsfLimit
  <2>1. CASE bytePos >= 0
    <3> HIDE DEF f
    <3> QED
      BY <1>3, <1>4, <1>5, <2>1, MsfLimitInt
  <2>2. CASE bytePos < 0
    <3>1. ~Wraps(want)
      BY DEF BeginRead
    <3>2. bytePos % SectorUnits = 0 /\ InReach([lba |-> curLba, len |-> len, skip |-> 0])
      BY <2>2, <3>1 DEF Wraps, len
    <3> QED
      BY <3>2 DEF InReach
  <2> QED
    BY <1>2, <2>1, <2>2
<1> QED
  BY <1>1, <1>2, <1>4, <1>6 DEF len

\* The steps of the file, seen from the engine.
LEMMA FileEngine ==
  ASSUME FileInv, [FileNext]_allVars
  PROVE  Engine'
<1>0. Engine
  BY DEF FileInv
<1>1. ASSUME NEW t \in Tracks, Open(t)
      PROVE  Engine'
  BY <1>0, <1>1, EngineOpen
<1>2. ASSUME UNCHANGED vars
      PROVE  Engine'
  BY <1>0, <1>2, EngineStep
<1>3. CASE Close
  BY <1>2, <1>3 DEF Close
<1>4. ASSUME NEW w \in Whence, NEW off \in SeekOffsets, Seek(w, off)
      PROVE  Engine'
  BY <1>2, <1>4 DEF Seek
<1>5. ASSUME NEW n \in ReadLens, ReadAtEnd(n)
      PROVE  Engine'
  BY <1>2, <1>5 DEF ReadAtEnd
<1>6. ASSUME NEW n \in ReadLens, BeginRead(n)
      PROVE  Engine'
  <2>1. n \in Nat
    BY LensAssumption
  <2> QED
    BY <1>0, <1>6, <2>1, BeginFacts, EngineRead
<1>7. ASSUME NEW c \in Commands, BeginCommand(c)
      PROVE  Engine'
  <2>1. Next
    BY <1>7 DEF BeginCommand, Next
  <2> QED
    BY <1>0, <2>1, EngineStep
<1>8. CASE FileStep
  <2>1. Next
    BY <1>8 DEF FileStep, CallStep, EndRead, EndCommand, Next, Step
  <2> QED
    BY <1>0, <2>1, EngineStep
<1>11. ASSUME NEW n \in ReadLens, ReadWraps(n)
       PROVE  Engine'
  BY <1>0, <1>11, EngineWraps
<1>9. CASE SwapDisc
  <2>1. Next
    BY <1>9 DEF Next
  <2> QED
    BY <1>0, <2>1, EngineStep
<1>10. CASE UNCHANGED allVars
  BY <1>2, <1>10 DEF allVars
<1> QED
  BY <1>1, <1>3, <1>4, <1>5, <1>6, <1>7, <1>8, <1>9, <1>10, <1>11 DEF FileNext, Lost

\* Where a seek leaves the two positions: in the track they agree.
LEMMA SeekFacts ==
  ASSUME FileInv, NEW w \in Whence, NEW off \in SeekOffsets, Seek(w, off)
  PROVE  /\ handle /\ bytePos' \in Int /\ curLba' \in Nat
         /\ bytePos' < TrackUnits(Toc[track]) /\ Whole(bytePos') /\ SectorAt(track, bytePos') >= 0
              => curLba' = SectorAt(track, bytePos')
<1> DEFINE pos == CASE w = "SEEK_SET" -> off
                    [] w = "SEEK_CUR" -> bytePos + off
                    [] w = "SEEK_END" -> TrackUnits(Toc[track])
           lba == SeekLba(w, off, pos)
<1>1. handle /\ pos \in -MaxPos .. MaxPos /\ bytePos' = pos /\ curLba' = ThroughMsf(lba)
  BY DEF Seek
<1>2. w = "SEEK_END" => pos = TrackUnits(Toc[track])
  OBVIOUS
<1>3. /\ w /= "SEEK_END" => lba = LbaAt(Toc[track], pos)
      /\ w = "SEEK_END" => lba = LbaLen(Toc[track]) + TruncDiv(off, SectorUnits)
  BY DEF SeekLba
<1> HIDE DEF pos, lba
<1>4. pos \in Int /\ track \in Tracks /\ TrackUnits(Toc[track]) \in Nat
  BY <1>1, MaxPosAssumption, TrackFacts DEF FileInv, FileTypeOK
<1>5. curLba' \in Nat
  <2>1. LbaAt(Toc[track], pos) \in Int
    BY <1>4, AddressFacts
  <2>2. LbaLen(Toc[track]) \in Int /\ TruncDiv(off, SectorUnits) \in Int
    BY <1>4, OffsetsAssumption, TrackFacts, TruncFacts
  <2>3. lba \in Int
    BY <1>3, <2>1, <2>2
  <2> QED
    BY <1>1, <2>3, ThroughMsfType
<1>6. ASSUME pos < TrackUnits(Toc[track]), Whole(pos), SectorAt(track, pos) >= 0
      PROVE  curLba' = SectorAt(track, pos)
  <2>1. w /= "SEEK_END"
    BY <1>2, <1>4, <1>6
  <2>2. pos <= TrackUnits(Toc[track])
    BY <1>4, <1>6
  <2>3. LbaAt(Toc[track], pos) = SectorAt(track, pos) /\ ThroughMsf(SectorAt(track, pos)) = SectorAt(track, pos)
    BY <1>4, <1>6, <2>2, AddressFacts
  <2>4. curLba' = ThroughMsf(lba) /\ lba = LbaAt(Toc[track], pos)
    BY <1>1, <1>3, <2>1
  <2> QED
    BY <2>3, <2>4
<1> QED
  BY <1>1, <1>4, <1>5, <1>6

\* What a read of the file returns.
LEMMA EndReadFacts ==
  ASSUME FileInv, EndRead
  PROVE  /\ op.want \in Nat /\ op.take \in Nat /\ Returned \in Nat /\ track \in Tracks
         /\ bytePos \in Int /\ TrackUnits(Toc[track]) \in Nat /\ bytePos < TrackUnits(Toc[track])
         /\ bytePos + op.take \in 0 .. TrackUnits(Toc[track])
         /\ Whole(bytePos)
         /\ op.take < op.want => bytePos + op.take = TrackUnits(Toc[track])
         /\ last' = Outcome(Returned, failed = {}, rv /= 0, buf)
         /\ bytePos' = bytePos + Returned
         /\ rv \in {0, 1} /\ Returned = IF rv = 0 THEN op.take ELSE 0
         /\ pc = "return" /\ IsRead /\ 0 .. op.take - 1 = DOMAIN buf
         /\ SectorAt(track, bytePos) >= 0 => curLba = SectorAt(track, bytePos)
         /\ req.lba = curLba /\ req.skip = bytePos % SectorUnits /\ req.len = op.take
<1>1. op.kind = "read" /\ pc = "return"
  BY DEF EndRead, Return
<1>2. /\ op.want \in Nat /\ op.take \in Nat /\ track \in Tracks /\ bytePos \in Int
      /\ rv \in {0, 1} /\ buf \in [0 .. req.len - 1 -> Content]
  BY DEF FileInv, FileTypeOK, TypeOK
<1>3. /\ handle /\ bytePos < TrackUnits(Toc[track])
      /\ Whole(bytePos) /\ (bytePos >= 0 \/ bytePos + op.want >= 0)
      /\ IsRead /\ req.lba = curLba /\ req.skip = bytePos % SectorUnits /\ req.len = op.take
      /\ op.take = Take(op.want)
  BY <1>1 DEF FileInv, OpInv
<1>4. /\ bytePos + op.take <= TrackUnits(Toc[track]) /\ bytePos + op.take >= 0
      /\ op.take < op.want => bytePos + op.take = TrackUnits(Toc[track])
      /\ TrackUnits(Toc[track]) \in Nat
  BY <1>2, <1>3, TakeFacts, TrackFacts DEF FileInv
<1>5. SectorAt(track, bytePos) >= 0 => curLba = SectorAt(track, bytePos)
  BY <1>2, <1>3 DEF FileInv, PositionsAgree, Whole
<1>6. last' = Outcome(Returned, failed = {}, rv /= 0, buf) /\ bytePos' = bytePos + Returned
  BY DEF EndRead
<1>7. Returned \in Nat /\ Returned = IF rv = 0 THEN op.take ELSE 0
  BY <1>2 DEF Returned
<1> QED
  BY <1>1, <1>2, <1>3, <1>4, <1>5, <1>6, <1>7

\* Every operation keeps the types.
LEMMA FileTypeStep ==
  ASSUME FileInv, [FileNext]_allVars
  PROVE  FileTypeOK'
<1> USE DEF FileInv, FileTypeOK, fileVars
<1>0. TypeOK'
  BY FileEngine DEF Engine, IInv, LoopInv
<1>1. ASSUME NEW t \in Tracks, Open(t)
      PROVE  FileTypeOK'
  <2>1. curLba' \in Nat
    BY <1>1, AddressFacts, ThroughMsfType DEF Open
  <2>2. handle' = TRUE /\ eof' = FALSE /\ track' \in Tracks /\ bytePos' = 0 /\ UNCHANGED <<op, last>>
    BY <1>1 DEF Open
  <2>3. handle' \in BOOLEAN /\ eof' \in BOOLEAN
    BY <2>2, Zenon
  <2> QED
    BY <1>0, <2>1, <2>2, <2>3
<1>2. CASE Close
  BY <1>0, <1>2 DEF Close
<1>3. ASSUME NEW w \in Whence, NEW off \in SeekOffsets, Seek(w, off)
      PROVE  FileTypeOK'
  <2>1. eof' = FALSE /\ UNCHANGED <<handle, track, op, last>>
    BY <1>3 DEF Seek
  <2>2. eof' \in BOOLEAN
    BY <2>1, Zenon
  <2>3. bytePos' \in Int /\ curLba' \in Nat
    BY <1>3, SeekFacts
  <2> QED
    BY <1>0, <2>1, <2>2, <2>3
<1>4. ASSUME NEW n \in ReadLens, ReadAtEnd(n)
      PROVE  FileTypeOK'
  <2>1. UNCHANGED <<handle, track, bytePos, curLba, op>> /\ last' = Outcome(0, TRUE, FALSE, buf)
    BY <1>4 DEF ReadAtEnd
  <2>2. eof' \in BOOLEAN
    BY <1>4 DEF ReadAtEnd
  <2>3. last'.from \in Int /\ last'.ret \in Nat /\ last'.clean \in BOOLEAN /\ last'.error \in BOOLEAN
    BY <2>1 DEF Outcome
  <2> QED
    BY <1>0, <2>1, <2>2, <2>3
<1>5. ASSUME NEW n \in ReadLens, BeginRead(n)
      PROVE  FileTypeOK'
  <2>1. n \in Nat
    BY LensAssumption
  <2>2. Take(n) \in Nat
    BY <1>5, <2>1, BeginFacts
  <2>3. op' = [kind |-> "read", want |-> n, take |-> Take(n)] /\ UNCHANGED <<handle, track, bytePos, curLba, eof, last>>
    BY <1>5 DEF BeginRead
  <2>4. op' \in [kind : {"none", "read", "command", "lost"}, want : Nat, take : Nat]
    BY <2>1, <2>2, <2>3
  <2> QED
    BY <1>0, <2>3, <2>4
<1>6. NoOp \in [kind : {"none", "read", "command", "lost"}, want : Nat, take : Nat]
  BY DEF NoOp
<1>12. ASSUME NEW n \in ReadLens, ReadWraps(n)
       PROVE  FileTypeOK'
  <2>1. UNCHANGED <<handle, track, bytePos, curLba>>
    BY <1>12 DEF ReadWraps
  <2>2. CASE last' = Outcome(0, FALSE, TRUE, buf) /\ eof' = (eof \/ n > 0) /\ UNCHANGED op
    <3>1. last'.from \in Int /\ last'.ret \in Nat /\ last'.clean \in BOOLEAN /\ last'.error \in BOOLEAN
      BY <2>2 DEF Outcome
    <3>2. eof' \in BOOLEAN
      BY <2>2
    <3> QED
      BY <1>0, <2>1, <2>2, <3>1, <3>2
  <2>3. CASE op' = [NoOp EXCEPT !.kind = "lost"] /\ UNCHANGED <<eof, last>>
    <3>1. op' \in [kind : {"none", "read", "command", "lost"}, want : Nat, take : Nat]
      BY <2>3 DEF NoOp
    <3> QED
      BY <1>0, <2>1, <2>3, <3>1
  <2> QED
    BY <1>12, <2>2, <2>3 DEF ReadWraps
<1>7. ASSUME NEW c \in Commands, BeginCommand(c)
      PROVE  FileTypeOK'
  BY <1>0, <1>7 DEF BeginCommand, NoOp
<1>8. CASE CallStep
  BY <1>0, <1>8 DEF CallStep
<1>9. CASE EndRead
  <2>1. /\ Returned \in Nat /\ op.want \in Nat
        /\ bytePos' = bytePos + Returned /\ last' = Outcome(Returned, failed = {}, rv /= 0, buf)
    BY <1>9, EndReadFacts
  <2>2. UNCHANGED <<handle, track>> /\ op' = NoOp
    BY <1>9 DEF EndRead
  <2>3. bytePos' \in Int
    BY <2>1
  <2>4. curLba' \in Nat
    <3>1. CASE rv = 0
      <4>1. bytePos + Returned \in Nat /\ track \in Tracks
        BY <1>9, <3>1, EndReadFacts
      <4>2. Whole(bytePos + Returned)
        BY <4>1 DEF Whole
      <4>3. LbaAt(Toc[track], bytePos + Returned) \in Nat
        BY <4>1, <4>2, AddressFacts
      <4> QED
        BY <1>9, <3>1, <4>3 DEF EndRead
    <3>2. CASE rv /= 0
      BY <1>9, <3>2 DEF EndRead
    <3> QED
      BY <3>1, <3>2
  <2>5. eof' \in BOOLEAN
    BY <1>9 DEF EndRead
  <2>6. last'.from \in Int /\ last'.ret \in Nat /\ last'.clean \in BOOLEAN /\ last'.error \in BOOLEAN
    <3>0. last'.from \in Int
      BY <2>1 DEF Outcome
    <3>1. last'.ret = Returned /\ last'.clean = (failed = {}) /\ last'.error = (rv /= 0)
      BY <2>1 DEF Outcome
    <3>2. (failed = {}) \in BOOLEAN /\ (rv /= 0) \in BOOLEAN
      OBVIOUS
    <3> QED
      BY <2>1, <3>0, <3>1, <3>2, Zenon
  <2> QED
    BY <1>0, <1>6, <2>2, <2>3, <2>4, <2>5, <2>6
<1>10. CASE EndCommand
  BY <1>0, <1>6, <1>10 DEF EndCommand
<1>11. CASE UNCHANGED fileVars
  BY <1>0, <1>11
<1> QED
  BY <1>1, <1>2, <1>3, <1>4, <1>5, <1>7, <1>8, <1>9, <1>10, <1>11, <1>12 DEF FileNext, FileStep, Lost, allVars

\* The call in progress is the one the file is in.
LEMMA OpStep ==
  ASSUME FileInv, [FileNext]_allVars
  PROVE  OpInv'
<1> USE DEF fileVars
<1>0. OpInv
  BY DEF FileInv
<1>1. ASSUME NEW t \in Tracks, Open(t)
      PROVE  OpInv'
  BY <1>0, <1>1 DEF Open, Idle, OpInv
<1>2. CASE Close
  BY <1>0, <1>2 DEF Close, Idle, OpInv, vars
<1>3. ASSUME NEW w \in Whence, NEW off \in SeekOffsets, Seek(w, off)
      PROVE  OpInv'
  BY <1>0, <1>3 DEF Seek, Idle, OpInv, vars
<1>4. ASSUME NEW n \in ReadLens, ReadAtEnd(n)
      PROVE  OpInv'
  BY <1>0, <1>4 DEF ReadAtEnd, Idle, OpInv, vars
<1>5. ASSUME NEW n \in ReadLens, BeginRead(n)
      PROVE  OpInv'
  <2>1. /\ handle /\ bytePos < TrackUnits(Toc[track])
        /\ StartRead(curLba, Take(n), bytePos % SectorUnits)
        /\ op' = [kind |-> "read", want |-> n, take |-> Take(n)]
        /\ UNCHANGED <<handle, track, bytePos, curLba>>
    BY <1>5 DEF BeginRead
  <2>2. pc' = "alloc" /\ req' = [op |-> ReadCd, lba |-> curLba, len |-> Take(n), skip |-> bytePos % SectorUnits]
    BY <2>1 DEF StartRead, Call
  <2>3. Take(n)' = Take(n)
    BY <2>1 DEF Take
  <2>4. Whole(bytePos') /\ (bytePos' >= 0 \/ bytePos' + n >= 0)
    <3>1. ~Wraps(n) /\ bytePos \in Int /\ n \in Int
      BY <1>5, LensAssumption DEF BeginRead, FileInv, FileTypeOK
    <3> QED
      BY <2>1, <3>1 DEF Wraps, Whole
  <2> QED
    BY <2>1, <2>2, <2>3, <2>4 DEF OpInv, IsRead, Take
<1>12. ASSUME NEW n \in ReadLens, ReadWraps(n)
       PROVE  OpInv'
  <2>1. op.kind = "none" /\ pc = "idle" /\ pc' = pc /\ op'.kind \in {"none", "lost"}
    BY <1>12 DEF ReadWraps, Idle, NoOp
  <2> QED
    BY <2>1 DEF OpInv
<1>6. ASSUME NEW c \in Commands, BeginCommand(c)
      PROVE  OpInv'
  BY <1>6 DEF BeginCommand, StartCommand, Call, NoOp, OpInv
<1>7. ASSUME UNCHANGED fileVars, req' = req, pc' = "idle" <=> pc = "idle"
      PROVE  OpInv'
  BY <1>0, <1>7 DEF OpInv, IsRead, Take, Whole
<1>8. CASE CallStep
  BY <1>7, <1>8, InCallFacts DEF CallStep
<1>9. CASE EndRead \/ EndCommand
  BY <1>9 DEF EndRead, EndCommand, Return, NoOp, OpInv
<1>10. CASE SwapDisc /\ UNCHANGED fileVars
  BY <1>7, <1>10 DEF SwapDisc
<1>11. CASE UNCHANGED allVars
  BY <1>7, <1>11 DEF allVars, vars
<1> QED
  BY <1>1, <1>2, <1>3, <1>4, <1>5, <1>6, <1>8, <1>9, <1>10, <1>11, <1>12 DEF FileNext, FileStep, Lost

\* The two positions agree after every operation that assigns one of them.
LEMMA PositionsStep ==
  ASSUME FileInv, [FileNext]_allVars
  PROVE  PositionsAgree'
<1> USE DEF fileVars
<1>0. PositionsAgree
  BY DEF FileInv
<1>1. ASSUME NEW t \in Tracks, Open(t)
      PROVE  PositionsAgree'
  <2>1. track' = t /\ bytePos' = 0 /\ curLba' = ThroughMsf(LbaAt(Toc[t], 0))
    BY <1>1 DEF Open
  <2>2. 0 <= TrackUnits(Toc[t]) /\ Whole(0)
    BY TrackFacts DEF Whole
  <2>3. curLba' = SectorAt(t, 0)
    BY <2>1, <2>2, AddressFacts
  <2> QED
    BY <2>1, <2>3 DEF PositionsAgree
<1>2. ASSUME NEW w \in Whence, NEW off \in SeekOffsets, Seek(w, off)
      PROVE  PositionsAgree'
  <2>1. track' = track
    BY <1>2 DEF Seek
  <2>2. bytePos' \in Int /\ track \in Tracks
    BY <1>2, SeekFacts DEF FileInv, FileTypeOK
  <2>3. \A p \in Int : (p < 0 => p % SectorUnits = 0 /\ SectorAt(track, p) >= 0)
                        => Whole(p) /\ SectorAt(track, p) >= 0
    BY <2>2, AddressFacts DEF Whole
  <2> QED
    BY <1>2, <2>1, <2>2, <2>3, SeekFacts DEF PositionsAgree
<1>3. CASE Close
  BY <1>3 DEF Close, PositionsAgree
<1>4. CASE EndRead
  <2>1. op.kind = "read" /\ handle /\ UNCHANGED <<handle, track>>
    BY <1>4 DEF EndRead, FileInv, OpInv
  <2>2. CASE rv = 0
    <3>1. bytePos' \in Nat /\ track \in Tracks
      BY <1>4, <2>2, EndReadFacts
    <3>2. curLba' = LbaAt(Toc[track], bytePos')
      BY <1>4, <2>2 DEF EndRead
    <3>3. Whole(bytePos')
      <4>1. \A p \in Nat : Whole(p)
        BY DEF Whole
      <4> QED
        BY <3>1, <4>1
    <3>4. curLba' = SectorAt(track, bytePos')
      BY <3>1, <3>2, <3>3, AddressFacts
    <3> QED
      BY <2>1, <3>4 DEF PositionsAgree
  <2>3. CASE rv /= 0
    <3>1. bytePos' = bytePos
      BY <1>4, <2>3, EndReadFacts
    <3>2. curLba' = curLba
      BY <1>4, <2>3 DEF EndRead
    <3> QED
      BY <1>0, <2>1, <3>1, <3>2 DEF PositionsAgree
  <2> QED
    BY <2>2, <2>3
<1>5. ASSUME UNCHANGED <<handle, track, bytePos, curLba>>
      PROVE  PositionsAgree'
  BY <1>0, <1>5 DEF PositionsAgree
<1>6. ASSUME NEW n \in ReadLens, ReadAtEnd(n) \/ BeginRead(n) \/ ReadWraps(n)
      PROVE  PositionsAgree'
  BY <1>5, <1>6 DEF ReadAtEnd, BeginRead, ReadWraps
<1>7. ASSUME NEW c \in Commands, BeginCommand(c)
      PROVE  PositionsAgree'
  BY <1>5, <1>7 DEF BeginCommand
<1>8. CASE CallStep \/ EndCommand \/ UNCHANGED fileVars
  BY <1>5, <1>8 DEF CallStep, EndCommand
<1> QED
  BY <1>1, <1>2, <1>3, <1>4, <1>6, <1>7, <1>8 DEF FileNext, FileStep, Lost, allVars

\* The sectors of a read of the file are those from its position on, up to the
\* end of its track.
LEMMA ReadRange ==
  ASSUME FileInv, EndRead, SectorAt(track, bytePos) >= 0, NEW at \in Base(0) .. Base(i) - 1
  PROVE  at \in SectorAt(track, bytePos) * SectorUnits
                .. Toc[track].lba * SectorUnits + TrackUnits(Toc[track]) - 1
<1> DEFINE tl == Toc[track].lba
           n == LbaLen(Toc[track])
           q == bytePos \div SectorUnits
           f == FrameCount(op.take, bytePos % SectorUnits)
<1>1. /\ track \in Tracks /\ op.take \in Nat /\ bytePos \in Int
      /\ bytePos + op.take <= TrackUnits(Toc[track])
      /\ IsRead /\ pc = "return" /\ req.lba = tl + q /\ Frames = f
  BY EndReadFacts DEF Frames, SectorAt
<1>2. /\ tl \in Nat /\ n \in Nat /\ TrackUnits(Toc[track]) = n * SectorUnits
  BY <1>1, TrackFacts
<1>3. f \in Nat /\ q \in Int /\ q + f <= n
  <2>1. q \in Int /\ bytePos % SectorUnits \in 0 .. SectorUnits - 1
    BY <1>1, PosFacts
  <2>2. f \in Nat
    BY <1>1, <2>1, FrameCountBounds
  <2> HIDE DEF n
  <2>3. bytePos + op.take <= n * SectorUnits
    BY <1>1, <1>2
  <2>4. q + f <= n
    BY <1>1, <1>2, <2>3, ReadFits
  <2> QED
    BY <2>1, <2>2, <2>4
<1>4. i \in Nat /\ i <= f
  BY <1>1 DEF FileInv, Engine, RangeInv, FileTypeOK, TypeOK
<1>5. Base(0) = SectorUnits * (tl + q) /\ Base(i) = SectorUnits * ((tl + q) + i)
  <2>1. req.lba \in Nat
    BY DEF FileInv, FileTypeOK, TypeOK
  <2>2. /\ (req.lba + 0) * SectorUnits = SectorUnits * req.lba
        /\ (req.lba + i) * SectorUnits = SectorUnits * (req.lba + i)
    BY <1>4, <2>1
  <2> QED
    BY <1>1, <2>2 DEF Base
<1> HIDE DEF tl, n, q, f
<1>6. SectorAt(track, bytePos) * SectorUnits = SectorUnits * (tl + q)
  <2>1. SectorAt(track, bytePos) = tl + q
    BY DEF SectorAt, tl, q
  <2> QED
    BY <1>2, <1>3, <2>1
<1>7. SectorUnits * ((tl + q) + i) <= SectorUnits * (tl + n)
  <2>1. (tl + q) + i <= tl + n
    BY <1>2, <1>3, <1>4
  <2> QED
    BY <1>2, <1>3, <1>4, <2>1, MultMono
<1>8. SectorUnits * (tl + n) = tl * SectorUnits + n * SectorUnits
  BY <1>2
<1>9. tl * SectorUnits \in Int /\ n * SectorUnits \in Int /\ SectorUnits * (tl + q) \in Int
      /\ SectorUnits * ((tl + q) + i) \in Int
  BY <1>2, <1>3, <1>4
<1>10. at \in Int /\ Base(0) <= at /\ at < Base(i)
  BY <1>5, <1>9
<1>11. at >= SectorUnits * (tl + q) /\ at < tl * SectorUnits + n * SectorUnits
  BY <1>5, <1>7, <1>8, <1>9, <1>10
<1> QED
  BY <1>2, <1>6, <1>9, <1>10, <1>11 DEF tl

\* What is remembered of the last read is from its track.
LEMMA WithinStep ==
  ASSUME FileInv, [FileNext]_allVars
  PROVE  ReadWithinTrack'
<1> USE DEF fileVars
<1>1. ASSUME UNCHANGED last
      PROVE  ReadWithinTrack'
  BY <1>1 DEF FileInv, ReadWithinTrack
<1>2. ASSUME NEW n \in ReadLens, ReadAtEnd(n)
      PROVE  ReadWithinTrack'
  <2>1. DOMAIN last'.data = {}
    BY <1>2 DEF ReadAtEnd, Outcome
  <2> QED
    BY <2>1 DEF ReadWithinTrack
<1>3. CASE EndRead
  <2>1. /\ last'.track = track /\ last'.from = IF Returned = 0 THEN 0 ELSE bytePos
        /\ DOMAIN last'.data = 0 .. Returned - 1
        /\ \A k \in DOMAIN last'.data : last'.data[k] = buf[k]
    <3>1. last' = Outcome(Returned, failed = {}, rv /= 0, buf)
      BY <1>3, EndReadFacts
    <3>2. last'.track = track /\ DOMAIN last'.data = 0 .. Returned - 1
          /\ last'.from = IF Returned = 0 THEN 0 ELSE bytePos
      BY <3>1 DEF Outcome
    <3>3. \A k \in DOMAIN last'.data : last'.data[k] = buf[k]
      BY <3>1 DEF Outcome
    <3> QED
      BY <3>2, <3>3
  <2>2. 0 .. Returned - 1 \subseteq DOMAIN buf
    BY <1>3, EndReadFacts
  <2>3. ASSUME SectorAt(track, bytePos) >= 0, NEW k \in DOMAIN buf, buf[k].kind = "disc"
        PROVE  buf[k].at \in SectorAt(track, bytePos) * SectorUnits
                             .. Toc[track].lba * SectorUnits + TrackUnits(Toc[track]) - 1
    <3>1. buf[k].at \in Base(0) .. Base(i) - 1
      BY <1>3, <2>3, EndReadFacts DEF FileInv, Engine, RangeInv
    <3> QED
      BY <1>3, <2>3, <3>1, ReadRange
  <2>4. CASE Returned = 0
    <3>1. DOMAIN last'.data = {}
      BY <2>1, <2>4
    <3> QED
      BY <3>1 DEF ReadWithinTrack
  <2>5. CASE Returned /= 0
    <3>1. last'.track = track /\ last'.from = bytePos
      BY <2>1, <2>5
    <3>2. ASSUME SectorAt(track, bytePos) >= 0, NEW k \in DOMAIN last'.data, last'.data[k].kind = "disc"
          PROVE  last'.data[k].at \in SectorAt(track, bytePos) * SectorUnits
                                      .. Toc[track].lba * SectorUnits + TrackUnits(Toc[track]) - 1
      <4>1. k \in DOMAIN buf /\ last'.data[k] = buf[k]
        BY <2>1, <2>2
      <4> QED
        BY <2>3, <3>2, <4>1
    <3> QED
      BY <3>1, <3>2, Zenon DEF ReadWithinTrack
  <2> QED
    BY <2>4, <2>5
<1>4. ASSUME NEW t \in Tracks, Open(t)
      PROVE  ReadWithinTrack'
  BY <1>1, <1>4 DEF Open
<1>5. ASSUME NEW w \in Whence, NEW off \in SeekOffsets, Seek(w, off)
      PROVE  ReadWithinTrack'
  BY <1>1, <1>5 DEF Seek
<1>6. ASSUME NEW n \in ReadLens, BeginRead(n)
      PROVE  ReadWithinTrack'
  BY <1>1, <1>6 DEF BeginRead
<1>7. ASSUME NEW c \in Commands, BeginCommand(c)
      PROVE  ReadWithinTrack'
  BY <1>1, <1>7 DEF BeginCommand
<1>9. ASSUME NEW n \in ReadLens, ReadWraps(n)
      PROVE  ReadWithinTrack'
  <2>1. CASE last' = Outcome(0, FALSE, TRUE, buf)
    <3>1. DOMAIN last'.data = {}
      BY <2>1 DEF Outcome
    <3> QED
      BY <3>1 DEF ReadWithinTrack
  <2> QED
    BY <1>1, <1>9, <2>1 DEF ReadWraps
<1>8. CASE Close \/ CallStep \/ EndCommand \/ UNCHANGED fileVars
  BY <1>1, <1>8 DEF Close, CallStep, EndCommand
<1> QED
  BY <1>2, <1>3, <1>4, <1>5, <1>6, <1>7, <1>8, <1>9 DEF FileNext, FileStep, Lost, allVars

-----------------------------------------------------------------------------
(* The theorems.                                                           *)

\* No file is open at first, and nothing has been read.
LEMMA FileInvInit == FileInit => FileInv
<1> SUFFICES ASSUME FileInit PROVE FileInv
  OBVIOUS
<1>1. Engine
  BY EngineInit DEF FileInit
<1>2. handle = FALSE /\ eof = FALSE /\ track \in Tracks /\ bytePos = 0 /\ curLba = 0 /\ op = NoOp
      /\ last = Outcome(0, TRUE, FALSE, buf) /\ pc = "idle"
  BY DEF FileInit, Init
<1>3. handle \in BOOLEAN /\ eof \in BOOLEAN /\ ~handle
  BY <1>2, Zenon
<1>4. last.from = 0 /\ last.ret = 0 /\ last.clean = TRUE /\ last.error = FALSE /\ DOMAIN last.data = {}
  BY <1>2 DEF Outcome
<1>5. last.clean \in BOOLEAN /\ last.error \in BOOLEAN
  BY <1>4, Zenon
<1>6. FileTypeOK
  <2>1. TypeOK
    BY <1>1 DEF Engine, IInv, LoopInv
  <2>2. op \in [kind : {"none", "read", "command", "lost"}, want : Nat, take : Nat]
    BY <1>2 DEF NoOp
  <2>3. track \in Tracks /\ bytePos = 0 /\ curLba = 0 /\ last.from = 0 /\ last.ret = 0
    BY <1>2, <1>4, Zenon
  <2>4. bytePos \in Int /\ curLba \in Nat /\ last.from \in Int /\ last.ret \in Nat
    BY <2>3
  <2> QED
    BY <2>4, <1>3, <1>5, <2>1, <2>2, <2>3 DEF FileTypeOK
<1>7. OpInv
  BY <1>2 DEF OpInv, NoOp
<1>8. PositionsAgree /\ ReadWithinTrack
  BY <1>3, <1>4 DEF PositionsAgree, ReadWithinTrack
<1> QED
  BY <1>1, <1>6, <1>7, <1>8 DEF FileInv

\* The inductive invariant.
LEMMA FileInvStep == FileInv /\ [FileNext]_allVars => FileInv'
BY FileEngine, FileTypeStep, OpStep, PositionsStep, WithinStep DEF FileInv

\* The invariant of the file and of the engine under it, for every sequence
\* of operations.
THEOREM FileInvariance == FileSpec => []FileInv
BY FileInvInit, FileInvStep, PTL DEF FileSpec

\* The fields of an open track and the locals of cdrom_read keep their types.
THEOREM FileTypeCorrect == FileSpec => []FileTypeOK
<1>1. FileInv => FileTypeOK
  BY DEF FileInv
<1> QED
  BY FileInvariance, <1>1, PTL

\* byte_pos and cur_lba name the same sector wherever
\* retro_vfs_file_read_cdrom would use them.
THEOREM PositionsAgreeHolds == FileSpec => []PositionsAgree
<1>1. FileInv => PositionsAgree
  BY DEF FileInv
<1> QED
  BY FileInvariance, <1>1, PTL

\* Whichever of its frames were given up on, a read returns content from no
\* sector before that of its position and from none behind its track.
THEOREM ReadWithinTrackHolds == FileSpec => []ReadWithinTrack
<1>1. FileInv => ReadWithinTrack
  BY DEF FileInv
<1> QED
  BY FileInvariance, <1>1, PTL

-----------------------------------------------------------------------------
(* The file is a TrackReader.                                              *)

\* The step in which a read returns is the indivisible read.
LEMMA EndReadIsRead ==
  ASSUME FileInv, EndRead
  PROVE  Reader!ReadSucceeds \/ Reader!ReadsNothing
<1> DEFINE from == Toc[track].lba * SectorUnits
           len == TrackUnits(Toc[track])
<1>1. /\ op.want \in Nat /\ op.take \in Nat /\ Returned \in Nat /\ track \in Tracks
      /\ bytePos \in Int /\ len \in Nat /\ bytePos < len /\ bytePos + op.take <= len
      /\ op.take < op.want => bytePos + op.take = len
      /\ bytePos' = bytePos + Returned
      /\ rv \in {0, 1} /\ Returned = IF rv = 0 THEN op.take ELSE 0
      /\ pc = "return" /\ IsRead /\ 0 .. op.take - 1 = DOMAIN buf
      /\ SectorAt(track, bytePos) >= 0 => curLba = SectorAt(track, bytePos)
      /\ req.lba = curLba /\ req.skip = bytePos % SectorUnits /\ req.len = op.take
  BY EndReadFacts
<1>2. /\ last'.ret = Returned /\ last'.clean = (failed = {}) /\ last'.error = (rv /= 0)
      /\ DOMAIN last'.data = 0 .. Returned - 1
      /\ \A k \in DOMAIN last'.data : last'.data[k] = buf[k]
  <2>1. last' = Outcome(Returned, failed = {}, rv /= 0, buf)
    BY EndReadFacts
  <2>2. Returned \in Nat
    BY <1>1
  <2>3. last'.ret = Returned /\ last'.clean = (failed = {}) /\ last'.error = (rv /= 0)
    BY <2>1 DEF Outcome
  <2>4. DOMAIN last'.data = 0 .. Returned - 1
    BY <2>1 DEF Outcome
  <2>5. \A k \in DOMAIN last'.data : last'.data[k] = buf[k]
    BY <2>1 DEF Outcome
  <2> QED
    BY <2>3, <2>4, <2>5
<1>3. op.kind = "read" /\ UNCHANGED <<handle, track>> /\ eof' = (eof \/ Returned < op.want)
  BY DEF EndRead
<1>4. handle
  BY <1>3 DEF FileInv, OpInv
<1>5. eof \in BOOLEAN
  BY DEF FileInv, FileTypeOK
<1>6. CASE rv = 0
  <2>1. Returned = op.take /\ last'.ret \in 0 .. len - bytePos
    BY <1>1, <1>2, <1>6
  <2>2. ~last'.error
    <3>1. last'.error = FALSE
      BY <1>2, <1>6
    <3> QED
      BY <3>1, Zenon
  <2>3. last'.clean => failed = {}
    BY <1>2, Zenon
  <2>4. ASSUME last'.clean, from + bytePos >= 0, NEW k \in DOMAIN last'.data
        PROVE  last'.data[k].kind = "disc" /\ last'.data[k].at = (from + bytePos) + k
    <3>1. k \in DOMAIN buf /\ last'.data[k] = buf[k] /\ k \in Nat
      BY <1>1, <1>2, <2>1, <2>4, SMTT(20)
    <3>2. buf[k].kind = "disc" /\ buf[k].at = req.lba * SectorUnits + req.skip + k
      BY <1>1, <1>6, <2>3, <2>4, <3>1 DEF FileInv, Engine, ContentInv, CleanReadIsExact, Delivered
    <3>3. req.lba * SectorUnits + req.skip = from + bytePos
      <4> DEFINE q == bytePos \div SectorUnits
                 sk == bytePos % SectorUnits
                 tl == Toc[track].lba
      <4>1. q \in Int /\ sk \in 0 .. SectorUnits - 1 /\ bytePos = SectorUnits * q + sk
        <5>1. bytePos \in Int
          BY <1>1
        <5>2. q \in Int /\ sk \in 0 .. SectorUnits - 1 /\ bytePos = SectorUnits * q + sk
          BY <5>1, PosFacts
        <5> QED
          BY <5>2
      <4>0. tl \in Nat /\ SectorAt(track, bytePos) = tl + q /\ from = tl * SectorUnits /\ req.skip = sk
        BY <1>1, TrackFacts DEF SectorAt
      <4>12. tl + q >= 0
        <5> HIDE DEF q, sk, tl, from
        <5>1. SUFFICES ASSUME tl + q <= -1 PROVE FALSE
          BY <4>0, <4>1
        <5>2. SectorUnits * (tl + q) <= SectorUnits * (-1)
          BY <4>0, <4>1, <5>1, MultMono
        <5>3. SectorUnits * (tl + q) = tl * SectorUnits + SectorUnits * q /\ SectorUnits * (-1) = -SectorUnits
          BY <4>0, <4>1
        <5>4. PICK a \in Int : a = tl * SectorUnits
          BY <4>0
        <5>5. PICK b \in Int : b = SectorUnits * q
          BY <4>1
        <5>6. a + b <= -SectorUnits /\ a + (b + sk) >= 0
          BY <2>4, <4>0, <4>1, <5>2, <5>3, <5>4, <5>5
        <5> QED
          BY <4>1, <5>4, <5>5, <5>6
      <4>2. tl \in Nat /\ req.lba = tl + q /\ req.skip = sk
        BY <1>1, <4>0, <4>12
      <4> HIDE DEF q, sk, tl
      <4>3. (tl + q) * SectorUnits = tl * SectorUnits + SectorUnits * q
        BY <4>1, <4>2
      <4>4. tl * SectorUnits \in Int /\ SectorUnits * q \in Int
        BY <4>1, <4>2
      <4>5. from = tl * SectorUnits
        BY DEF tl
      <4> HIDE DEF from
      <4>6. req.lba * SectorUnits = tl * SectorUnits + SectorUnits * q
        BY <4>2, <4>3
      <4>7. req.lba * SectorUnits + req.skip = (tl * SectorUnits + SectorUnits * q) + sk
        BY <4>2, <4>6
      <4>8. from + bytePos = tl * SectorUnits + (SectorUnits * q + sk)
        BY <4>1, <4>5
      <4>9. PICK a \in Int : a = tl * SectorUnits
        BY <4>4
      <4>10. PICK b \in Int : b = SectorUnits * q
        BY <4>4
      <4>11. (a + b) + sk = a + (b + sk)
        BY <4>1, <4>9, <4>10
      <4> QED
        BY <4>7, <4>8, <4>9, <4>10, <4>11
    <3> QED
      BY <3>1, <3>2, <3>3
  <2>5. eof' /= eof => eof' /\ bytePos' = len
    <3>1. CASE Returned < op.want
      <4>1. eof'
        BY <1>3, <3>1
      <4> QED
        BY <1>1, <2>1, <3>1, <4>1
    <3>2. CASE ~(Returned < op.want)
      BY <1>3, <1>5, <3>2
    <3> QED
      BY <3>1, <3>2
  <2> QED
    BY <1>1, <1>2, <1>3, <1>4, <2>1, <2>2, <2>4, <2>5 DEF Reader!ReadSucceeds, Reader!IsContentFrom
<1>7. CASE rv /= 0
  <2>1. Returned = 0 /\ bytePos' = bytePos /\ last'.ret = 0
    BY <1>1, <1>2, <1>7
  <2>2. last'.error
    <3>1. last'.error = TRUE
      BY <1>2, <1>7
    <3> QED
      BY <3>1, Zenon
  <2>3. eof' \in {eof, TRUE}
    BY <1>3, <1>5
  <2> QED
    BY <1>3, <1>4, <2>1, <2>2, <2>3 DEF Reader!ReadsNothing
<1> QED
  BY <1>6, <1>7

\* Every other step is an operation of the reader or leaves it alone.
LEMMA ReaderStep ==
  ASSUME FileInv, [FileNext]_allVars
  PROVE  [Reader!Next]_(Reader!vars)
<1> USE DEF fileVars
<1>1. ASSUME NEW t \in Tracks, Open(t)
      PROVE  Reader!Open
  BY <1>1 DEF Open, Reader!Open
<1>2. CASE Close
  <2>1. Reader!Close
    BY <1>2 DEF Close, Reader!Close
  <2> QED
    BY <2>1 DEF Reader!Next
<1>3. ASSUME NEW w \in Whence, NEW off \in SeekOffsets, Seek(w, off)
      PROVE  Reader!Seek
  <2>1. eof' = FALSE /\ UNCHANGED <<handle, track, last>>
    BY <1>3 DEF Seek
  <2> QED
    BY <1>3, <2>1, SeekFacts DEF Reader!Seek
<1>4. ASSUME NEW n \in ReadLens, ReadAtEnd(n)
      PROVE  Reader!ReadsNothing
  <2>1. handle /\ bytePos >= TrackUnits(Toc[track]) /\ last' = Outcome(0, TRUE, FALSE, buf)
        /\ eof' = (eof \/ n > 0) /\ UNCHANGED <<handle, track, bytePos>>
    BY <1>4 DEF ReadAtEnd
  <2>2. last'.ret = 0
    BY <2>1 DEF Outcome
  <2>3. eof \in BOOLEAN /\ track \in Tracks
    BY DEF FileInv, FileTypeOK
  <2>4. eof' \in {eof, TRUE}
    BY <2>1, <2>3
  <2> QED
    BY <2>1, <2>2, <2>3, <2>4 DEF Reader!ReadsNothing
<1>5. CASE EndRead
  BY <1>5, EndReadIsRead DEF Reader!Next
<1>6. ASSUME UNCHANGED <<handle, track, bytePos, eof, last>>
      PROVE  UNCHANGED Reader!vars
  BY <1>6 DEF Reader!vars
<1>7. ASSUME NEW n \in ReadLens, BeginRead(n)
      PROVE  UNCHANGED Reader!vars
  BY <1>6, <1>7 DEF BeginRead
<1>8. ASSUME NEW c \in Commands, BeginCommand(c)
      PROVE  UNCHANGED Reader!vars
  BY <1>6, <1>8 DEF BeginCommand
<1>9. CASE CallStep \/ EndCommand \/ UNCHANGED fileVars
  BY <1>6, <1>9 DEF CallStep, EndCommand
<1>10. ASSUME NEW n \in ReadLens, ReadWraps(n)
       PROVE  Reader!ReadsNothing \/ UNCHANGED Reader!vars
  <2>1. handle /\ UNCHANGED <<handle, track, bytePos>>
    BY <1>10 DEF ReadWraps
  <2>2. CASE last' = Outcome(0, FALSE, TRUE, buf) /\ eof' = (eof \/ n > 0)
    <3>1. last'.ret = 0 /\ last'.error = TRUE
      BY <2>2 DEF Outcome
    <3>2. eof \in BOOLEAN
      BY DEF FileInv, FileTypeOK
    <3>3. eof' \in {eof, TRUE}
      BY <2>2, <3>2
    <3>4. last'.error
      BY <3>1, Zenon
    <3> QED
      BY <2>1, <3>1, <3>3, <3>4, Zenon DEF Reader!ReadsNothing
  <2>3. CASE UNCHANGED <<eof, last>>
    BY <1>6, <2>1, <2>3
  <2> QED
    BY <1>10, <2>2, <2>3 DEF ReadWraps
<1> QED
  BY <1>1, <1>2, <1>3, <1>4, <1>5, <1>7, <1>8, <1>9, <1>10 DEF Lost, FileNext, FileStep, allVars, Reader!Next

\* The file implements TrackReader: frames, retries, cache hits, failures and
\* changes of disc below it add up to one indivisible read, which moves the
\* position by what it returns and, when clean, returns the disc's content there.
THEOREM Implements == FileSpec => ImplementsReader
<1>1. FileInit => Reader!Init
  BY DEF FileInit, Reader!Init
<1>2. FileInv /\ [FileNext]_allVars => [Reader!Next]_(Reader!vars)
  BY ReaderStep
<1> QED
  BY <1>1, <1>2, FileInvariance, PTL DEF FileSpec, ImplementsReader, Reader!Spec
=============================================================================
