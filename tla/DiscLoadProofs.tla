--------------------------- MODULE DiscLoadProofs ----------------------------
(***************************************************************************)
(* What a load leaves in the table of contents, and the bounds of the cue  *)
(* sheet, for any number of drives, discs and tracks.                      *)
(***************************************************************************)
EXTENDS DiscLoad, TLAPS

USE WordAssumption

-----------------------------------------------------------------------------
(* Entries.                                                                *)

\* Arithmetic of the unsigned fields stays in range.
LEMMA WordFits == ASSUME NEW a \in Int PROVE a % Word \in Uint
BY DEF Uint

\* The fields are naturals.
LEMMA UintIsInt == Uint \subseteq Nat
BY DEF Uint

\* The entry of a table that was never filled.
LEMMA BlankType == Blank \in Entry
BY DEF Blank, Entry, Uint

\* A point of READ TOC leaves an entry.
LEMMA WithPointType ==
  ASSUME NEW e \in Entry, NEW tr \in DiscTrack
  PROVE  WithPoint(e, tr) \in Entry
BY DEF WithPoint, Entry, DiscTrack, IsAudio

\* So does READ TRACK INFORMATION, whose subtraction wraps.
LEMMA WithInfoType ==
  ASSUME NEW e \in Entry, NEW tr \in DiscTrack
  PROVE  WithInfo(e, tr) \in Entry
<1> DEFINE f == [e EXCEPT !.lbaStart = tr.start]
           pregap == PregapLen(f) % Word
<1>1. f \in Entry /\ tr.size \in Uint /\ tr.start \in Uint /\ tr.mode \in 0 .. 15
  BY DEF Entry, DiscTrack
<1>2. PregapLen(f) \in Int
  BY <1>1, UintIsInt DEF Entry, PregapLen
<1>3. pregap \in Int
  BY <1>2, WordFits, UintIsInt
<1> HIDE DEF pregap, f
<1>4. tr.size - pregap \in Int
  <2>1. tr.size \in Int
    BY DEF DiscTrack, Uint
  <2> QED
    BY <2>1, <1>3
<1>5. (tr.size - pregap) % Word \in Uint
  BY <1>4, WordFits
<1> QED
  BY <1>1, <1>5 DEF WithInfo, Entry, pregap, f

\* Once its point and its information have been read, an entry holds nothing
\* of what it held before.
LEMMA EntryIsExact ==
  ASSUME NEW e \in Entry, NEW d, NEW t, d.tracks[t] \in DiscTrack
  PROVE  WithInfo(WithPoint(e, d.tracks[t]), d.tracks[t]) = EntryOf(d, t)
<1> DEFINE tr == d.tracks[t]
           p(x) == [WithPoint(x, tr) EXCEPT !.lbaStart = tr.start]
<1>1. \A x \in Entry : PregapLen(p(x)) = IF IsAudio(tr.control) THEN 0 ELSE tr.lba - tr.start
  BY DEF PregapLen, WithPoint, Entry
<1>2. Blank \in Entry
  BY BlankType
<1> DEFINE n == PregapLen(p(e)) % Word
<1>3. PregapLen(p(Blank)) % Word = n
  BY <1>1, <1>2
<1> DEFINE q(x) == [WithPoint(x, tr) EXCEPT !.lbaStart = tr.start, !.size = tr.size, !.mode = tr.mode,
                                            !.bytes = (tr.size - n) % Word]
<1>4. WithInfo(WithPoint(e, tr), tr) = q(e)
  BY DEF WithInfo
<1>5. WithInfo(WithPoint(Blank, tr), tr) = q(Blank)
  BY <1>3 DEF WithInfo
<1> HIDE DEF n, p
<1>6. q(e) = q(Blank)
  BY <1>2 DEF WithPoint, Entry
<1> QED
  BY <1>4, <1>5, <1>6 DEF EntryOf

\* A line or two of each kind: no track takes more than 103 bytes of its 107.
LEMMA LinesBound ==
  ASSUME NEW e \in Entry
  PROVE  LinesOf(e) \in 1 .. 103
<1> DEFINE long == LbaToMsf(Pregap(e)).min > 99
           extra == IF long THEN 1 ELSE 0
<1>1. extra \in {0, 1}
  OBVIOUS
<1>2. IndexLines(e) = 22 \/ (e.audio /\ IndexLines(e) = 44 + extra)
  BY DEF IndexLines, IndexLine
<1> HIDE DEF extra
<1> QED
  BY <1>1, <1>2 DEF LinesOf, FileLine, AudioLine, DataLine

\* 107 bytes a track.
LEMMA CueLenBound ==
  ASSUME NEW n \in 1 .. 99
  PROVE  CueLen(n) \in Nat /\ CueLen(n) = 107 * n /\ CueLen(n) /= 0
BY DEF CueLen, CueTrackBytes

-----------------------------------------------------------------------------
(* The inductive invariant.                                                *)

\* A command belongs to the load of a cue sheet.
RunInv ==
  pc /= "idle" =>
    load.kind = "cue" /\ load.drive \in Drives /\ ~load.result /\ drive = load.drive

\* The buffer is there between READ TOC and the end of the load; each track
\* that was written took 1 to 103 bytes.
CueInv ==
  /\ pc \in {"idle", "toc"} => cue = NoCue
  /\ pc = "info" => cue.len /= 0 /\ k <= Len(source.tracks)
  /\ pc \in {"timeouts", "read"} /\ cue.len /= 0 => k = Len(source.tracks) + 1
  /\ cue.len /= 0 =>
       /\ source \in Discs /\ num \in 1 .. 99 /\ source.a1 \in {num, NoPoint}
       /\ k >= 1
       /\ cue.len = 107 * num
       /\ k - 1 <= cue.pos /\ cue.pos <= 103 * (k - 1)

\* What DiscsAssumption says of one disc.
LEMMA DiscType ==
  ASSUME NEW d \in Discs
  PROVE  /\ Len(d.tracks) \in 0 .. MaxTrack
         /\ d.a1 \in (0 .. 255) \cup {NoPoint}
         /\ \A t \in 1 .. Len(d.tracks) : t \in TrackNumbers /\ d.tracks[t] \in DiscTrack
<1>1. IsDisc(d)
  BY DiscsAssumption
<1>2. d.tracks \in Seq(DiscTrack) /\ Len(d.tracks) \in 0 .. MaxTrack
      /\ d.a1 \in (0 .. 255) \cup {NoPoint}
  BY <1>1 DEF IsDisc
<1>3. \A t \in 1 .. Len(d.tracks) : d.tracks[t] \in DiscTrack
  BY <1>2
<1> QED
  BY <1>2, <1>3 DEF TrackNumbers

\* The number of tracks is one byte, from the answer or from before.
LEMMA CountType ==
  ASSUME NEW d \in Discs, NEW n \in 0 .. 255
  PROVE  /\ TrackCount(d, n) \in 0 .. 255
         /\ d.a1 \in {TrackCount(d, n), NoPoint}
         /\ d.a1 = NoPoint => TrackCount(d, n) = n
BY DiscType DEF TrackCount

\* The track whose point is processed is one of the disc that answered.
LEMMA EntryInHand ==
  ASSUME TypeOK, CueInv, pc = "info"
  PROVE  /\ source \in Discs
         /\ k \in TrackNumbers /\ k <= Len(source.tracks) /\ Len(source.tracks) \in 0 .. MaxTrack
         /\ source.tracks[k] \in DiscTrack
         /\ Point \in Entry
<1>1. source \in Discs /\ k \in Nat /\ k >= 1 /\ k <= Len(source.tracks)
  BY DEF CueInv, TypeOK
<1>2. Len(source.tracks) \in 0 .. MaxTrack /\ k \in 1 .. Len(source.tracks)
  BY <1>1, DiscType
<1>3. k \in TrackNumbers /\ source.tracks[k] \in DiscTrack
  BY <1>1, <1>2, DiscType
<1>4. Point \in Entry
  BY <1>3, WithPointType DEF Point, TypeOK
<1> QED
  BY <1>1, <1>2, <1>3, <1>4

\* Before the first load the table is blank and there is no cue sheet.
LEMMA InitHolds == Init => TypeOK /\ RunInv /\ CueInv
<1> SUFFICES ASSUME Init PROVE TypeOK /\ RunInv /\ CueInv
  OBVIOUS
<1>1. table \in [TrackNumbers -> Entry]
  BY BlankType DEF Init
<1>2. load \in [kind : Kinds \cup {"none"}, drive : Drives \cup {NoDrive}, result : BOOLEAN,
               clean : BOOLEAN, text : Nat, read : Nat]
  BY DEF Init, Kinds
<1>3. before \in [num : 0 .. 255, table : [TrackNumbers -> Entry]]
  BY <1>1 DEF Init
<1>4. 0 \in 0 .. MaxTrack + 1 /\ 0 \in 0 .. MaxSwaps /\ 0 \in 0 .. MaxLoads
  BY BoundsAssumption
<1>5. cue \in [len : Nat, pos : Nat] /\ k = 0 /\ swaps = 0 /\ loads = 0
  BY DEF Init, NoCue
<1>6. TypeOK
  BY <1>1, <1>2, <1>3, <1>4, <1>5 DEF Init, TypeOK
<1> QED
  BY <1>6 DEF Init, RunInv, CueInv, NoCue

-----------------------------------------------------------------------------
(* Types.                                                                  *)

\* The start of a load keeps the types.
LEMMA BeginType ==
  ASSUME TypeOK, NEW kind \in Kinds, NEW d \in Drives \cup {NoDrive}, NEW r \in BOOLEAN,
         Begin(kind, d, r), drive' \in Drives \cup {NoDrive}, pc' \in {"idle", "toc"}
  PROVE  TypeOK'
<1>1. loads' \in 0 .. MaxLoads
  BY BoundsAssumption DEF TypeOK, Begin
<1>2. before' \in [num : 0 .. 255, table : [TrackNumbers -> Entry]]
  BY DEF TypeOK, Begin
<1>3. load' \in [kind : Kinds \cup {"none"}, drive : Drives \cup {NoDrive}, result : BOOLEAN,
                clean : BOOLEAN, text : Nat, read : Nat]
  BY DEF Begin
<1>4. UNCHANGED <<inDrive, swaps, num, table, timeouts, source, k, cue>>
  BY DEF Begin, discVars, loopVars
<1> QED
  BY <1>1, <1>2, <1>3, <1>4 DEF TypeOK

\* Writing the lines of a track keeps the types.
LEMMA WriteType ==
  ASSUME TypeOK, CueInv, pc = "info", NEW e \in Entry, WriteTrack(e), NextPoint
  PROVE  /\ table' \in [TrackNumbers -> Entry]
         /\ cue' \in [len : Nat, pos : Nat]
         /\ k' \in 0 .. MaxTrack + 1
         /\ pc' \in {"info", "timeouts"}
<1>1. k \in TrackNumbers /\ k <= Len(source.tracks) /\ Len(source.tracks) \in 0 .. MaxTrack
  BY EntryInHand
<1>2. table' \in [TrackNumbers -> Entry]
  BY <1>1 DEF WriteTrack, TypeOK
<1> DEFINE n == LinesOf(e)
<1>3. n \in Nat
  BY LinesBound
<1> HIDE DEF n
<1>4. cue' = [cue EXCEPT !.pos = @ + n]
  BY DEF WriteTrack, n
<1>5. cue' \in [len : Nat, pos : Nat]
  BY <1>3, <1>4 DEF TypeOK
<1> QED
  BY <1>1, <1>2, <1>5 DEF NextPoint, TrackNumbers

\* The answer to READ TRACK INFORMATION, of whichever disc is in the drive by now.
LEMMA InfoInHand ==
  ASSUME TypeOK, RunInv, CueInv, TrackInfo
  PROVE  WithInfo(Point, inDrive[load.drive].tracks[k]) \in Entry
<1>1. pc = "info" /\ load.drive \in Drives
  BY DEF TrackInfo, RunInv
<1>2. inDrive[load.drive] \in Discs /\ k \in Nat /\ k >= 1 /\ k <= Len(inDrive[load.drive].tracks)
  BY <1>1, EntryInHand DEF TrackInfo, TypeOK, TrackNumbers
<1>3. inDrive[load.drive].tracks[k] \in DiscTrack
  BY <1>2, DiscType
<1> QED
  BY <1>1, <1>3, EntryInHand, WithInfoType

\* Every step keeps the types.
LEMMA TypeStep ==
  ASSUME TypeOK, RunInv, CueInv, [Next]_vars
  PROVE  TypeOK'
<1>1. ASSUME NEW kind \in Kinds, NEW d \in Drives, OpenFails(kind, d)
      PROVE  TypeOK'
  BY <1>1, BeginType DEF OpenFails, TypeOK, Begin
<1>2. CASE LoadFile
  BY <1>2, BeginType DEF LoadFile, TypeOK, Begin, Kinds
<1>3. ASSUME NEW d \in Drives, NEW t \in TrackNumbers, LoadTrack(d, t)
      PROVE  TypeOK'
  <2> DEFINE r == table[t].size >= PregapLen(table[t]) % Word
  <2>1. r \in BOOLEAN /\ Begin("track", d, r) /\ drive' = d /\ pc' = pc /\ pc = "idle"
    BY <1>3 DEF LoadTrack, Begin
  <2> HIDE DEF r
  <2> QED
    BY <2>1, BeginType DEF Kinds
<1>4. ASSUME NEW d \in Drives, LoadCue(d)
      PROVE  TypeOK'
  BY <1>4, BeginType DEF LoadCue, Kinds
<1>5. CASE ReadToc
  <2>1. pc = "toc" /\ load.drive \in Drives
    BY <1>5 DEF ReadToc, RunInv
  <2>2. source' \in Discs
    BY <1>5, <2>1 DEF ReadToc, TypeOK
  <2>3. num' \in 0 .. 255
    BY <1>5, <2>2, CountType DEF ReadToc, TypeOK
  <2> DEFINE n == CueLen(num')
  <2>4. num' \in 1 .. 99 => n \in Nat
    BY CueLenBound
  <2> HIDE DEF n
  <2>5. /\ cue' \in [len : Nat, pos : Nat]
        /\ k' \in 0 .. MaxTrack + 1
    <3>1. CASE num' \in 1 .. 99
      <4>1. cue' = [len |-> n, pos |-> 0] /\ k' = 1
        BY <1>5, <3>1 DEF ReadToc, n
      <4> QED
        BY <4>1, <2>4, <3>1
    <3>2. CASE num' \notin 1 .. 99
      BY <1>5, <3>2 DEF ReadToc, TypeOK
    <3> QED
      BY <3>1, <3>2
  <2>6. pc' \in {"info", "timeouts"}
    BY <1>5 DEF ReadToc
  <2> QED
    BY <1>5, <2>2, <2>3, <2>5, <2>6 DEF ReadToc, TypeOK, discVars
<1>6. CASE ReadTocFails
  BY <1>6 DEF ReadTocFails, TypeOK, Failed, discVars, tocVars, loopVars
<1>7. CASE TrackInfo
  <2> DEFINE e == WithInfo(Point, inDrive[load.drive].tracks[k])
  <2>1. pc = "info" /\ WriteTrack(e) /\ NextPoint
    BY <1>7 DEF TrackInfo
  <2>4. e \in Entry
    BY <1>7, InfoInHand
  <2> HIDE DEF e
  <2>5. /\ table' \in [TrackNumbers -> Entry]
        /\ cue' \in [len : Nat, pos : Nat]
        /\ k' \in 0 .. MaxTrack + 1
        /\ pc' \in {"info", "timeouts"}
    BY <2>1, <2>4, WriteType
  <2> QED
    BY <1>7, <2>5 DEF TrackInfo, TypeOK, discVars
<1>8. CASE TrackInfoFails
  <2>1. /\ table' \in [TrackNumbers -> Entry]
        /\ cue' \in [len : Nat, pos : Nat]
        /\ k' \in 0 .. MaxTrack + 1
        /\ pc' \in {"info", "timeouts"}
    BY <1>8, EntryInHand, WriteType DEF TrackInfoFails
  <2> QED
    BY <1>8, <2>1 DEF TrackInfoFails, TypeOK, Failed, discVars
<1>9. CASE GetTimeouts
  <2>1. load' = load \/ load' = [load EXCEPT !.clean = FALSE]
    BY <1>9 DEF GetTimeouts, Failed
  <2>2. load \in [kind : Kinds \cup {"none"}, drive : Drives \cup {NoDrive}, result : BOOLEAN,
                  clean : BOOLEAN, text : Nat, read : Nat]
    BY DEF TypeOK
  <2>3. load' \in [kind : Kinds \cup {"none"}, drive : Drives \cup {NoDrive}, result : BOOLEAN,
                   clean : BOOLEAN, text : Nat, read : Nat]
    BY <2>1, <2>2
  <2>4. timeouts' \in Drives \cup {NoDrive}
    BY <1>9, <2>2 DEF GetTimeouts, TypeOK
  <2> QED
    BY <1>9, <2>3, <2>4 DEF GetTimeouts, TypeOK, discVars, loopVars
<1>10. CASE ReadCue
  <2>1. CueSize >= 0 => CueRead \in Nat
    BY DEF CueSize, CueRead, TypeOK
  <2> DEFINE r == CueSize >= 0
             n == IF r THEN CueRead ELSE 0
  <2>2. r \in BOOLEAN /\ n \in Nat /\ cue.pos \in Nat
    BY <2>1 DEF TypeOK
  <2>3. load' = [load EXCEPT !.result = r, !.text = cue.pos, !.read = n]
    BY <1>10 DEF ReadCue
  <2> HIDE DEF r, n
  <2>4. load' \in [kind : Kinds \cup {"none"}, drive : Drives \cup {NoDrive}, result : BOOLEAN,
                  clean : BOOLEAN, text : Nat, read : Nat]
    BY <2>2, <2>3 DEF TypeOK
  <2> QED
    BY <1>10, <2>4 DEF ReadCue, TypeOK, NoCue, discVars, tocVars
<1>11. ASSUME NEW d \in Drives, NEW disc \in Discs, SwapDisc(d, disc)
       PROVE  TypeOK'
  <2>1. swaps' \in 0 .. MaxSwaps
    BY <1>11, BoundsAssumption DEF SwapDisc, TypeOK
  <2>2. inDrive' \in [Drives -> Discs] /\ load'.clean \in BOOLEAN
    BY <1>11 DEF SwapDisc, TypeOK
  <2> QED
    BY <1>11, <2>1, <2>2 DEF SwapDisc, TypeOK, tocVars, loopVars
<1>12. CASE UNCHANGED vars
  BY <1>12 DEF TypeOK, vars, discVars, tocVars, loopVars
<1> QED
  BY <1>1, <1>2, <1>3, <1>4, <1>5, <1>6, <1>7, <1>8, <1>9, <1>10, <1>11, <1>12 DEF Next, LoadStep

-----------------------------------------------------------------------------
(* The cue sheet.                                                          *)

\* Every step keeps RunInv.
LEMMA RunStep ==
  ASSUME TypeOK, RunInv, CueInv, [Next]_vars
  PROVE  RunInv'
<1>1. ASSUME NEW kind \in Kinds, NEW d \in Drives, OpenFails(kind, d)
      PROVE  RunInv'
  BY <1>1 DEF OpenFails, Begin, RunInv
<1>2. CASE LoadFile
  BY <1>2 DEF LoadFile, Begin, RunInv
<1>3. ASSUME NEW d \in Drives, NEW t \in TrackNumbers, LoadTrack(d, t)
      PROVE  RunInv'
  BY <1>3 DEF LoadTrack, Begin, RunInv
<1>4. ASSUME NEW d \in Drives, LoadCue(d)
      PROVE  RunInv'
  BY <1>4 DEF LoadCue, Begin, RunInv
<1>5. CASE ReadToc
  BY <1>5 DEF ReadToc, RunInv
<1>6. CASE ReadTocFails \/ TrackInfoFails \/ GetTimeouts
  <2>1. pc /= "idle" /\ drive' = drive /\ (load' = load \/ load' = [load EXCEPT !.clean = FALSE])
    BY <1>6 DEF ReadTocFails, TrackInfoFails, GetTimeouts, Failed, tocVars
  <2> QED
    BY <2>1 DEF RunInv, TypeOK
<1>7. CASE TrackInfo
  BY <1>7 DEF TrackInfo, RunInv
<1>8. CASE ReadCue
  BY <1>8 DEF ReadCue, RunInv
<1>9. ASSUME NEW d \in Drives, NEW disc \in Discs, SwapDisc(d, disc)
      PROVE  RunInv'
  BY <1>9 DEF SwapDisc, RunInv, TypeOK, tocVars
<1>10. CASE UNCHANGED vars
  BY <1>10 DEF RunInv, vars, tocVars
<1> QED
  BY <1>1, <1>2, <1>3, <1>4, <1>5, <1>6, <1>7, <1>8, <1>9, <1>10 DEF Next, LoadStep

\* The lines of one track keep the sheet within 103 bytes a track.
LEMMA WriteCue ==
  ASSUME TypeOK, CueInv, pc = "info", NEW e \in Entry, WriteTrack(e), NextPoint,
         UNCHANGED <<source, num>>
  PROVE  CueInv'
<1> DEFINE n == LinesOf(e)
<1>1. n \in Nat /\ 1 <= n /\ n <= 103
  BY LinesBound
<1> HIDE DEF n
<1>2. cue' = [cue EXCEPT !.pos = @ + n] /\ cue \in [len : Nat, pos : Nat]
  BY DEF WriteTrack, n, TypeOK
<1>3. cue'.len = cue.len /\ cue'.pos = cue.pos + n /\ cue.pos \in Nat /\ cue.len /= 0
  BY <1>2 DEF CueInv
<1>4. k \in Nat /\ k >= 1 /\ k - 1 <= cue.pos /\ cue.pos <= 103 * (k - 1)
  BY <1>3, EntryInHand DEF CueInv, TrackNumbers
<1>5. k' = k + 1
  BY DEF NextPoint
<1> DEFINE p == cue'.pos
           m == k'
<1>6. m - 1 <= p /\ p <= 103 * (m - 1) /\ m >= 1
  BY <1>1, <1>3, <1>4, <1>5
<1> HIDE DEF p, m
<1>7. Len(source.tracks) \in Nat /\ k <= Len(source.tracks)
  BY EntryInHand
<1>8. /\ pc' \in {"info", "timeouts"}
      /\ pc' = "info" => k + 1 <= Len(source.tracks)
      /\ pc' = "timeouts" => k + 1 = Len(source.tracks) + 1
  BY <1>4, <1>7 DEF NextPoint
<1>9. /\ source' = source /\ source \in Discs
      /\ num' = num /\ num \in 1 .. 99 /\ source.a1 \in {num, NoPoint}
      /\ cue'.len = 107 * num
  BY <1>3 DEF CueInv
<1> QED
  BY <1>3, <1>5, <1>6, <1>8, <1>9 DEF CueInv, p, m

\* Every step keeps CueInv.
LEMMA CueStep ==
  ASSUME TypeOK, RunInv, CueInv, [Next]_vars
  PROVE  CueInv'
<1>1. ASSUME NEW kind \in Kinds, NEW d \in Drives, OpenFails(kind, d)
      PROVE  CueInv'
  BY <1>1 DEF OpenFails, Begin, CueInv, loopVars
<1>2. CASE LoadFile
  BY <1>2 DEF LoadFile, Begin, CueInv, loopVars
<1>3. ASSUME NEW d \in Drives, NEW t \in TrackNumbers, LoadTrack(d, t)
      PROVE  CueInv'
  BY <1>3 DEF LoadTrack, Begin, CueInv, loopVars
<1>4. ASSUME NEW d \in Drives, LoadCue(d)
      PROVE  CueInv'
  BY <1>4 DEF LoadCue, Begin, CueInv, loopVars, NoCue
<1>5. CASE ReadToc
  <2>1. source' \in Discs /\ source'.a1 \in {num', NoPoint} /\ cue = NoCue
    <3>1. source' \in Discs /\ cue = NoCue /\ num' = TrackCount(source', num) /\ num \in 0 .. 255
      BY <1>5 DEF ReadToc, TypeOK, RunInv, CueInv
    <3>2. \A d \in Discs : d.a1 \in {TrackCount(d, num), NoPoint}
      BY <3>1, CountType
    <3> QED
      BY <3>1, <3>2
  <2>2. CASE num' \in 1 .. 99
    <3> DEFINE n == CueLen(num')
    <3>1. n = 107 * num' /\ n /= 0
      BY <2>2, CueLenBound
    <3> HIDE DEF n
    <3>2. cue' = [len |-> n, pos |-> 0] /\ k' = 1
      BY <1>5, <2>2 DEF ReadToc, n
    <3>3. /\ pc' = IF Len(source'.tracks) = 0 THEN "timeouts" ELSE "info"
          /\ Len(source'.tracks) \in Nat
      BY <1>5, <2>1, <2>2, DiscType DEF ReadToc
    <3> DEFINE l == Len(source'.tracks)
    <3>4. (pc' = "timeouts" /\ l = 0) \/ (pc' = "info" /\ 1 <= l)
      BY <3>3
    <3> HIDE DEF l
    <3>5. cue'.len = n /\ cue'.pos = 0 /\ k' - 1 = 0 /\ k' = 1
      BY <3>2
    <3> QED
      <4>1. cue'.len = 107 * num' /\ cue'.len /= 0 /\ num' \in 1 .. 99
        BY <2>2, <3>1, <3>5
      <4>2. k' - 1 <= cue'.pos /\ cue'.pos <= 103 * (k' - 1) /\ k' >= 1
        BY <3>5
      <4>3. /\ pc' \in {"info", "timeouts"}
            /\ pc' = "info" => k' <= l
            /\ pc' = "timeouts" => k' = l + 1
        BY <3>4, <3>5
      <4> QED
        BY <2>1, <4>1, <4>2, <4>3 DEF CueInv, l
  <2>3. CASE num' \notin 1 .. 99
    <3>1. cue' = NoCue /\ pc' = "timeouts"
      BY <1>5, <2>1, <2>3 DEF ReadToc
    <3> QED
      BY <3>1 DEF CueInv, NoCue
  <2> QED
    BY <2>2, <2>3
<1>6. CASE ReadTocFails
  BY <1>6 DEF ReadTocFails, CueInv, loopVars, tocVars, NoCue
<1>7. CASE TrackInfo
  <2> DEFINE e == WithInfo(Point, inDrive[load.drive].tracks[k])
  <2>1. pc = "info" /\ load.drive \in Drives /\ WriteTrack(e) /\ NextPoint /\ UNCHANGED <<source, num>>
    BY <1>7 DEF TrackInfo, RunInv
  <2>2. e \in Entry
    BY <1>7, <2>1, InfoInHand
  <2> HIDE DEF e
  <2> QED
    BY <2>1, <2>2, WriteCue
<1>8. CASE TrackInfoFails
  BY <1>8, EntryInHand, WriteCue DEF TrackInfoFails
<1>9. CASE GetTimeouts
  BY <1>9 DEF GetTimeouts, CueInv, loopVars
<1>10. CASE ReadCue
  BY <1>10 DEF ReadCue, CueInv, NoCue
<1>11. ASSUME NEW d \in Drives, NEW disc \in Discs, SwapDisc(d, disc)
       PROVE  CueInv'
  BY <1>11 DEF SwapDisc, CueInv, loopVars, tocVars
<1>12. CASE UNCHANGED vars
  BY <1>12 DEF CueInv, vars, loopVars, tocVars
<1> QED
  BY <1>1, <1>2, <1>3, <1>4, <1>5, <1>6, <1>7, <1>8, <1>9, <1>10, <1>11, <1>12 DEF Next, LoadStep

IInv == TypeOK /\ RunInv /\ CueInv

\* Whatever loads succeed, fail or meet another disc half way, the table keeps
\* its types and the cue sheet grows by 1 to 103 bytes a track.
THEOREM Invariance == Spec => []IInv
<1>1. Init => IInv
  BY InitHolds DEF IInv
<1>2. IInv /\ [Next]_vars => IInv'
  BY TypeStep, RunStep, CueStep DEF IInv
<1> QED
  BY <1>1, <1>2, PTL DEF Spec

\* Every field of the table keeps its range, the computed length of a track
\* included, whatever the discs say.
THEOREM TypeCorrect == Spec => []TypeOK
<1>1. IInv => TypeOK
  BY DEF IInv
<1> QED
  BY <1>1, Invariance, PTL

\* On a disc of one session the tracks that are written are those that were
\* counted: point A1 was in its answer.
LEMMA CountedWhole ==
  ASSUME CueInv, cue.len /= 0, OneSession(source)
  PROVE  num = Len(source.tracks)
<1>1. source.a1 \in {num, NoPoint} /\ source.a1 = Len(source.tracks) /\ Len(source.tracks) \in Nat
  BY DiscType DEF CueInv, OneSession
<1> DEFINE l == Len(source.tracks)
<1>2. l /= NoPoint
  BY <1>1 DEF NoPoint
<1> QED
  BY <1>1, <1>2

\* 103 bytes for each of the tracks that were counted are less than 107.
LEMMA SheetFits == IInv => CueFits
<1> SUFFICES ASSUME IInv, cue.len /= 0, OneSession(source)
             PROVE  cue.pos < cue.len
  BY DEF CueFits
<1>1. /\ source \in Discs /\ num \in 1 .. 99 /\ num = Len(source.tracks)
      /\ cue.len = 107 * num /\ cue.pos <= 103 * (k - 1)
  BY CountedWhole DEF IInv, CueInv
<1>2. k <= Len(source.tracks) + 1
  BY <1>1, DiscType, SMTT(20) DEF IInv, CueInv, TypeOK, NoCue
<1> DEFINE a == num
<1>3. a \in Nat /\ 1 <= a /\ k - 1 <= a /\ k \in Nat
  BY <1>1, <1>2 DEF IInv, TypeOK
<1> HIDE DEF a
<1>4. 103 * (k - 1) <= 103 * a /\ 103 * a < 107 * a
  BY <1>3
<1>5. cue.pos \in Nat
  BY DEF IInv, TypeOK
<1> QED
  BY <1>1, <1>3, <1>4, <1>5 DEF a

\* The cue sheet of a disc of one session fits its buffer, whatever stale
\* entries its lines were written from.
THEOREM CueFitsHolds == Spec => []CueFits
BY Invariance, SheetFits, PTL

-----------------------------------------------------------------------------
(* What a load leaves in the table.                                        *)

\* The numbers of tracks that READ TOC may report and that are of no use.
Invalid == {d.a1 : d \in Discs} \ ((1 .. 99) \cup {NoPoint})

\* Until the sheet has a buffer nothing but the number of tracks has changed.
KeptInv ==
  /\ pc = "toc" => table = before.table /\ num = before.num
  /\ pc \in {"timeouts", "read"} /\ cue.len = 0 =>
       table = before.table /\ num \in {before.num} \cup Invalid

\* Steps of a load once its table has been asked for.
LEMMA PointsChangeCue ==
  ASSUME TypeOK, CueInv, TrackInfo \/ TrackInfoFails
  PROVE  cue'.len /= 0 /\ pc' \in {"info", "timeouts"}
<1>1. PICK n : cue' = [cue EXCEPT !.pos = @ + n]
  BY DEF TrackInfo, TrackInfoFails, WriteTrack
<1>2. cue'.len = cue.len
  BY <1>1 DEF TypeOK
<1>3. pc = "info" /\ pc' \in {"info", "timeouts"}
  BY DEF TrackInfo, TrackInfoFails, NextPoint
<1> QED
  BY <1>2, <1>3 DEF CueInv

\* The sheet is read to the end of its text, and the load succeeds, exactly when
\* there is one.
LEMMA SheetRead ==
  ASSUME TypeOK, ReadCue
  PROVE  /\ load'.kind = load.kind /\ load'.drive = load.drive /\ load'.clean = load.clean
         /\ load'.text = cue.pos
         /\ cue.len /= 0 => load'.result /\ load'.read = cue.len - 1
         /\ cue.len = 0 => ~load'.result
<1> DEFINE r == CueSize >= 0
           n == IF r THEN CueRead ELSE 0
<1>1. load' = [load EXCEPT !.result = r, !.text = cue.pos, !.read = n]
  BY DEF ReadCue
<1>2. cue.len \in Nat
  BY DEF TypeOK
<1>3. /\ r \in BOOLEAN
      /\ cue.len /= 0 => r
      /\ cue.len = 0 => ~r
  BY <1>2 DEF CueSize
<1>4. cue.len /= 0 => n = cue.len - 1
  BY <1>2 DEF CueSize, CueRead
<1> HIDE DEF r, n
<1> QED
  BY <1>1, <1>3, <1>4 DEF TypeOK

\* Every step keeps KeptInv, and a load that returns false ends in it.
LEMMA KeptStep ==
  ASSUME IInv, KeptInv, FailedLoadKeeps, [Next]_vars
  PROVE  KeptInv' /\ FailedLoadKeeps'
<1> USE DEF IInv
<1>1. ASSUME NEW kind \in Kinds, NEW d \in Drives, OpenFails(kind, d)
      PROVE  KeptInv' /\ FailedLoadKeeps'
  BY <1>1 DEF OpenFails, Begin, KeptInv, FailedLoadKeeps
<1>2. CASE LoadFile
  BY <1>2 DEF LoadFile, Begin, KeptInv, FailedLoadKeeps
<1>3. ASSUME NEW d \in Drives, NEW t \in TrackNumbers, LoadTrack(d, t)
      PROVE  KeptInv' /\ FailedLoadKeeps'
  BY <1>3 DEF LoadTrack, Begin, KeptInv, FailedLoadKeeps
<1>4. ASSUME NEW d \in Drives, LoadCue(d)
      PROVE  KeptInv' /\ FailedLoadKeeps'
  BY <1>4 DEF LoadCue, Begin, KeptInv, FailedLoadKeeps
<1>5. CASE ReadToc
  <2>1. /\ source' \in Discs /\ num' = TrackCount(source', num)
        /\ table' = table /\ before' = before
    BY <1>5 DEF ReadToc, TypeOK, RunInv
  <2>2. table = before.table /\ num = before.num /\ pc' \in {"info", "timeouts"}
    BY <1>5 DEF ReadToc, KeptInv
  <2>3. CASE num' \in 1 .. 99
    <3> DEFINE n == CueLen(num')
    <3>1. n /= 0
      BY <2>3, CueLenBound
    <3> HIDE DEF n
    <3>2. cue' = [len |-> n, pos |-> 0]
      BY <1>5, <2>3 DEF ReadToc, n
    <3> QED
      BY <2>2, <3>1, <3>2 DEF KeptInv, FailedLoadKeeps
  <2>4. CASE num' \notin 1 .. 99
    <3>1. num' \in {before.num} \cup Invalid
      BY <2>1, <2>2, <2>4 DEF Invalid, TrackCount
    <3> QED
      BY <2>1, <2>2, <3>1 DEF KeptInv, FailedLoadKeeps
  <2> QED
    BY <2>3, <2>4
<1>6. CASE ReadTocFails
  BY <1>6 DEF ReadTocFails, KeptInv, FailedLoadKeeps, tocVars
<1>7. CASE TrackInfo \/ TrackInfoFails
  BY <1>7, PointsChangeCue DEF KeptInv, FailedLoadKeeps
<1>8. CASE GetTimeouts
  BY <1>8 DEF GetTimeouts, KeptInv, FailedLoadKeeps, loopVars
<1>9. CASE ReadCue
  <2>3. ~load'.result => cue.len = 0
    BY <1>9, SheetRead
  <2> QED
    BY <1>9, <2>3 DEF ReadCue, KeptInv, FailedLoadKeeps, tocVars, Invalid
<1>10. ASSUME NEW d \in Drives, NEW disc \in Discs, SwapDisc(d, disc)
       PROVE  KeptInv' /\ FailedLoadKeeps'
  <2>1. load'.result = load.result /\ load'.kind = load.kind
    BY <1>10 DEF SwapDisc, TypeOK
  <2> QED
    BY <1>10, <2>1 DEF SwapDisc, KeptInv, FailedLoadKeeps, tocVars, loopVars
<1>11. CASE UNCHANGED vars
  BY <1>11 DEF KeptInv, FailedLoadKeeps, vars, tocVars, loopVars
<1> QED
  BY <1>1, <1>2, <1>3, <1>4, <1>5, <1>6, <1>7, <1>8, <1>9, <1>10, <1>11 DEF Next, LoadStep

\* A load that returns false has left the table as it was, whichever of its
\* commands failed.
THEOREM FailedLoadKeepsHolds == Spec => []FailedLoadKeeps
<1>1. Init => IInv /\ KeptInv /\ FailedLoadKeeps
  BY InitHolds DEF IInv, Init, KeptInv, FailedLoadKeeps
<1>2. IInv /\ KeptInv /\ FailedLoadKeeps /\ [Next]_vars => KeptInv' /\ FailedLoadKeeps'
  BY KeptStep
<1> QED
  BY <1>1, <1>2, Invariance, PTL DEF Spec

\* The end of a load finds a text that is shorter than its buffer.
LEMMA WholeStep ==
  ASSUME IInv, CueReadWhole, [Next]_vars
  PROVE  CueReadWhole'
<1> USE DEF IInv
<1>1. ASSUME NEW kind \in Kinds, NEW d \in Drives, OpenFails(kind, d)
      PROVE  CueReadWhole'
  BY <1>1 DEF OpenFails, Begin, CueReadWhole
<1>2. CASE LoadFile
  BY <1>2 DEF LoadFile, Begin, CueReadWhole
<1>3. ASSUME NEW d \in Drives, NEW t \in TrackNumbers, LoadTrack(d, t)
      PROVE  CueReadWhole'
  BY <1>3 DEF LoadTrack, Begin, CueReadWhole
<1>4. ASSUME NEW d \in Drives, LoadCue(d)
      PROVE  CueReadWhole'
  BY <1>4 DEF LoadCue, Begin, CueReadWhole
<1>5. CASE ReadToc \/ ReadTocFails \/ TrackInfo \/ TrackInfoFails \/ GetTimeouts
  BY <1>5, PointsChangeCue DEF ReadToc, ReadTocFails, GetTimeouts, CueReadWhole
<1>6. CASE ReadCue
  <2> SUFFICES ASSUME load'.result, OneSession(source)
               PROVE  load'.text <= load'.read /\ load'.text > 0
    BY <1>6 DEF ReadCue, CueReadWhole, OneSession
  <2>1. cue.len /= 0 /\ load'.text = cue.pos /\ load'.read = cue.len - 1
    BY <1>6, SheetRead
  <2>2. cue.pos < cue.len
    BY <2>1, SheetFits DEF CueFits
  <2>3. /\ k = Len(source.tracks) + 1 /\ k - 1 <= cue.pos
        /\ num = Len(source.tracks) /\ num \in 1 .. 99
    <3>1. OneSession(source)
      BY <1>6 DEF ReadCue, OneSession
    <3> QED
      BY <1>6, <2>1, <3>1, CountedWhole DEF ReadCue, CueInv
  <2>4. cue.pos >= 1
    <3> DEFINE a == num
    <3>1. a \in 1 .. 99 /\ k = a + 1
      BY <2>3
    <3>2. k - 1 <= cue.pos
      BY <2>3
    <3> HIDE DEF a
    <3> QED
      BY <3>1, <3>2 DEF TypeOK
  <2>5. cue.pos <= cue.len - 1 /\ cue.pos > 0
    BY <2>2, <2>4 DEF TypeOK
  <2> QED
    BY <2>1, <2>5
<1>7. ASSUME NEW d \in Drives, NEW disc \in Discs, SwapDisc(d, disc)
      PROVE  CueReadWhole'
  <2>1. /\ load'.result = load.result /\ load'.kind = load.kind
        /\ load'.text = load.text /\ load'.read = load.read
    BY <1>7 DEF SwapDisc, TypeOK
  <2> QED
    BY <1>7, <2>1 DEF SwapDisc, CueReadWhole, loopVars, OneSession
<1>8. CASE UNCHANGED vars
  BY <1>8 DEF CueReadWhole, vars, loopVars, OneSession
<1> QED
  BY <1>1, <1>2, <1>3, <1>4, <1>5, <1>6, <1>7, <1>8 DEF Next, LoadStep

\* A load of a disc of one session returns the whole text of its cue sheet.
THEOREM CueReadWholeHolds == Spec => []CueReadWhole
<1>1. Init => CueReadWhole
  BY DEF Init, CueReadWhole
<1>2. IInv /\ CueReadWhole /\ [Next]_vars => CueReadWhole'
  BY WholeStep
<1> QED
  BY <1>1, <1>2, Invariance, PTL DEF Spec

-----------------------------------------------------------------------------
(* Loads that nothing disturbed.                                           *)

\* While no command has failed and the disc is still the one that was asked,
\* the tracks processed so far are the disc's.
CleanInv ==
  /\ pc /= "idle" /\ load.clean /\ cue.len /= 0 =>
       /\ source = inDrive[load.drive] /\ num = TrackCount(source, before.num)
       /\ \A t \in 1 .. k - 1 : table[t] = EntryOf(source, t)
  /\ pc = "read" /\ load.clean => timeouts = load.drive

\* Every step keeps CleanInv, and a load that returns true ends in it.
LEMMA CleanStep ==
  ASSUME IInv, KeptInv, CleanInv, CleanLoadIsExact, [Next]_vars
  PROVE  CleanInv' /\ CleanLoadIsExact'
<1> USE DEF IInv
<1>1. ASSUME NEW kind \in Kinds, NEW d \in Drives, OpenFails(kind, d)
      PROVE  CleanInv' /\ CleanLoadIsExact'
  BY <1>1 DEF OpenFails, Begin, CleanInv, CleanLoadIsExact
<1>2. CASE LoadFile
  BY <1>2 DEF LoadFile, Begin, CleanInv, CleanLoadIsExact
<1>3. ASSUME NEW d \in Drives, NEW t \in TrackNumbers, LoadTrack(d, t)
      PROVE  CleanInv' /\ CleanLoadIsExact'
  BY <1>3 DEF LoadTrack, Begin, CleanInv, CleanLoadIsExact
<1>4. ASSUME NEW d \in Drives, LoadCue(d)
      PROVE  CleanInv' /\ CleanLoadIsExact'
  BY <1>4 DEF LoadCue, Begin, CleanInv, CleanLoadIsExact, loopVars, CueInv, NoCue
<1>5. CASE ReadToc
  <2>1. /\ source' = inDrive[load.drive] /\ num' = TrackCount(source', before'.num)
        /\ UNCHANGED <<inDrive, load, table>>
        /\ pc' \in {"info", "timeouts"}
    BY <1>5 DEF ReadToc, discVars, KeptInv
  <2>2. cue' /= cue => k' = 1
    BY <1>5 DEF ReadToc
  <2>3. cue.len = 0
    BY <1>5 DEF ReadToc, CueInv, NoCue
  <2> QED
    BY <2>1, <2>2, <2>3 DEF CleanInv, CleanLoadIsExact
<1>6. CASE ReadTocFails \/ TrackInfoFails
  <2>1. ~load'.clean /\ pc' /= "idle"
    BY <1>6 DEF ReadTocFails, TrackInfoFails, Failed, NextPoint, TypeOK
  <2> QED
    BY <2>1 DEF CleanInv, CleanLoadIsExact
<1>7. CASE TrackInfo
  <2>1. cue.len /= 0 /\ pc' \in {"info", "timeouts"} /\ pc = "info"
    BY <1>7, PointsChangeCue DEF TrackInfo, CueInv
  <2>2. UNCHANGED <<inDrive, load, num, source, before>> /\ k' = k + 1
    BY <1>7 DEF TrackInfo, NextPoint, discVars
  <2>3. k \in TrackNumbers /\ source.tracks[k] \in DiscTrack /\ table[k] \in Entry
    BY <2>1, EntryInHand DEF TypeOK
  <2>4. ASSUME load.clean
        PROVE  \A t \in 1 .. k' - 1 : table'[t] = EntryOf(source, t)
    <3>1. source = inDrive[load.drive] /\ \A t \in 1 .. k - 1 : table[t] = EntryOf(source, t)
      BY <2>1, <2>4 DEF CleanInv
    <3> DEFINE e == WithInfo(Point, inDrive[load.drive].tracks[k])
    <3>2. e = EntryOf(source, k)
      BY <2>3, <3>1, EntryIsExact DEF Point
    <3>3. table' = [table EXCEPT ![k] = e]
      BY <1>7 DEF TrackInfo, WriteTrack
    <3> HIDE DEF e
    <3>4. table'[k] = EntryOf(source, k)
      BY <2>3, <3>2, <3>3 DEF TypeOK
    <3>5. \A t \in 1 .. k - 1 : t \in TrackNumbers /\ t /= k
      BY <2>3 DEF TrackNumbers
    <3>6. \A t \in 1 .. k - 1 : table'[t] = table[t]
      BY <3>3, <3>5 DEF TypeOK
    <3>7. k \in Nat /\ \A t \in 1 .. k' - 1 : t \in 1 .. k - 1 \/ t = k
      BY <2>2, <2>3 DEF TrackNumbers
    <3> QED
      BY <3>1, <3>4, <3>6, <3>7
  <2> QED
    BY <2>1, <2>2, <2>4 DEF CleanInv, CleanLoadIsExact
<1>8. CASE GetTimeouts
  <2>1. load' = load \/ load' = [load EXCEPT !.clean = FALSE]
    BY <1>8 DEF GetTimeouts, Failed
  <2>2. load'.clean => load' = load /\ timeouts' = load.drive
    BY <1>8, <2>1 DEF GetTimeouts, Failed, TypeOK
  <2> QED
    BY <1>8, <2>2 DEF GetTimeouts, CleanInv, CleanLoadIsExact, discVars, loopVars
<1>9. CASE ReadCue
  <2> SUFFICES ASSUME load'.kind = "cue", load'.result, load'.clean
               PROVE  /\ num = TrackCount(source, before.num)
                      /\ timeouts = load.drive /\ drive = load.drive
                      /\ \A t \in 1 .. Len(source.tracks) : table[t] = EntryOf(source, t)
    BY <1>9, SheetRead DEF ReadCue, CleanInv, CleanLoadIsExact, tocVars
  <2>1. pc = "read" /\ cue.len /= 0 /\ load.clean
    BY <1>9, SheetRead DEF ReadCue
  <2>2. /\ num = TrackCount(source, before.num) /\ timeouts = load.drive /\ drive = load.drive
        /\ \A t \in 1 .. k - 1 : table[t] = EntryOf(source, t)
    BY <2>1 DEF CleanInv, RunInv
  <2>3. k = Len(source.tracks) + 1 /\ Len(source.tracks) \in Nat
    BY <2>1, DiscType DEF CueInv
  <2> QED
    BY <2>2, <2>3
<1>10. ASSUME NEW d \in Drives, NEW disc \in Discs, SwapDisc(d, disc)
       PROVE  CleanInv' /\ CleanLoadIsExact'
  <2>1. /\ load'.result = load.result /\ load'.kind = load.kind /\ load'.drive = load.drive
        /\ load'.clean => load.clean /\ (pc = "idle" \/ load.drive /= d)
    BY <1>10 DEF SwapDisc, TypeOK
  <2>2. UNCHANGED <<drive, num, table, timeouts, pc, source, k, cue, before>>
    BY <1>10 DEF SwapDisc, tocVars, loopVars
  <2>3. pc /= "idle" /\ load'.clean => inDrive'[load.drive] = inDrive[load.drive]
    BY <1>10, <2>1 DEF SwapDisc, TypeOK
  <2> QED
    BY <2>1, <2>2, <2>3 DEF CleanInv, CleanLoadIsExact
<1>11. CASE UNCHANGED vars
  BY <1>11 DEF CleanInv, CleanLoadIsExact, vars, discVars, tocVars, loopVars
<1> QED
  BY <1>1, <1>2, <1>3, <1>4, <1>5, <1>6, <1>7, <1>8, <1>9, <1>10, <1>11 DEF Next, LoadStep

\* A load in which no command failed and no disc was changed leaves the entries
\* of the disc's tracks with exactly what the disc says, whatever was in them
\* before, and their number with what the disc says or, when its answer has no
\* point A1, with what it was.
THEOREM CleanLoadIsExactHolds == Spec => []CleanLoadIsExact
<1>1. Init => KeptInv /\ FailedLoadKeeps /\ CleanInv /\ CleanLoadIsExact
  BY DEF Init, KeptInv, FailedLoadKeeps, CleanInv, CleanLoadIsExact
<1>2. IInv /\ KeptInv /\ FailedLoadKeeps /\ [Next]_vars => KeptInv' /\ FailedLoadKeeps'
  BY KeptStep
<1>3. IInv /\ KeptInv /\ CleanInv /\ CleanLoadIsExact /\ [Next]_vars => CleanInv' /\ CleanLoadIsExact'
  BY CleanStep
<1> QED
  BY <1>1, <1>2, <1>3, Invariance, PTL DEF Spec

-----------------------------------------------------------------------------
(* A load is one step of TocTable.                                         *)

\* What track t of the disc that answered may have become, of what it was
\* before the load.
Outcome(t) ==
  LET e == WithPoint(before.table[t], source.tracks[t])
  IN  {e} \cup {WithInfo(e, x.tracks[t]) : x \in {y \in Discs : t <= Len(y.tracks)}}

\* Half way through, the first k - 1 tracks have become one of those and the
\* others are as they were.
HalfInv ==
  pc /= "idle" /\ cue.len /= 0 =>
    /\ num = TrackCount(source, before.num)
    /\ \A t \in TrackNumbers : IF t < k THEN table[t] \in Outcome(t) ELSE table[t] = before.table[t]

\* The entry about to be written is one that TocTable allows.
LEMMA PointOutcome ==
  ASSUME IInv, HalfInv, pc = "info"
  PROVE  /\ Point \in Outcome(k)
         /\ \A d \in Discs : k <= Len(d.tracks) => WithInfo(Point, d.tracks[k]) \in Outcome(k)
<1>1. k \in TrackNumbers /\ cue.len /= 0
  BY EntryInHand DEF IInv, CueInv
<1>2. table[k] = before.table[k]
  BY <1>1 DEF HalfInv, TrackNumbers
<1> QED
  BY <1>2 DEF Outcome, Point

\* Writing it takes the boundary of HalfInv one track further.
LEMMA HalfWrite ==
  ASSUME IInv, HalfInv, pc = "info", NEW e \in Outcome(k), WriteTrack(e), NextPoint,
         UNCHANGED <<num, source, before>>
  PROVE  HalfInv'
<1>1. k \in TrackNumbers /\ cue.len /= 0 /\ k' = k + 1
  BY EntryInHand DEF IInv, CueInv, NextPoint
<1>2. table' = [table EXCEPT ![k] = e] /\ table \in [TrackNumbers -> Entry]
  BY DEF WriteTrack, IInv, TypeOK
<1>3. \A t : Outcome(t)' = Outcome(t)
  BY DEF Outcome
<1>4. ASSUME NEW t \in TrackNumbers
      PROVE  IF t < k' THEN table'[t] \in Outcome(t)' ELSE table'[t] = before'.table[t]
  <2>1. CASE t = k
    BY <1>1, <1>2, <1>3, <2>1 DEF TrackNumbers
  <2>2. CASE t /= k
    <3>1. table'[t] = table[t] /\ (t < k' <=> t < k)
      BY <1>1, <1>2, <2>2 DEF TrackNumbers
    <3>2. IF t < k THEN table[t] \in Outcome(t) ELSE table[t] = before.table[t]
      BY <1>1 DEF HalfInv
    <3> QED
      BY <1>3, <3>1, <3>2
  <2> QED
    BY <2>1, <2>2
<1>5. num = TrackCount(source, before.num)
  BY <1>1 DEF HalfInv
<1> QED
  BY <1>4, <1>5 DEF HalfInv

\* Every step keeps HalfInv.
LEMMA HalfStep ==
  ASSUME IInv, KeptInv, HalfInv, [Next]_vars
  PROVE  HalfInv'
<1> USE DEF IInv
<1>1. CASE pc = "idle"
  <2>1. pc' = "idle" \/ cue' = NoCue
    BY <1>1 DEF Next, LoadStep, OpenFails, LoadFile, LoadTrack, LoadCue, Begin, loopVars, ReadToc, ReadTocFails,
                TrackInfo, TrackInfoFails, GetTimeouts, ReadCue, SwapDisc, vars, CueInv
  <2> QED
    BY <2>1 DEF HalfInv, NoCue
<1>2. CASE ReadToc
  <2>1. /\ num' = TrackCount(source', before.num)
        /\ UNCHANGED <<table, before>> /\ table = before.table
    BY <1>2 DEF ReadToc, KeptInv
  <2>2. cue' /= cue => k' = 1
    BY <1>2 DEF ReadToc
  <2>3. cue.len = 0
    BY <1>2 DEF ReadToc, CueInv, NoCue
  <2>4. \A t \in TrackNumbers : ~(t < 1)
    BY DEF TrackNumbers
  <2> QED
    BY <2>1, <2>2, <2>3, <2>4 DEF HalfInv
<1>3. CASE ReadTocFails
  BY <1>3 DEF ReadTocFails, HalfInv, loopVars, CueInv, NoCue
<1>4. CASE TrackInfo
  <2>1. PICK e \in Outcome(k) : WriteTrack(e)
    <3>1. load.drive \in Drives /\ inDrive[load.drive] \in Discs /\ pc = "info"
      BY <1>4 DEF TrackInfo, RunInv, TypeOK
    <3> QED
      BY <1>4, <3>1, PointOutcome DEF TrackInfo
  <2> QED
    BY <1>4, <2>1, HalfWrite DEF TrackInfo
<1>5. CASE TrackInfoFails
  BY <1>5, PointOutcome, HalfWrite DEF TrackInfoFails
<1>6. CASE GetTimeouts
  BY <1>6 DEF GetTimeouts, HalfInv, Outcome, loopVars
<1>7. CASE ReadCue
  BY <1>7 DEF ReadCue, HalfInv
<1>8. ASSUME NEW d \in Drives, NEW disc \in Discs, SwapDisc(d, disc)
      PROVE  HalfInv'
  BY <1>8 DEF SwapDisc, HalfInv, Outcome, tocVars, loopVars
<1>9. CASE UNCHANGED vars
  BY <1>9 DEF HalfInv, Outcome, vars, tocVars, loopVars
<1>10. pc /= "idle" => ~LoadFile /\ (\A kind \in Kinds, d \in Drives : ~OpenFails(kind, d))
                      /\ (\A d \in Drives : ~LoadCue(d))
                      /\ \A d \in Drives, t \in TrackNumbers : ~LoadTrack(d, t)
  BY DEF LoadFile, OpenFails, LoadCue, LoadTrack, Begin
<1> QED
  BY <1>1, <1>2, <1>3, <1>4, <1>5, <1>6, <1>7, <1>8, <1>9, <1>10 DEF Next, LoadStep

\* TocTable has the entries of TocEntry.
LEMMA TableEntries ==
  /\ Table!TrackNumbers = TrackNumbers /\ Table!Blank = Blank
  /\ \A d, n : Table!TrackCount(d, n) = TrackCount(d, n)
  /\ \A e, tr : Table!WithPoint(e, tr) = WithPoint(e, tr) /\ Table!WithInfo(e, tr) = WithInfo(e, tr)
<1>1. \A e : Table!PregapLen(e) = PregapLen(e)
  BY DEF PregapLen, Table!PregapLen
<1>2. ASSUME NEW e, NEW tr
      PROVE  Table!WithInfo(e, tr) = WithInfo(e, tr)
  BY <1>1 DEF WithInfo, Table!WithInfo
<1>3. ASSUME NEW e, NEW tr
      PROVE  Table!WithPoint(e, tr) = WithPoint(e, tr)
  BY DEF WithPoint, Table!WithPoint, IsAudio, Table!IsAudio
<1> QED
  BY <1>2, <1>3 DEF TrackNumbers, Table!TrackNumbers, Blank, Table!Blank,
                    TrackCount, Table!TrackCount, NoPoint, Table!NoPoint

\* The end of a load of a cue sheet.
LEMMA CueLoaded ==
  ASSUME IInv, KeptInv, HalfInv, ReadCue
  PROVE  [Table!Next]_(Table!vars)
<1> USE DEF IInv
<1> DEFINE n == Settled(num, before.num)
           tb == Settled(table, before.table)
<1>1. n = before.num /\ tb = before.table /\ n' = num /\ tb' = table
  BY DEF ReadCue, Settled, tocVars
<1>2. CASE cue.len /= 0
  <2>1. /\ num = TrackCount(source, before.num) /\ source \in Discs /\ num \in 1 .. 99
        /\ k = Len(source.tracks) + 1
        /\ Len(source.tracks) \in Nat
    BY <1>2, DiscType DEF ReadCue, CueInv, HalfInv
  <2>2. ASSUME NEW t \in TrackNumbers
        PROVE  table[t] \in Table!Outcomes(source, t)
    <3>1. IF t < k THEN table[t] \in Outcome(t) ELSE table[t] = before.table[t]
      BY <1>2 DEF HalfInv, ReadCue
    <3>2. t < k <=> ~(t > Len(source.tracks))
      BY <2>1 DEF TrackNumbers
    <3> QED
      BY <1>1, <3>1, <3>2, TableEntries DEF Table!Outcomes, Outcome
  <2>3. DOMAIN table = TrackNumbers
    BY DEF TypeOK
  <2> QED
    BY <1>1, <2>1, <2>2, <2>3, TableEntries DEF Table!Next, Table!Load
<1>3. CASE cue.len = 0
  <2>1. table = before.table /\ num \in {before.num} \cup Invalid
    BY <1>3 DEF ReadCue, KeptInv
  <2>2. CASE num = before.num
    BY <1>1, <2>1, <2>2 DEF Table!vars
  <2>3. CASE num \in Invalid
    <3>1. PICK d \in Discs : num \notin 1 .. 99 /\ num = TrackCount(d, before.num)
      BY <2>3 DEF Invalid, TrackCount
    <3> QED
      BY <1>1, <2>1, <3>1, TableEntries DEF Table!Next, Table!LoadInvalid
  <2> QED
    BY <2>1, <2>2, <2>3
<1> QED
  BY <1>2, <1>3

\* Every other step is a stutter of TocTable.
LEMMA TableStep ==
  ASSUME IInv, KeptInv, HalfInv, [Next]_vars
  PROVE  [Table!Next]_(Table!vars)
<1> USE DEF IInv
<1> DEFINE n == Settled(num, before.num)
           tb == Settled(table, before.table)
<1>1. n' = n /\ tb' = tb => UNCHANGED Table!vars
  BY DEF Table!vars
<1>2. ASSUME NEW kind \in Kinds, NEW d \in Drives, OpenFails(kind, d)
      PROVE  n' = n /\ tb' = tb
  BY <1>2 DEF OpenFails, Begin, Settled
<1>3. ASSUME LoadFile PROVE n' = n /\ tb' = tb
  BY <1>3 DEF LoadFile, Begin, Settled
<1>4. ASSUME NEW d \in Drives, NEW t \in TrackNumbers, LoadTrack(d, t)
      PROVE  n' = n /\ tb' = tb
  BY <1>4 DEF LoadTrack, Begin, Settled
<1>5. ASSUME NEW d \in Drives, LoadCue(d)
      PROVE  n' = n /\ tb' = tb
  BY <1>5 DEF LoadCue, Begin, Settled
<1>6. ASSUME ReadToc \/ ReadTocFails \/ TrackInfo \/ TrackInfoFails \/ GetTimeouts
      PROVE  n' = n /\ tb' = tb
  <2>1. pc /= "idle" /\ pc' /= "idle" /\ before' = before
    BY <1>6 DEF ReadToc, ReadTocFails, TrackInfo, TrackInfoFails, GetTimeouts, NextPoint
  <2> QED
    BY <2>1 DEF Settled
<1>7. ASSUME NEW d \in Drives, NEW disc \in Discs, SwapDisc(d, disc)
      PROVE  n' = n /\ tb' = tb
  BY <1>7 DEF SwapDisc, Settled, tocVars
<1>8. ASSUME UNCHANGED vars PROVE n' = n /\ tb' = tb
  BY <1>8 DEF vars, tocVars, Settled
<1> HIDE DEF n, tb
<1> QED
  BY <1>1, <1>2, <1>3, <1>4, <1>5, <1>6, <1>7, <1>8, CueLoaded DEF Next, LoadStep

\* DiscLoad implements TocTable: whoever looks at the table between loads sees
\* it change in one step a load, from the discs alone.
THEOREM Implements == Spec => ImplementsTable
<1>1. Init => Table!Init
  BY TableEntries DEF Init, Table!Init, Settled
<1>2. Init => IInv /\ KeptInv /\ FailedLoadKeeps /\ HalfInv
  BY InitHolds DEF IInv, Init, KeptInv, FailedLoadKeeps, HalfInv
<1>3. IInv /\ KeptInv /\ FailedLoadKeeps /\ [Next]_vars => KeptInv' /\ FailedLoadKeeps'
  BY KeptStep
<1>4. IInv /\ KeptInv /\ HalfInv /\ [Next]_vars => HalfInv'
  BY HalfStep
<1>5. IInv /\ KeptInv /\ HalfInv /\ [Next]_vars => [Table!Next]_(Table!vars)
  BY TableStep
<1> QED
  BY <1>1, <1>2, <1>3, <1>4, <1>5, Invariance, PTL DEF Spec, ImplementsTable, Table!Spec
=============================================================================
