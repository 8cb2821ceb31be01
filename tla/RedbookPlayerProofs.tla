------------------------- MODULE RedbookPlayerProofs -------------------------
(***************************************************************************)
(* The player for any discs, buttons and lengths of a frame: which track   *)
(* it opens, which one it shows, where it goes after the end of one, and   *)
(* what a pause holds.                                                     *)
(***************************************************************************)
EXTENDS RedbookPlayer, WellFoundedInduction, TLAPS

USE WordAssumption

-----------------------------------------------------------------------------
(* Numbers.                                                                *)

\* The first audio track, the first track after a position: they exist.
LEMMA MinFacts ==
  ASSUME NEW S \in SUBSET Nat, S /= {}
  PROVE  Min(S) \in S /\ \A x \in S : Min(S) <= x
<1> DEFINE R == OpToRel(<, Nat)
<1>1. IsWellFoundedOn(R, Nat)
  BY NatLessThanWellFounded
<1>2. \A x, y \in Nat : <<y, x>> \in R <=> y < x
  BY DEF OpToRel
<1> HIDE DEF R
<1>3. ASSUME NEW T, T \subseteq Nat, T /= {}
      PROVE  \E x \in T : \A y \in T : ~ (<<y, x>> \in R)
  BY <1>1, <1>3, WFMin, Zenon
<1>4. PICK x \in S : \A y \in S : ~(<<y, x>> \in R)
  BY <1>3
<1>5. \A y \in S : x <= y
  <2> TAKE y \in S
  <2>1. x \in Nat /\ y \in Nat
    OBVIOUS
  <2>2. ~(<<y, x>> \in R)
    BY <1>4
  <2>3. ~(y < x)
    BY <1>2, <2>1, <2>2
  <2> QED
    BY <2>1, <2>3
<1> QED
  BY <1>5 DEF Min

\* A position within a number of sectors is in one of them, or at their end.
LEMMA DivFacts ==
  ASSUME NEW a \in Nat, NEW b \in Nat, NEW s \in Nat \ {0}, a <= b * s
  PROVE  a \div s \in 0 .. b
<1> DEFINE q == a \div s
<1>1. q \in Int /\ q * s <= a
  OBVIOUS
<1> HIDE DEF q
<1>2. q <= b
  <2> SUFFICES ASSUME q >= b + 1 PROVE FALSE
    BY <1>1
  <2>1. q * s >= (b + 1) * s
    BY <1>1
  <2>2. (b + 1) * s = b * s + s
    OBVIOUS
  <2> QED
    BY <1>1, <2>1, <2>2
<1>3. q >= 0
  BY DEF q
<1> QED
  BY <1>1, <1>2, <1>3 DEF q

-----------------------------------------------------------------------------
(* A load.                                                                 *)

\* A point of READ TOC leaves an entry with the address it gave.
LEMMA WithPointFacts ==
  ASSUME NEW e \in Entry, NEW tr \in DiscTrack
  PROVE  WithPoint(e, tr) \in Entry /\ WithPoint(e, tr).lba = tr.lba
BY DEF WithPoint, Entry, DiscTrack, IsAudio

\* So does READ TRACK INFORMATION, whose subtraction wraps.
LEMMA WithInfoFacts ==
  ASSUME NEW e \in Entry, NEW tr \in DiscTrack
  PROVE  WithInfo(e, tr) \in Entry /\ WithInfo(e, tr).lba = e.lba
<1> DEFINE f == [e EXCEPT !.lbaStart = tr.start]
           n == (tr.size - (PregapLen(f) % Word)) % Word
<1>1. f \in Entry /\ tr.size \in Uint /\ tr.start \in Uint /\ tr.mode \in 0 .. 15
  BY DEF Entry, DiscTrack
<1>2. PregapLen(f) \in Int /\ tr.size \in Int
  BY <1>1 DEF Entry, PregapLen, Uint
<1> HIDE DEF f
<1>3. n \in Uint
  <2>1. PregapLen(f) % Word \in Int
    BY <1>2
  <2>2. tr.size - (PregapLen(f) % Word) \in Int
    BY <1>2, <2>1
  <2> QED
    BY <2>2 DEF Uint
<1> HIDE DEF n
<1> QED
  BY <1>1, <1>3 DEF WithInfo, Entry, n, f

\* A load fills the entries of its disc and leaves the others alone.
LEMMA LoadFacts ==
  ASSUME NEW table \in [TrackNumbers -> Entry], NEW d \in Discs, NEW lost
  PROVE  /\ AfterLoad(table, d, lost) \in [TrackNumbers -> Entry]
         /\ Len(d.tracks) \in 0 .. MaxTrack
         /\ \A t \in TrackNumbers :
              IF t <= Len(d.tracks) THEN AfterLoad(table, d, lost)[t] /= Blank
                                    ELSE AfterLoad(table, d, lost)[t] = table[t]
<1>1. /\ Len(d.tracks) \in 0 .. MaxTrack
      /\ \A t \in 1 .. Len(d.tracks) : d.tracks[t] \in DiscTrack /\ d.tracks[t].lba > 0
  BY DiscsAssumption DEF IsDisc
<1>2. Blank \in Entry /\ Blank.lba = 0
  BY DEF Blank, Entry, Uint
<1> DEFINE new == AfterLoad(table, d, lost)
<1>3. ASSUME NEW t \in TrackNumbers, t <= Len(d.tracks)
      PROVE  new[t] \in Entry /\ new[t] /= Blank
  <2>1. t \in 1 .. Len(d.tracks)
    BY <1>1, <1>3 DEF TrackNumbers
  <2>2. ~(t > Len(d.tracks)) /\ d.tracks[t] \in DiscTrack /\ d.tracks[t].lba > 0
    BY <1>1, <2>1
  <2>3. CASE t \in lost
    <3>1. new[t] = WithPoint(table[t], d.tracks[t])
      BY <2>2, <2>3 DEF AfterLoad
    <3> QED
      BY <1>2, <2>2, <3>1, WithPointFacts
  <2>4. CASE t \notin lost
    <3>1. new[t] = WithInfo(WithPoint(Blank, d.tracks[t]), d.tracks[t])
      BY <2>2, <2>4 DEF AfterLoad, EntryOf
    <3> QED
      BY <1>2, <2>2, <3>1, WithPointFacts, WithInfoFacts
  <2> QED
    BY <2>3, <2>4
<1>4. ASSUME NEW t \in TrackNumbers, ~(t <= Len(d.tracks))
      PROVE  new[t] = table[t]
  <2>1. t > Len(d.tracks)
    BY <1>1, <1>4 DEF TrackNumbers
  <2> QED
    BY <2>1 DEF AfterLoad
<1>5. new \in [TrackNumbers -> Entry]
  <2>1. \A t \in TrackNumbers : new[t] \in Entry
    BY <1>3, <1>4
  <2>2. new = [t \in TrackNumbers |-> new[t]]
    BY DEF AfterLoad
  <2> QED
    BY <2>1, <2>2
<1> QED
  BY <1>1, <1>3, <1>4, <1>5

\* The number of tracks a load finds: that of a disc, or none, or as it was.
LEMMA CountFacts ==
  ASSUME num \in 0 .. 99, NEW d \in Discs
  PROVE  /\ TrackCount(d, num) = num \/ TrackCount(d, num) \in 0 .. Len(d.tracks)
         /\ TrackCount(d, num) \notin 1 .. 99 => TrackCount(d, num) = 0
<1>1. /\ d.a1 \in (0 .. 255) \cup {NoPoint} /\ d.a1 <= Len(d.tracks) /\ d.a1 <= 99
      /\ Len(d.tracks) \in Nat
  BY DiscsAssumption DEF IsDisc
<1> DEFINE l == Len(d.tracks)
<1>2. CASE d.a1 = NoPoint
  BY <1>2 DEF TrackCount
<1>3. CASE d.a1 /= NoPoint
  <2>1. d.a1 \in 0 .. 255 /\ d.a1 <= l /\ d.a1 <= 99 /\ l \in Nat
    BY <1>1, <1>3
  <2>2. TrackCount(d, num) = d.a1
    BY <1>3 DEF TrackCount
  <2> HIDE DEF l
  <2>3. d.a1 \in 0 .. l /\ (d.a1 \notin 1 .. 99 => d.a1 = 0)
    BY <2>1
  <2> QED
    BY <2>2, <2>3 DEF l
<1> QED
  BY <1>2, <1>3

-----------------------------------------------------------------------------
(* The inductive invariant.                                                *)

\* The tracks whose entry a disc has filled.
Filled == {t \in TrackNumbers : toc[t] /= Blank}

\* The entries are filled from the first on, and those that are counted are;
\* what fills the first of them leaves a number of tracks.
TableInv ==
  /\ \A t \in Filled : 1 .. t \subseteq Filled
  /\ 1 .. num \subseteq Filled
  /\ Filled /= {} => loads > 0
  /\ Filled /= {} /\ loads = 1 /\ life = "running" => num > 0

\* No disc has been played yet.
Fresh == num = 0 /\ firstAudio = 1 /\ audioTrack \in {0, 1}

\* The track to open next has been filled, by this disc or by an earlier one.
TrackInv ==
  /\ Fresh \/ (firstAudio \in Filled /\ audioTrack \in Filled \cup {0})
  /\ num > 0 /\ loads = 1 => firstAudio <= num /\ audioTrack <= num

\* Where a frame may be, with a file or without, paused or not.
PcInv ==
  /\ pc /= "wait" => life = "running" /\ frame.shown = 0
  /\ file.open => life = "running"
  /\ pc \in {"opening", "find"} => ~file.open
  /\ pc = "read" => file.open /\ ~paused
  /\ pc = "find" => ~paused
  /\ pc = "opening" /\ then = "find" => ~paused
  /\ pc = "opening" /\ num > 0 => audioTrack /= 0
  /\ paused => frame.audio = 0
  /\ pc = "wait" /\ frame.shown /= 0 /\ file.open => frame.shown = audioTrack

\* The position is in the file, and audio_track is the track played or the
\* one before it.
FileInv ==
  file.open =>
    /\ file.track \in TrackNumbers => file.pos <= FileUnits(file.track)
    /\ file.track <= num /\ Contiguous => audioTrack \in {file.track - 1, file.track}

Inv == TypeOK /\ TableInv /\ TrackInv /\ PcInv /\ OpenTrackKnown /\ FileInv

\* The tracks of a disc whose tracks follow each other are in order.
LEMMA InOrder ==
  ASSUME TypeOK, Contiguous, NEW i \in 1 .. num, NEW j \in 1 .. num, i < j
  PROVE  toc[i].lba < toc[j].lba
<1>1. \A k \in 1 .. num : toc[k].lba \in Nat
  BY DEF TypeOK, TrackNumbers, Entry, Uint
<1>2. num \in Nat
  BY DEF TypeOK
<1> DEFINE Bad == {k \in i + 1 .. num : ~(toc[i].lba < toc[k].lba)}
<1>3. SUFFICES ASSUME Bad /= {} PROVE FALSE
  BY <1>2
<1> DEFINE k == Min(Bad)
<1>4. k \in Bad /\ \A x \in Bad : k <= x
  BY <1>3, MinFacts
<1> HIDE DEF k
<1>5. k \in i + 1 .. num /\ ~(toc[i].lba < toc[k].lba)
  BY <1>4
<1>6. k - 1 \in 1 .. num - 1 /\ (k - 1) + 1 = k /\ k - 1 \in 1 .. num
  BY <1>2, <1>5
<1>7. toc[k - 1].lba < toc[k].lba
  BY <1>6 DEF Contiguous
<1>8. ~(toc[i].lba < toc[k - 1].lba) /\ k - 1 /= i
  BY <1>1, <1>5, <1>6, <1>7
<1>9. k - 1 \in Bad
  BY <1>2, <1>5, <1>6, <1>8
<1> QED
  BY <1>4, <1>5, <1>9

\* The track a position is taken to be in.
LEMMA TrackAtFacts ==
  ASSUME Inv, file.open
  PROVE  /\ TrackAtPosition(CurLba) \in {audioTrack} \cup 0 .. num - 1
         /\ file.track <= num /\ Contiguous => TrackAtPosition(CurLba) \in {file.track - 1, file.track}
<1>0. CASE num = 0
  <2>1. \A k \in 1 .. num : FALSE
    BY <1>0
  <2>2. TrackAtPosition(CurLba) = audioTrack
    BY <2>1 DEF TrackAtPosition
  <2> QED
    BY <2>2 DEF Inv, FileInv
<1> SUFFICES ASSUME num /= 0
             PROVE  /\ TrackAtPosition(CurLba) \in {audioTrack} \cup 0 .. num - 1
                    /\ file.track <= num /\ Contiguous
                         => TrackAtPosition(CurLba) \in {file.track - 1, file.track}
  BY <1>0
<1> DEFINE lba == CurLba
           after == {k \in 1 .. num : toc[k].lba >= lba}
<1>1. /\ num \in 0 .. 99 /\ num <= MaxTrack /\ num > 0
      /\ file.track \in TrackNumbers /\ file.pos \in Nat /\ file.pos <= FileUnits(file.track)
      /\ \A k \in TrackNumbers : toc[k].lba \in Nat /\ toc[k].bytes \in Nat
      /\ 1 .. num \subseteq TrackNumbers
  <2>1. num \in 0 .. 99 /\ num <= MaxTrack /\ num > 0 /\ file.pos \in Nat
    BY DEF Inv, TypeOK
  <2>2. \A k \in TrackNumbers : toc[k].lba \in Nat /\ toc[k].bytes \in Nat
    BY DEF Inv, TypeOK, Entry, Uint
  <2>3. file.track \in TrackNumbers
    BY <2>1 DEF Inv, OpenTrackKnown
  <2>4. file.pos <= FileUnits(file.track)
    BY <2>3 DEF Inv, FileInv
  <2>5. 1 .. num \subseteq TrackNumbers
    BY <2>1 DEF TrackNumbers
  <2> QED
    BY <2>1, <2>2, <2>3, <2>4, <2>5
<1>2. TrackAtPosition(lba) = IF after = {} THEN audioTrack ELSE Min(after) - 1
  BY DEF TrackAtPosition
<1>3. after \in SUBSET Nat
  BY <1>1
<1>4. after /= {} => Min(after) \in 1 .. num
  BY <1>3, MinFacts
<1>5. ASSUME file.track <= num, Contiguous
      PROVE  TrackAtPosition(lba) \in {file.track - 1, file.track}
  <2> DEFINE t == file.track
  <2>1. t \in 1 .. num
    BY <1>1, <1>5 DEF TrackNumbers
  <2>2. file.pos \div SectorUnits \in 0 .. toc[t].bytes
    BY <1>1, UnitsAssumption, DivFacts DEF FileUnits
  <2>3. lba \in toc[t].lba .. toc[t].lba + toc[t].bytes
    BY <1>1, <2>2 DEF CurLba, LbaAt, TruncDiv
  <2> HIDE DEF lba
  <2>4. \A k \in after : k >= t
    <3> SUFFICES ASSUME NEW k \in after, k < t PROVE FALSE
      BY <1>1, <2>1
    <3>1. toc[k].lba < toc[t].lba
      BY <1>5, <2>1, InOrder DEF Inv
    <3> QED
      BY <1>1, <2>1, <2>3, <3>1
  <2>5. CASE t = num
    <3>1. audioTrack \in {t - 1, t}
      BY <1>5 DEF Inv, FileInv
    <3>2. after /= {} => Min(after) = t
      BY <1>3, <2>4, <2>5, <1>1, MinFacts
    <3> QED
      BY <1>2, <3>1, <3>2
  <2>6. CASE t < num
    <3>1. t \in 1 .. num - 1 /\ t + 1 \in 1 .. num
      BY <1>1, <2>1, <2>6
    <3>2. toc[t].lba + toc[t].bytes <= toc[t + 1].lba
      BY <1>5, <3>1 DEF Contiguous
    <3>3. t + 1 \in after
      BY <1>1, <2>1, <2>3, <3>1, <3>2
    <3>5. Min(after) \in after /\ Min(after) <= t + 1
      BY <1>3, <3>3, MinFacts
    <3>6. Min(after) >= t /\ Min(after) \in Int
      BY <2>4, <3>5
    <3> DEFINE m == Min(after)
    <3>4. m \in {t, t + 1}
      <4> HIDE DEF m, after
      <4>1. m >= t /\ m <= t + 1 /\ m \in Int /\ t \in Int
        BY <2>1, <3>5, <3>6 DEF m
      <4> QED
        BY <4>1
    <3> QED
      BY <1>2, <3>1, <3>3, <3>4
  <2> QED
    BY <1>1, <2>1, <2>5, <2>6
<1> QED
  BY <1>1, <1>2, <1>4, <1>5

\* What the buttons and the end of a track lead to.
LEMMA NextFacts ==
  ASSUME Inv
  PROVE  /\ NextTrack \in 0 .. 99 /\ PreviousTrack \in 0 .. 99
         /\ Fresh => {NextTrack, PreviousTrack} \subseteq {0, 1}
         /\ ~Fresh => NextTrack \in Filled /\ PreviousTrack \in Filled \cup {0}
         /\ num > 0 => {NextTrack, PreviousTrack} \subseteq Filled
         /\ num > 0 /\ loads = 1 => NextTrack <= num /\ PreviousTrack <= num
<1>1. /\ num \in 0 .. 99 /\ audioTrack \in 0 .. 99 /\ firstAudio \in 1 .. 99
      /\ Filled \subseteq 1 .. MaxTrack /\ num <= MaxTrack
  BY DEF Inv, TypeOK, Filled, TrackNumbers
<1>2. NextTrack \in 0 .. 99 /\ PreviousTrack \in 0 .. 99
  BY <1>1 DEF NextTrack, PreviousTrack
<1>3. Fresh => {NextTrack, PreviousTrack} \subseteq {0, 1}
  BY <1>1 DEF Fresh, NextTrack, PreviousTrack
<1>4. ~Fresh => NextTrack \in Filled
  BY <1>1 DEF Inv, TrackInv, TableInv, NextTrack
<1>5. ~Fresh => PreviousTrack \in Filled \/ (num = 0 /\ PreviousTrack = 0)
  <2>1. CASE audioTrack > firstAudio
    <3>1. audioTrack - 1 \in 1 .. audioTrack /\ audioTrack /= 0
      BY <1>1, <2>1
    <3> QED
      BY <2>1, <3>1 DEF Inv, TrackInv, TableInv, PreviousTrack
  <2>2. CASE ~(audioTrack > firstAudio)
    BY <1>1, <2>2 DEF Inv, TableInv, PreviousTrack
  <2> QED
    BY <2>1, <2>2
<1>6. num > 0 /\ loads = 1 => NextTrack <= num /\ PreviousTrack <= num
  BY <1>1 DEF Inv, TrackInv, NextTrack, PreviousTrack
<1>7. num > 0 => ~Fresh
  BY DEF Fresh
<1> QED
  BY <1>2, <1>3, <1>4, <1>5, <1>6, <1>7

\* The first audio track of the disc, or of an earlier one.
LEMMA FirstFacts ==
  ASSUME Inv, FindAudio
  PROVE  /\ firstAudio' \in {firstAudio} \cup 1 .. num
         /\ audioTrack' = firstAudio'
         /\ num = 0 => firstAudio' = firstAudio /\ detected' = detected
<1> DEFINE audio == {t \in 1 .. num : toc[t].audio}
<1>1. firstAudio' = FirstAudioTrack(audio) /\ audioTrack' = firstAudio' /\ detected' = (detected \/ audio /= {})
  BY DEF FindAudio
<1>2. num \in Nat /\ audio \in SUBSET Nat /\ audio \subseteq 1 .. num
  BY DEF Inv, TypeOK
<1>3. audio /= {} => Min(audio) \in 1 .. num
  BY <1>2, MinFacts
<1>4. num = 0 => audio = {}
  BY <1>2
<1>5. detected \in BOOLEAN
  BY DEF Inv, TypeOK
<1> HIDE DEF audio
<1> QED
  BY <1>1, <1>3, <1>4, <1>5 DEF FirstAudioTrack

\* A frame's audio is at most what it asks for, and what the file has left.
LEMMA DeliveredFacts ==
  ASSUME Inv, file.open, NEW n \in Delivered
  PROVE  /\ n \in 0 .. FrameUnits
         /\ file.track \in TrackNumbers => file.pos + n <= FileUnits(file.track)
<1>1. file.pos \in Nat /\ FrameUnits \in Nat
  BY UnitsAssumption DEF Inv, TypeOK
<1>2. CASE file.track \in TrackNumbers
  <2>1. FileUnits(file.track) \in Nat
    <3>1. toc[file.track].bytes \in Nat /\ SectorUnits \in Nat
      BY <1>2, UnitsAssumption DEF Inv, TypeOK, Entry, Uint
    <3> QED
      BY <3>1 DEF FileUnits
  <2>2. file.pos <= FileUnits(file.track)
    BY <1>2 DEF Inv, FileInv
  <2>3. n = IF UnitsLeft < FrameUnits THEN UnitsLeft ELSE FrameUnits
    BY <1>2 DEF Delivered
  <2>4. UnitsLeft \in Nat /\ file.pos + UnitsLeft = FileUnits(file.track)
    BY <1>1, <2>1, <2>2 DEF UnitsLeft
  <2> QED
    BY <1>1, <2>1, <2>3, <2>4
<1>3. CASE file.track \notin TrackNumbers
  BY <1>1, <1>3 DEF Delivered
<1> QED
  BY <1>2, <1>3

\* The opening of a track, whether it fails or not.
LEMMA OpenFacts ==
  ASSUME Inv, OpenTrack
  PROVE  \E ok \in BOOLEAN :
           /\ file' = IF ok THEN [open |-> TRUE, track |-> audioTrack, pos |-> 0] ELSE NoFile
           /\ frame' = [frame EXCEPT !.error = frame.error \/ ~ok]
           /\ pc' = CASE then = "buttons" -> AfterButtons(paused, ok)
                      [] then = "find"    -> IF ok THEN "read" ELSE "show"
                      [] then = "wait"    -> "wait"
<1>1. {FALSE, named} \subseteq BOOLEAN
  BY DEF Inv, TypeOK
<1> QED
  BY <1>1, Zenon DEF OpenTrack

\* The reading of a frame's audio, whether it fails or not.
LEMMA ReadFacts ==
  ASSUME Inv, ReadAudio
  PROVE  \E ok \in BOOLEAN, n \in 0 .. FrameUnits :
           /\ frame' = [frame EXCEPT !.audio = n, !.error = frame.error \/ ~ok]
           /\ file.track \in TrackNumbers => file.pos + n <= FileUnits(file.track)
           /\ IF n < FrameUnits
                THEN SwitchTo(NextTrack, "wait")
                ELSE /\ file' = [file EXCEPT !.pos = file.pos + n]
                     /\ pc' = "show"
                     /\ UNCHANGED <<audioTrack, then>>
<1>1. file.open
  BY DEF ReadAudio
<1>2. 0 \in 0 .. FrameUnits /\ (file.track \in TrackNumbers => file.pos + 0 <= FileUnits(file.track))
  BY <1>1, UnitsAssumption DEF Inv, TypeOK, FileInv
<1>3. PICK ok \in BOOLEAN : \E n \in IF ok THEN Delivered ELSE {0} :
        /\ frame' = [frame EXCEPT !.audio = n, !.error = frame.error \/ ~ok]
        /\ IF n < FrameUnits
             THEN SwitchTo(NextTrack, "wait")
             ELSE /\ file' = [file EXCEPT !.pos = file.pos + n]
                  /\ pc' = "show"
                  /\ UNCHANGED <<audioTrack, then>>
  BY DEF ReadAudio
<1>4. \A n \in IF ok THEN Delivered ELSE {0} :
        n \in 0 .. FrameUnits /\ (file.track \in TrackNumbers => file.pos + n <= FileUnits(file.track))
  BY <1>1, <1>2, DeliveredFacts
<1> QED
  BY <1>3, <1>4, Zenon

FrameType == [audio : 0 .. FrameUnits, video : BOOLEAN, shown : 0 .. 99, error : BOOLEAN]

\* The parts of a frame change one by one.
LEMMA FrameFacts ==
  ASSUME frame \in FrameType
  PROVE  /\ NewFrame \in FrameType
         /\ \A e \in BOOLEAN : [frame EXCEPT !.error = e] \in FrameType
         /\ \A n \in 0 .. FrameUnits, e \in BOOLEAN : [frame EXCEPT !.audio = n, !.error = e] \in FrameType
         /\ \A n \in 0 .. 99 : [frame EXCEPT !.video = TRUE, !.shown = n] \in FrameType
         /\ frame.error \in BOOLEAN
<1>1. NewFrame \in FrameType
  BY UnitsAssumption DEF FrameType, NewFrame
<1>2. \A e \in BOOLEAN : [frame EXCEPT !.error = e] \in FrameType
  BY DEF FrameType
<1>3. \A n \in 0 .. FrameUnits, e \in BOOLEAN : [frame EXCEPT !.audio = n, !.error = e] \in FrameType
  BY DEF FrameType
<1>4. \A n \in 0 .. 99 : [frame EXCEPT !.video = TRUE, !.shown = n] \in FrameType
  BY DEF FrameType
<1>5. frame.error \in BOOLEAN
  BY DEF FrameType
<1> QED
  BY <1>1, <1>2, <1>3, <1>4, <1>5

\* A load only adds to the filled entries.
LEMMA FilledFacts ==
  ASSUME Inv, NEW d \in Discs, NEW lost, RetroLoadGame(d, lost)
  PROVE  /\ Filled' = Filled \cup 1 .. Len(d.tracks) /\ Len(d.tracks) \in Nat
         /\ 1 .. num' \subseteq Filled' /\ num' \in 1 .. 99 /\ num' <= MaxTrack
         /\ ~file.open /\ pc = "wait" /\ loads' = loads + 1
         /\ UNCHANGED <<playVars, pc, then, frame>>
<1>1. toc' = AfterLoad(toc, d, lost) /\ num' = TrackCount(d, num) /\ num' \in 1 .. 99
      /\ loads' = loads + 1 /\ life = "ready"
      /\ UNCHANGED <<playVars, pc, then, frame>>
  BY DEF RetroLoadGame
<1>2. toc \in [TrackNumbers -> Entry] /\ num \in 0 .. 99 /\ num <= MaxTrack
  BY DEF Inv, TypeOK
<1> DEFINE l == Len(d.tracks)
<1>3. /\ l \in Nat /\ l <= MaxTrack
      /\ \A t \in TrackNumbers : IF t <= l THEN toc'[t] /= Blank ELSE toc'[t] = toc[t]
  <2>1. Len(d.tracks) \in 0 .. MaxTrack
    BY <1>2, LoadFacts
  <2>2. \A t \in TrackNumbers : IF t <= l THEN AfterLoad(toc, d, lost)[t] /= Blank
                                           ELSE AfterLoad(toc, d, lost)[t] = toc[t]
    BY <1>2, LoadFacts
  <2> HIDE DEF l
  <2>3. l \in 0 .. MaxTrack
    BY <2>1 DEF l
  <2> QED
    BY <1>1, <2>2, <2>3
<1>8. num' = num \/ num' \in 0 .. l
  BY <1>1, <1>2, CountFacts
<1> HIDE DEF l
<1>4. 1 .. l \subseteq TrackNumbers
  BY <1>3, WordAssumption DEF TrackNumbers
<1>5. \A t \in TrackNumbers : t <= l <=> t \in 1 .. l
  BY <1>3, WordAssumption DEF TrackNumbers
<1>6. Filled' = Filled \cup 1 .. l
  BY <1>3, <1>4, <1>5 DEF Filled
<1>7. ~file.open /\ pc = "wait"
  BY <1>1 DEF Inv, PcInv
<1>9. 1 .. num' \subseteq Filled' /\ num' <= MaxTrack
  BY <1>2, <1>3, <1>6, <1>8, WordAssumption DEF Inv, TableInv
<1> QED
  BY <1>1, <1>3, <1>6, <1>7, <1>9 DEF l

\* A load that fails leaves the number of tracks alone, or none.
LEMMA FailFacts ==
  ASSUME Inv, LoadFails
  PROVE  num' \in {num, 0} /\ num \in 0 .. 99 /\ num <= MaxTrack
<1>1. num \in 0 .. 99 /\ num <= MaxTrack
  BY DEF Inv, TypeOK
<1>2. num' = num \/ \E d \in Discs : num' = TrackCount(d, num) /\ TrackCount(d, num) \notin 1 .. 99
  BY DEF LoadFails
<1> QED
  BY <1>1, <1>2, CountFacts

\* Every step keeps the types, and the table to entries.
LEMMA TypeStep ==
  ASSUME Inv, [Next]_vars
  PROVE  TypeOK'
<1> USE DEF Inv, TypeOK, tocVars, playVars
<1>0. frame \in FrameType
  BY DEF FrameType
<1>1. CASE RetroInit \/ LoadFails
  <2>1. named' \in BOOLEAN
    BY <1>1 DEF RetroInit, LoadFails
  <2>2. num' \in 0 .. 99 /\ num' <= MaxTrack
    BY <1>1, FailFacts, WordAssumption DEF RetroInit
  <2> QED
    BY <1>1, <2>1, <2>2 DEF RetroInit, LoadFails
<1>2. ASSUME NEW d \in Discs, NEW lost, RetroLoadGame(d, lost)
      PROVE  TypeOK'
  <2>1. toc' \in [TrackNumbers -> Entry] /\ num' \in 0 .. 99 /\ num' <= MaxTrack
    BY <1>2, LoadFacts, FilledFacts DEF RetroLoadGame
  <2>2. loads' \in 0 .. MaxLoads
    BY <1>2, LoadsAssumption DEF RetroLoadGame
  <2> QED
    BY <1>2, <2>1, <2>2 DEF RetroLoadGame
<1>3. CASE LoadOther
  <2>1. loads' \in 0 .. MaxLoads
    BY <1>3, LoadsAssumption DEF LoadOther
  <2>2. named' \in BOOLEAN
    BY <1>3 DEF LoadOther
  <2> QED
    BY <1>3, <2>1, <2>2 DEF LoadOther
<1>11. NoFile \in [open : BOOLEAN, track : 0 .. 99, pos : Nat]
  BY DEF NoFile
<1>4. CASE RetroDeinit
  BY <1>4, <1>11 DEF RetroDeinit
<1>5. ASSUME NEW input \in Inputs, RunFrame(input)
      PROVE  TypeOK'
  <2>1. held' \subseteq Buttons /\ UNCHANGED <<tocVars, firstAudio, detected>>
    BY <1>5, InputsAssumption DEF RunFrame
  <2>7. frame' \in FrameType
    BY <1>0, <1>5, FrameFacts DEF RunFrame
  <2>2. audioTrack' \in 0 .. 99 /\ then' \in {"buttons", "find", "wait"}
    BY <1>5, NextFacts DEF RunFrame, SwitchTo
  <2>3. file' \in {NoFile, file}
    BY <1>5 DEF RunFrame, SwitchTo
  <2>4. pc' \in {"wait", "opening", "find", "read", "show"}
    BY <1>5 DEF RunFrame, SwitchTo, AfterButtons
  <2>5. paused' \in BOOLEAN
    BY <1>5 DEF RunFrame, SwitchTo
  <2> QED
    BY <1>11, <2>1, <2>2, <2>3, <2>4, <2>5, <2>7 DEF FrameType
<1>6. CASE OpenTrack
  <2>1. PICK ok \in BOOLEAN :
          /\ file' = IF ok THEN [open |-> TRUE, track |-> audioTrack, pos |-> 0] ELSE NoFile
          /\ frame' = [frame EXCEPT !.error = frame.error \/ ~ok]
          /\ pc' = CASE then = "buttons" -> AfterButtons(paused, ok)
                     [] then = "find"    -> IF ok THEN "read" ELSE "show"
                     [] then = "wait"    -> "wait"
    BY <1>6, OpenFacts
  <2>2. file' \in [open : BOOLEAN, track : 0 .. 99, pos : Nat]
    BY <1>11, <2>1
  <2>3. frame' \in FrameType
    BY <1>0, <2>1, FrameFacts
  <2>4. pc' \in {"wait", "opening", "find", "read", "show"}
    BY <2>1 DEF AfterButtons
  <2>5. UNCHANGED <<tocVars, audioTrack, firstAudio, detected, paused, held, then>>
    BY <1>6 DEF OpenTrack
  <2> QED
    BY <2>2, <2>3, <2>4, <2>5 DEF FrameType
<1>7. CASE FindAudio
  <2>1. firstAudio' \in 1 .. 99 /\ audioTrack' \in 0 .. 99
    BY <1>7, FirstFacts
  <2>2. detected' \in BOOLEAN
    BY <1>7 DEF FindAudio
  <2>3. pc' \in {"opening", "show"} /\ then' \in {then, "find"} /\ UNCHANGED <<tocVars, file, paused, held, frame>>
    BY <1>7 DEF FindAudio
  <2> QED
    BY <2>1, <2>2, <2>3
<1>8. CASE ReadAudio
  <2>1. PICK ok \in BOOLEAN, n \in 0 .. FrameUnits :
          /\ frame' = [frame EXCEPT !.audio = n, !.error = frame.error \/ ~ok]
          /\ IF n < FrameUnits
               THEN SwitchTo(NextTrack, "wait")
               ELSE /\ file' = [file EXCEPT !.pos = file.pos + n]
                    /\ pc' = "show"
                    /\ UNCHANGED <<audioTrack, then>>
    BY <1>8, ReadFacts
  <2>2. frame' \in FrameType
    BY <1>0, <2>1, FrameFacts
  <2>3. n \in Nat
    BY UnitsAssumption
  <2>4. file' \in [open : BOOLEAN, track : 0 .. 99, pos : Nat]
    <3>1. file' = NoFile \/ file' = [file EXCEPT !.pos = file.pos + n]
      BY <2>1 DEF SwitchTo
    <3> QED
      BY <1>11, <2>3, <3>1
  <2>5. audioTrack' \in 0 .. 99 /\ pc' \in {"opening", "show"} /\ then' \in {then, "wait"}
    BY <2>1, NextFacts DEF SwitchTo
  <2>6. UNCHANGED <<tocVars, firstAudio, detected, paused, held>>
    BY <1>8 DEF ReadAudio
  <2> QED
    BY <2>2, <2>4, <2>5, <2>6 DEF FrameType
<1>9. CASE Show
  <2>1. audioTrack' \in 0 .. 99
    BY <1>9, TrackAtFacts DEF Show
  <2> DEFINE n == IF file.open /\ detected THEN audioTrack' ELSE 0
  <2>2. n \in 0 .. 99 /\ frame' = [frame EXCEPT !.video = TRUE, !.shown = n]
    BY <1>9, <2>1 DEF Show
  <2> HIDE DEF n
  <2>3. frame' \in FrameType
    BY <1>0, <2>2, FrameFacts
  <2>4. pc' = "wait" /\ UNCHANGED <<tocVars, file, firstAudio, detected, paused, held, then>>
    BY <1>9 DEF Show
  <2> QED
    BY <2>1, <2>3, <2>4 DEF FrameType
<1>10. CASE UNCHANGED vars
  BY <1>10 DEF vars
<1> QED
  BY <1>1, <1>2, <1>3, <1>4, <1>5, <1>6, <1>7, <1>8, <1>9, <1>10 DEF Next, InFrame

\* A load, and what it leaves alone.
LEMMA Loads ==
  ASSUME Inv, [Next]_vars
  PROVE  \/ \E d \in Discs : \E lost : RetroLoadGame(d, lost)
         \/ LoadOther
         \/ LoadFails
         \/ UNCHANGED <<loads, toc, num>> /\ life' \in {life, "ready", "off"}
<1> USE DEF tocVars, playVars
<1>1. CASE RetroInit \/ RetroDeinit
  BY <1>1 DEF RetroInit, RetroDeinit
<1>2. ASSUME NEW input \in Inputs, RunFrame(input)
      PROVE  UNCHANGED <<loads, toc, num, life>>
  BY <1>2 DEF RunFrame
<1>3. CASE InFrame
  BY <1>3 DEF InFrame, OpenTrack, FindAudio, ReadAudio, Show
<1>4. CASE UNCHANGED vars
  BY <1>4 DEF vars
<1> QED
  BY <1>1, <1>2, <1>3, <1>4 DEF Next

\* Entries stay filled from the first on.
LEMMA TableStep ==
  ASSUME Inv, [Next]_vars
  PROVE  TableInv'
<1>0. loads \in Nat /\ Filled \subseteq Nat /\ num \in Nat
  BY LoadsAssumption, WordAssumption DEF Inv, TypeOK, Filled, TrackNumbers
<1>1. ASSUME NEW d \in Discs, NEW lost, RetroLoadGame(d, lost)
      PROVE  TableInv'
  <2> DEFINE l == Len(d.tracks)
  <2>1. /\ Filled' = Filled \cup 1 .. l /\ l \in Nat
        /\ 1 .. num' \subseteq Filled' /\ num' \in 1 .. 99 /\ loads' = loads + 1
    BY <1>1, FilledFacts
  <2> HIDE DEF l
  <2>2. ASSUME NEW t \in Filled'
        PROVE  1 .. t \subseteq Filled'
    <3>1. CASE t \in Filled
      BY <2>1, <3>1 DEF Inv, TableInv
    <3>2. CASE t \in 1 .. l
      BY <2>1, <3>2
    <3> QED
      BY <2>1, <3>1, <3>2
  <2> QED
    BY <1>0, <2>1, <2>2 DEF TableInv
<1>2. CASE LoadOther
  BY <1>0, <1>2 DEF LoadOther, Inv, TableInv, Filled
<1>3. CASE LoadFails
  <2>1. Filled' = Filled /\ loads' = loads /\ life' = "ready" /\ num' \in {num, 0}
    BY <1>3, FailFacts DEF Filled, LoadFails
  <2> QED
    BY <1>0, <2>1 DEF Inv, TableInv
<1>4. CASE UNCHANGED <<loads, toc, num>> /\ life' \in {life, "ready", "off"}
  BY <1>4 DEF Inv, TableInv, Filled
<1> QED
  BY <1>1, <1>2, <1>3, <1>4, Loads

\* The track to open next stays one that was filled.
LEMMA TrackStep ==
  ASSUME Inv, [Next]_vars
  PROVE  TrackInv'
<1> USE DEF tocVars, playVars
<1>0. /\ loads \in Nat /\ num \in 0 .. 99 /\ num <= MaxTrack
      /\ audioTrack \in 0 .. 99 /\ firstAudio \in 1 .. 99
      /\ 1 .. num \subseteq Filled /\ TrackInv
  BY LoadsAssumption DEF Inv, TypeOK, TableInv
<1>1. ASSUME NEW d \in Discs, NEW lost, RetroLoadGame(d, lost)
      PROVE  TrackInv'
  <2>1. /\ Filled \subseteq Filled' /\ 1 .. num' \subseteq Filled' /\ num' \in 1 .. 99
        /\ loads' = loads + 1
        /\ UNCHANGED <<audioTrack, firstAudio, detected>>
    BY <1>1, FilledFacts
  <2>2. CASE Fresh
    <3>1. 1 \in Filled'
      BY <2>1
    <3> QED
      BY <2>1, <2>2, <3>1 DEF TrackInv, Fresh
  <2>3. CASE ~Fresh
    <3>1. loads' /= 1
      BY <1>0, <2>1, <2>3 DEF Inv, TableInv, TrackInv
    <3> QED
      BY <1>0, <2>1, <2>3, <3>1 DEF TrackInv
  <2> QED
    BY <2>2, <2>3
<1>2. CASE LoadOther
  <2>1. Filled' = Filled /\ loads' = loads + 1 /\ UNCHANGED <<num, audioTrack, firstAudio>>
    BY <1>2 DEF LoadOther, Filled
  <2>2. num > 0 => loads' /= 1
    <3>1. num > 0 => 1 \in Filled
      BY <1>0
    <3> QED
      BY <1>0, <2>1, <3>1 DEF Inv, TableInv
  <2> QED
    BY <1>0, <2>1, <2>2 DEF TrackInv, Fresh
<1>11. CASE LoadFails
  <2>1. Filled' = Filled /\ UNCHANGED <<loads, audioTrack, firstAudio>> /\ num' \in {num, 0}
    BY <1>11, FailFacts DEF LoadFails, Filled
  <2> QED
    BY <1>0, <2>1 DEF TrackInv, Fresh
<1>3. ASSUME UNCHANGED <<loads, toc, num>>, UNCHANGED firstAudio,
             \/ audioTrack' = audioTrack
             \/ audioTrack' \in {NextTrack, PreviousTrack}
             \/ num > 0 /\ audioTrack' \in 0 .. num - 1
      PROVE  TrackInv'
  <2>1. Filled' = Filled
    BY <1>3 DEF Filled
  <2>2. CASE audioTrack' = audioTrack
    BY <1>0, <1>3, <2>1, <2>2 DEF TrackInv, Fresh
  <2>3. CASE audioTrack' \in {NextTrack, PreviousTrack}
    <3>1. CASE Fresh
      BY <1>0, <1>3, <2>3, <3>1, NextFacts DEF TrackInv, Fresh
    <3>2. CASE ~Fresh
      BY <1>0, <1>3, <2>1, <2>3, <3>2, NextFacts DEF TrackInv
    <3> QED
      BY <3>1, <3>2
  <2>4. CASE num > 0 /\ audioTrack' \in 0 .. num - 1
    <3>1. audioTrack' \in Filled \cup {0} /\ audioTrack' <= num
      BY <1>0, <2>4
    <3> QED
      BY <1>0, <1>3, <2>1, <2>4, <3>1 DEF TrackInv, Fresh
  <2> QED
    BY <1>3, <2>2, <2>3, <2>4
<1>4. CASE RetroInit \/ RetroDeinit
  BY <1>3, <1>4 DEF RetroInit, RetroDeinit
<1>5. ASSUME NEW input \in Inputs, RunFrame(input)
      PROVE  TrackInv'
  BY <1>3, <1>5 DEF RunFrame, SwitchTo
<1>6. CASE OpenTrack
  BY <1>3, <1>6 DEF OpenTrack
<1>7. CASE FindAudio
  <2>1. UNCHANGED <<loads, toc, num>> /\ Filled' = Filled
    BY <1>7 DEF FindAudio, Filled
  <2>2. /\ firstAudio' \in {firstAudio} \cup 1 .. num /\ audioTrack' = firstAudio'
        /\ num = 0 => firstAudio' = firstAudio /\ detected' = detected
    BY <1>7, FirstFacts
  <2>3. CASE num = 0
    BY <1>0, <2>1, <2>2, <2>3 DEF TrackInv, Fresh
  <2>4. CASE num > 0
    <3>1. firstAudio' \in Filled
      BY <1>0, <2>2, <2>4 DEF TrackInv, Fresh
    <3>2. loads = 1 => firstAudio' <= num
      BY <1>0, <2>2, <2>4 DEF TrackInv
    <3> QED
      BY <1>0, <2>1, <2>2, <2>4, <3>1, <3>2 DEF TrackInv
  <2> QED
    BY <1>0, <2>3, <2>4
<1>8. CASE ReadAudio
  BY <1>3, <1>8 DEF ReadAudio, SwitchTo
<1>9. CASE Show
  <2>1. CASE file.open /\ detected
    <3>1. audioTrack' = audioTrack \/ audioTrack' \in 0 .. num - 1
      BY <1>9, <2>1, TrackAtFacts DEF Show
    <3>2. audioTrack' \in 0 .. num - 1 => num > 0
      BY <1>0
    <3> QED
      BY <1>3, <1>9, <3>1, <3>2 DEF Show
  <2>2. CASE ~(file.open /\ detected)
    BY <1>3, <1>9, <2>2 DEF Show
  <2> QED
    BY <2>1, <2>2
<1>10. CASE UNCHANGED vars
  BY <1>3, <1>10 DEF vars
<1> QED
  BY <1>1, <1>2, <1>4, <1>5, <1>6, <1>7, <1>8, <1>9, <1>10, <1>11 DEF Next, InFrame

\* A frame goes through its places in order, and not while paused.
LEMMA PcStep ==
  ASSUME Inv, [Next]_vars
  PROVE  PcInv'
<1> USE DEF tocVars, playVars
<1>0. /\ PcInv /\ paused \in BOOLEAN /\ then \in {"buttons", "find", "wait"}
      /\ num \in Nat /\ audioTrack \in 0 .. 99
      /\ frame \in FrameType
  BY DEF Inv, TypeOK, FrameType
<1>1. CASE RetroInit \/ LoadFails \/ LoadOther
  <2>1. pc = "wait" /\ ~file.open
    BY <1>0, <1>1 DEF RetroInit, LoadFails, LoadOther, PcInv
  <2>2. UNCHANGED <<playVars, pc, then, frame>>
    BY <1>1 DEF RetroInit, LoadFails, LoadOther
  <2> QED
    BY <1>0, <2>1, <2>2 DEF PcInv
<1>2. ASSUME NEW d \in Discs, NEW lost, RetroLoadGame(d, lost)
      PROVE  PcInv'
  BY <1>0, <1>2 DEF RetroLoadGame, PcInv
<1>3. CASE RetroDeinit
  BY <1>0, <1>3 DEF RetroDeinit, PcInv, NoFile
<1>4. ASSUME NEW input \in Inputs, RunFrame(input)
      PROVE  PcInv'
  <2>1. /\ life' = "running" /\ num' = num /\ frame' = NewFrame /\ frame'.shown = 0 /\ frame'.audio = 0
    BY <1>4 DEF RunFrame, NewFrame
  <2>2. CASE file' = NoFile /\ pc' = "opening" /\ then' = "buttons" /\ audioTrack' \in {NextTrack, PreviousTrack}
    <3>1. num > 0 => audioTrack' /= 0
      BY <1>0, <2>2, NextFacts DEF Filled, TrackNumbers
    <3> QED
      BY <2>1, <2>2, <3>1 DEF PcInv, NoFile
  <2>3. CASE file' = file /\ paused' \in BOOLEAN /\ pc' = AfterButtons(paused', file.open)
    <3>1. CASE paused'
      BY <2>1, <2>3, <3>1 DEF PcInv, AfterButtons
    <3>2. CASE ~paused'
      BY <2>1, <2>3, <3>2 DEF PcInv, AfterButtons
    <3> QED
      BY <3>1, <3>2
  <2>4. \/ file' = NoFile /\ pc' = "opening" /\ then' = "buttons" /\ audioTrack' \in {NextTrack, PreviousTrack}
        \/ file' = file /\ paused' = paused /\ pc' = AfterButtons(paused', file.open)
        \/ file' = file /\ paused' = ~paused /\ pc' = AfterButtons(paused', file.open)
    BY <1>4 DEF RunFrame, SwitchTo
  <2> QED
    BY <1>0, <2>2, <2>3, <2>4
<1>5. CASE OpenTrack
  <2>1. PICK ok \in BOOLEAN :
          /\ file' = IF ok THEN [open |-> TRUE, track |-> audioTrack, pos |-> 0] ELSE NoFile
          /\ frame' = [frame EXCEPT !.error = frame.error \/ ~ok]
          /\ pc' = CASE then = "buttons" -> AfterButtons(paused, ok)
                     [] then = "find"    -> IF ok THEN "read" ELSE "show"
                     [] then = "wait"    -> "wait"
    BY <1>5, OpenFacts DEF Inv
  <2>2. frame'.shown = frame.shown /\ frame'.audio = frame.audio /\ file'.open = ok
    BY <1>0, <2>1 DEF FrameType, NoFile
  <2>3. life = "running" /\ frame.shown = 0 /\ pc = "opening" /\ UNCHANGED <<life, num, audioTrack, paused, then>>
    BY <1>0, <1>5 DEF OpenTrack, PcInv
  <2>4. CASE then = "buttons"
    BY <1>0, <2>1, <2>2, <2>3, <2>4 DEF PcInv, AfterButtons
  <2>5. CASE then = "find"
    BY <1>0, <2>1, <2>2, <2>3, <2>5 DEF PcInv
  <2>6. CASE then = "wait"
    BY <1>0, <2>1, <2>2, <2>3, <2>6 DEF PcInv
  <2> QED
    BY <1>0, <2>4, <2>5, <2>6
<1>6. CASE FindAudio
  <2>1. firstAudio' /= 0 /\ audioTrack' = firstAudio'
    BY <1>0, <1>6, FirstFacts DEF Inv, TypeOK
  <2> QED
    BY <1>0, <1>6, <2>1 DEF FindAudio, PcInv
<1>7. CASE ReadAudio
  <2>1. PICK ok \in BOOLEAN, n \in 0 .. FrameUnits :
          /\ frame' = [frame EXCEPT !.audio = n, !.error = frame.error \/ ~ok]
          /\ IF n < FrameUnits
               THEN SwitchTo(NextTrack, "wait")
               ELSE /\ file' = [file EXCEPT !.pos = file.pos + n]
                    /\ pc' = "show"
                    /\ UNCHANGED <<audioTrack, then>>
    BY <1>7, ReadFacts
  <2>2. frame'.shown = frame.shown
    BY <1>0, <2>1 DEF FrameType
  <2>3. ~paused /\ life = "running" /\ frame.shown = 0 /\ UNCHANGED <<life, num, paused>>
    BY <1>0, <1>7 DEF ReadAudio, PcInv
  <2>4. num > 0 => NextTrack /= 0
    BY NextFacts DEF Filled, TrackNumbers
  <2>5. CASE n < FrameUnits
    BY <2>1, <2>2, <2>3, <2>4, <2>5 DEF SwitchTo, PcInv, NoFile
  <2>6. CASE ~(n < FrameUnits)
    BY <2>1, <2>2, <2>3, <2>6 DEF PcInv
  <2> QED
    BY <2>5, <2>6
<1>8. CASE Show
  <2>1. frame'.audio = frame.audio /\ frame'.shown = IF file.open /\ detected THEN audioTrack' ELSE 0
    BY <1>0, <1>8 DEF Show, FrameType
  <2>2. life = "running" /\ pc' = "wait" /\ UNCHANGED <<life, num, file, paused>>
    BY <1>0, <1>8 DEF Show, PcInv
  <2> QED
    BY <1>0, <2>1, <2>2 DEF PcInv
<1>9. CASE UNCHANGED vars
  BY <1>0, <1>9 DEF vars, PcInv
<1> QED
  BY <1>1, <1>2, <1>3, <1>4, <1>5, <1>6, <1>7, <1>8, <1>9 DEF Next, InFrame

\* Whatever is opened is a track a disc has filled.
LEMMA KnownStep ==
  ASSUME Inv, [Next]_vars
  PROVE  OpenTrackKnown'
<1> USE DEF tocVars, playVars
<1>0. OpenTrackKnown /\ TrackInv /\ PcInv /\ num \in Nat
  BY DEF Inv, TypeOK
<1>1. ASSUME NEW d \in Discs, NEW lost, RetroLoadGame(d, lost)
      PROVE  OpenTrackKnown'
  BY <1>1, FilledFacts DEF OpenTrackKnown
<1>2. ASSUME ~file.open, file' = file
      PROVE  OpenTrackKnown'
  BY <1>2 DEF OpenTrackKnown
<1>3. ASSUME file' = NoFile
      PROVE  OpenTrackKnown'
  BY <1>3 DEF OpenTrackKnown, NoFile
<1>4. ASSUME UNCHANGED <<loads, toc, num>>, file'.open => file.open /\ file'.track = file.track
      PROVE  OpenTrackKnown'
  BY <1>0, <1>4 DEF OpenTrackKnown
<1>5. CASE LoadOther
  BY <1>0, <1>2, <1>5 DEF LoadOther, PcInv
<1>6. CASE RetroInit \/ LoadFails
  BY <1>0, <1>2, <1>6 DEF RetroInit, LoadFails, PcInv
<1>7. CASE RetroDeinit
  BY <1>3, <1>7 DEF RetroDeinit
<1>8. ASSUME NEW input \in Inputs, RunFrame(input)
      PROVE  OpenTrackKnown'
  BY <1>3, <1>4, <1>8 DEF RunFrame, SwitchTo
<1>9. CASE OpenTrack
  <2>1. PICK ok \in BOOLEAN : file' = IF ok THEN [open |-> TRUE, track |-> audioTrack, pos |-> 0] ELSE NoFile
    BY <1>9, OpenFacts
  <2>2. pc = "opening" /\ UNCHANGED <<loads, toc, num>>
    BY <1>9 DEF OpenTrack
  <2>3. CASE ~ok
    BY <1>3, <2>1, <2>3
  <2>4. CASE ok /\ num = 0
    <3>1. file'.track = audioTrack /\ num' = 0
      BY <2>1, <2>2, <2>4
    <3>2. CASE audioTrack \in {0, 1}
      BY <3>1, <3>2 DEF OpenTrackKnown
    <3>3. CASE audioTrack \notin {0, 1}
      <4>1. audioTrack \in Filled
        BY <1>0, <3>3 DEF TrackInv, Fresh
      <4>2. loads /= 1
        BY <1>0, <2>2, <2>4, <4>1 DEF PcInv, Inv, TableInv
      <4> QED
        BY <2>2, <3>1, <4>1, <4>2 DEF OpenTrackKnown, Filled
    <3> QED
      BY <3>2, <3>3
  <2>5. CASE ok /\ num > 0
    <3>1. audioTrack \in Filled /\ audioTrack \in 0 .. 99 /\ audioTrack /= 0 /\ (loads = 1 => audioTrack <= num)
      BY <1>0, <2>2, <2>5 DEF TrackInv, Fresh, PcInv, Inv, TypeOK
    <3>2. file'.track = audioTrack
      BY <2>1, <2>5
    <3> QED
      BY <1>0, <2>2, <3>1, <3>2 DEF OpenTrackKnown, Filled
  <2> QED
    BY <1>0, <2>3, <2>4, <2>5
<1>10. CASE FindAudio \/ Show
  BY <1>4, <1>10 DEF FindAudio, Show
<1>11. CASE ReadAudio
  <2>1. PICK n \in 0 .. FrameUnits : file' = NoFile \/ file' = [file EXCEPT !.pos = file.pos + n]
    BY <1>11, ReadFacts DEF SwitchTo
  <2>2. file.open /\ UNCHANGED <<loads, toc, num>>
    BY <1>11 DEF ReadAudio
  <2>3. file \in [open : BOOLEAN, track : 0 .. 99, pos : Nat]
    BY DEF Inv, TypeOK
  <2> QED
    BY <1>3, <1>4, <2>1, <2>2, <2>3
<1>12. CASE UNCHANGED vars
  BY <1>4, <1>12 DEF vars
<1> QED
  BY <1>1, <1>5, <1>6, <1>7, <1>8, <1>9, <1>10, <1>11, <1>12 DEF Next, InFrame

\* The position stays in the file, and audio_track next to its track.
LEMMA FileStep ==
  ASSUME Inv, [Next]_vars
  PROVE  FileInv'
<1> USE DEF tocVars, playVars
<1>0. /\ FileInv /\ PcInv /\ num \in 0 .. 99
      /\ file \in [open : BOOLEAN, track : 0 .. 99, pos : Nat]
      /\ audioTrack \in 0 .. 99
  BY DEF Inv, TypeOK
<1>1. ASSUME ~file'.open
      PROVE  FileInv'
  BY <1>1 DEF FileInv
<1>2. ASSUME UNCHANGED <<toc, num>>, file.open, file'.track = file.track,
             file.track \in TrackNumbers => file'.pos <= FileUnits(file.track),
             file.track <= num /\ Contiguous => audioTrack' \in {file.track - 1, file.track}
      PROVE  FileInv'
  <2>1. Contiguous' <=> Contiguous
    BY <1>2 DEF Contiguous
  <2>2. FileUnits(file.track)' = FileUnits(file.track)
    BY <1>2 DEF FileUnits
  <2> QED
    BY <1>2, <2>1, <2>2 DEF FileInv
<1>3. ASSUME UNCHANGED <<toc, num, file, audioTrack>>
      PROVE  FileInv'
  BY <1>0, <1>1, <1>2, <1>3 DEF FileInv
<1>4. ASSUME NEW d \in Discs, NEW lost, RetroLoadGame(d, lost)
      PROVE  FileInv'
  BY <1>1, <1>4, FilledFacts
<1>5. CASE RetroInit \/ LoadFails \/ LoadOther
  BY <1>0, <1>1, <1>5 DEF RetroInit, LoadFails, LoadOther, PcInv
<1>6. CASE RetroDeinit
  BY <1>1, <1>6 DEF RetroDeinit, NoFile
<1>7. ASSUME NEW input \in Inputs, RunFrame(input)
      PROVE  FileInv'
  BY <1>1, <1>3, <1>7 DEF RunFrame, SwitchTo, NoFile
<1>8. CASE OpenTrack
  <2>1. PICK ok \in BOOLEAN : file' = IF ok THEN [open |-> TRUE, track |-> audioTrack, pos |-> 0] ELSE NoFile
    BY <1>8, OpenFacts
  <2>2. UNCHANGED <<toc, num, audioTrack>>
    BY <1>8 DEF OpenTrack
  <2>3. CASE ~ok
    BY <1>1, <2>1, <2>3 DEF NoFile
  <2>4. CASE ok
    <3>1. file'.track = audioTrack' /\ file'.pos = 0
      BY <2>1, <2>2, <2>4
    <3>2. (file.track \in TrackNumbers => FileUnits(file.track) >= 0)'
      <4>1. SUFFICES ASSUME file'.track \in TrackNumbers
                     PROVE  FileUnits(file.track)' >= 0
        OBVIOUS
      <4>2. toc[file'.track].bytes \in Nat /\ SectorUnits \in Nat
        BY <4>1, UnitsAssumption DEF Inv, TypeOK, Entry, Uint
      <4> QED
        BY <2>2, <4>2 DEF FileUnits
    <3> QED
      BY <1>0, <2>2, <3>1, <3>2 DEF FileInv
  <2> QED
    BY <2>3, <2>4
<1>9. CASE FindAudio
  BY <1>0, <1>1, <1>9 DEF FindAudio, PcInv
<1>10. CASE ReadAudio
  <2>1. PICK n \in 0 .. FrameUnits :
          /\ file.track \in TrackNumbers => file.pos + n <= FileUnits(file.track)
          /\ \/ file' = NoFile
             \/ file' = [file EXCEPT !.pos = file.pos + n] /\ audioTrack' = audioTrack
    BY <1>10, ReadFacts DEF SwitchTo
  <2>2. file.open /\ UNCHANGED <<toc, num>>
    BY <1>10 DEF ReadAudio
  <2>3. CASE file' = NoFile
    BY <1>1, <2>3 DEF NoFile
  <2>4. CASE file' = [file EXCEPT !.pos = file.pos + n] /\ audioTrack' = audioTrack
    <3>1. file'.track = file.track /\ file'.pos = file.pos + n
      BY <1>0, <2>4
    <3> QED
      BY <1>0, <1>2, <2>1, <2>2, <2>4, <3>1 DEF FileInv
  <2> QED
    BY <2>1, <2>3, <2>4
<1>11. CASE Show
  <2>1. UNCHANGED <<toc, num, file>>
    BY <1>11 DEF Show
  <2>2. CASE file.open /\ detected
    <3>1. audioTrack' = TrackAtPosition(CurLba)
      BY <1>11, <2>2 DEF Show
    <3>2. file.track <= num /\ Contiguous => audioTrack' \in {file.track - 1, file.track}
      BY <2>2, <3>1, TrackAtFacts
    <3> QED
      BY <1>0, <1>2, <2>1, <2>2, <3>2 DEF FileInv
  <2>3. CASE ~(file.open /\ detected)
    BY <1>3, <1>11, <2>1, <2>3 DEF Show
  <2> QED
    BY <2>2, <2>3
<1>12. CASE UNCHANGED vars
  BY <1>3, <1>12 DEF vars
<1> QED
  BY <1>4, <1>5, <1>6, <1>7, <1>8, <1>9, <1>10, <1>11, <1>12 DEF Next, InFrame

-----------------------------------------------------------------------------
(* The theorems.                                                           *)

\* The player starts with an empty table, no file and the first track.
LEMMA InvInit == Init => Inv
<1> SUFFICES ASSUME Init PROVE Inv
  OBVIOUS
<1>1. Blank \in Entry
  BY DEF Blank, Entry, Uint
<1>2. TypeOK
  <2>1. frame \in [audio : 0 .. FrameUnits, video : BOOLEAN, shown : 0 .. 99, error : BOOLEAN]
    <3>1. frame = [audio |-> 0, video |-> TRUE, shown |-> 0, error |-> FALSE]
      BY DEF Init, NewFrame
    <3> QED
      BY <3>1, UnitsAssumption
  <2>2. loads \in 0 .. MaxLoads /\ num \in 0 .. 99 /\ num <= MaxTrack
    BY LoadsAssumption DEF Init
  <2>3. file \in [open : BOOLEAN, track : 0 .. 99, pos : Nat]
    BY DEF Init, NoFile
  <2>4. toc \in [TrackNumbers -> Entry]
    BY <1>1 DEF Init
  <2>5. /\ life \in {"off", "ready", "running"} /\ named \in BOOLEAN
        /\ audioTrack \in 0 .. 99 /\ firstAudio \in 1 .. 99
        /\ detected \in BOOLEAN /\ paused \in BOOLEAN /\ held \subseteq Buttons
        /\ pc = "wait" /\ then = "wait"
    <3>1. /\ life = "off" /\ audioTrack = 1 /\ firstAudio = 1
          /\ detected = FALSE /\ paused = FALSE /\ named = FALSE /\ held = {}
          /\ pc = "wait" /\ then = "wait"
      BY DEF Init
    <3>2. named \in BOOLEAN /\ detected \in BOOLEAN /\ paused \in BOOLEAN
      BY <3>1, Zenon
    <3> QED
      BY <3>1, <3>2
  <2> QED
    BY <2>1, <2>2, <2>3, <2>4, <2>5 DEF TypeOK
<1>3. Filled = {}
  BY DEF Init, Filled
<1>4. TableInv
  BY <1>3 DEF Init, TableInv
<1>5. TrackInv /\ PcInv
  BY DEF Init, TrackInv, Fresh, PcInv, NoFile, NewFrame
<1>6. OpenTrackKnown /\ FileInv
  BY DEF Init, OpenTrackKnown, FileInv, NoFile
<1> QED
  BY <1>2, <1>4, <1>5, <1>6 DEF Inv

\* The inductive invariant.
THEOREM Invariance == Spec => []Inv
<1>1. ASSUME Inv, [Next]_vars
      PROVE  Inv'
  BY <1>1, TypeStep, TableStep, TrackStep, PcStep, KnownStep, FileStep DEF Inv
<1> QED
  BY InvInit, <1>1, PTL DEF Spec

\* The table of contents stays a table of entries of 99 tracks at most, and
\* audio_track a track number the path of a track can hold.
THEOREM TypeCorrect == Spec => []TypeOK
<1>1. Inv => TypeOK
  BY DEF Inv
<1> QED
  BY Invariance, <1>1, PTL

\* filestream_open is only asked for tracks a disc has filled, but for tracks
\* 0 and 1 while the table has no number of tracks.
THEOREM OpenTrackKnownHolds == Spec => []OpenTrackKnown
<1>1. Inv => OpenTrackKnown
  BY DEF Inv
<1> QED
  BY Invariance, <1>1, PTL

\* The track redbook_run_frame shows is the one it plays or the one before.
THEOREM ShownWithinOneHolds == Spec => []ShownWithinOne
<1>1. Inv => ShownWithinOne
  BY DEF Inv, PcInv, FileInv, ShownWithinOne
<1> QED
  BY Invariance, <1>1, PTL

\* After the end of a track, or a failed read, redbook_run_frame goes on with
\* the track after it or with the same one, or wraps.
THEOREM AdvanceInOrderHolds == Spec => AdvanceInOrder
<1> DEFINE A == pc = "read" /\ pc' = "opening" /\ file.track <= num /\ Contiguous
                  => \/ audioTrack' \in {file.track, file.track + 1}
                     \/ file.track = num /\ audioTrack' = firstAudio
<1>1. ASSUME Inv, [Next]_vars
      PROVE  [A]_vars
  <2> SUFFICES ASSUME pc = "read", pc' = "opening", file.track <= num, Contiguous
               PROVE  \/ audioTrack' \in {file.track, file.track + 1}
                      \/ file.track = num /\ audioTrack' = firstAudio
    OBVIOUS
  <2>1. life = "running" /\ file.open
    BY <1>1 DEF Inv, PcInv
  <2>2. audioTrack' = NextTrack
    <3>1. \A d, lost : ~RetroLoadGame(d, lost)
      BY <2>1 DEF RetroLoadGame
    <3>2. \A input : ~RunFrame(input)
      BY DEF RunFrame
    <3>3. ~RetroInit /\ ~LoadOther /\ ~LoadFails /\ ~RetroDeinit
      BY <2>1 DEF RetroInit, LoadOther, LoadFails, RetroDeinit
    <3>4. ~OpenTrack /\ ~FindAudio /\ ~Show /\ ~UNCHANGED vars
      BY DEF OpenTrack, FindAudio, Show, vars
    <3>5. ReadAudio
      BY <1>1, <3>1, <3>2, <3>3, <3>4 DEF Next, InFrame
    <3> QED
      BY <1>1, <3>5, ReadFacts DEF SwitchTo
  <2>3. audioTrack \in {file.track - 1, file.track}
    BY <1>1, <2>1 DEF Inv, FileInv
  <2>4. num \in 0 .. 99 /\ file.track \in 0 .. 99
    BY <1>1 DEF Inv, TypeOK
  <2> QED
    BY <2>2, <2>3, <2>4 DEF NextTrack
<1>2. Inv /\ [Next]_vars => [A]_vars
  BY <1>1
<1> QED
  BY Invariance, <1>2, PTL DEF Spec, AdvanceInOrder

\* `if (paused) goto end`: nothing is read for as long as the pause lasts.
THEOREM PauseHoldsHolds == Spec => PauseHolds
<1> DEFINE A == paused' => /\ frame'.audio = 0
                           /\ file'.open => file'.pos \in {0, file.pos}
<1>1. ASSUME Inv, [Next]_vars
      PROVE  [A]_vars
  <2> USE DEF tocVars, playVars
  <2>1. PcInv'
    BY <1>1, PcStep
  <2>2. paused' => frame'.audio = 0
    BY <2>1 DEF PcInv
  <2>3. ASSUME paused', file'.open
        PROVE  file'.pos \in {0, file.pos}
    <3>1. ASSUME ReadAudio PROVE FALSE
      BY <1>1, <2>3, <3>1 DEF ReadAudio, Inv, PcInv
    <3>2. ASSUME RetroInit \/ LoadOther \/ LoadFails \/ RetroDeinit \/ FindAudio \/ Show
          PROVE  file' \in {file, NoFile}
      BY <3>2 DEF RetroInit, LoadOther, LoadFails, RetroDeinit, FindAudio, Show
    <3>3. ASSUME NEW d \in Discs, NEW lost, RetroLoadGame(d, lost)
          PROVE  file' = file
      BY <3>3 DEF RetroLoadGame
    <3>4. ASSUME NEW input \in Inputs, RunFrame(input)
          PROVE  file' \in {file, NoFile}
      BY <3>4 DEF RunFrame, SwitchTo
    <3>5. CASE OpenTrack
      BY <1>1, <3>5, OpenFacts DEF NoFile
    <3>6. CASE UNCHANGED vars
      BY <3>6 DEF vars
    <3>7. NoFile.pos = 0
      BY DEF NoFile
    <3> QED
      BY <1>1, <3>1, <3>2, <3>3, <3>4, <3>5, <3>6, <3>7 DEF Next, InFrame
  <2> QED
    BY <2>2, <2>3
<1>2. Inv /\ [Next]_vars => [A]_vars
  BY <1>1
<1> QED
  BY Invariance, <1>2, PTL DEF Spec, PauseHolds
=============================================================================
