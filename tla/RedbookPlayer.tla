---------------------------- MODULE RedbookPlayer ----------------------------
(***************************************************************************)
(* The player: redbook_run_frame with the tracks it opens, the buttons it  *)
(* is given and the frame it shows, and the calls of the frontend around   *)
(* it.  The file it plays is the one TrackReader describes.                *)
(*                                                                         *)
(* One call of retro_run is a RunFrame step and the steps up to pc =       *)
(* "wait": the only choices in between are the drive's.                    *)
(***************************************************************************)
EXTENDS TocEntry, FiniteSets, FiniteSetsExt

CONSTANTS
  FrameUnits,   \* units read in a video frame (ONE_FRAME_AUDIO_BYTES)
  Discs,        \* the discs that may be loaded
  Inputs,       \* sets of buttons held down
  StrayUnits,   \* bound: where a file without an entry ends at the latest
  MaxLost,      \* bound: tracks whose READ TRACK INFORMATION fails in a load
  MaxLoads      \* bound: how often content is loaded

Buttons == {"A", "B", "UP", "DOWN", "LEFT", "RIGHT"}

ASSUME UnitsAssumption == SectorUnits \in Nat \ {0} /\ FrameUnits \in Nat \ {0}
\* Point A1, where there is one, counts no tracks that have no point.  An
\* address counts the two seconds before the first track: none is 0.
ASSUME DiscsAssumption ==
  \A d \in Discs :
    /\ IsDisc(d) /\ d.a1 <= Len(d.tracks) /\ d.a1 <= 99
    /\ \A t \in 1 .. Len(d.tracks) : d.tracks[t].lba > 0
ASSUME InputsAssumption == Inputs \subseteq SUBSET Buttons
ASSUME LoadsAssumption == MaxLoads \in Nat /\ MaxLost \in Nat /\ StrayUnits \in Nat

VARIABLES
  life,         \* has the frontend initialised the core, loaded content
  loads,        \* how often content was loaded so far
  named,        \* is vfs_cdrom_toc.drive the name of a drive
  toc,          \* vfs_cdrom_toc.track: entries of earlier discs stay behind
  num,          \* vfs_cdrom_toc.num_tracks
  file,         \* the file being played
  audioTrack,   \* audio_track
  firstAudio,   \* first_audio_track
  detected,     \* audio_tracks_detected
  paused,       \* paused
  held,         \* trigger_state_old
  pc,           \* where redbook_run_frame is
  then,         \* what follows the opening of a track
  frame         \* history: what the current or the last frame put out

tocVars    == <<life, loads, named, toc, num>>
playVars   == <<file, audioTrack, firstAudio, detected, paused, held>>
vars       == <<tocVars, playVars, pc, then, frame>>

NoFile == [open |-> FALSE, track |-> 0, pos |-> 0]
NewFrame == [audio |-> 0, video |-> FALSE, shown |-> 0, error |-> FALSE]

Init ==
  /\ life = "off" /\ loads = 0
  /\ named = FALSE
  /\ toc = [t \in TrackNumbers |-> Blank] /\ num = 0
  /\ file = NoFile
  /\ audioTrack = 1 /\ firstAudio = 1
  /\ detected = FALSE /\ paused = FALSE
  /\ held = {}
  /\ pc = "wait" /\ then = "wait"
  /\ frame = [NewFrame EXCEPT !.video = TRUE]

-----------------------------------------------------------------------------
(* Calls of the frontend.                                                  *)

\* The statics of the player are not touched.
RetroInit ==
  /\ life = "off" /\ life' = "ready"
  /\ UNCHANGED <<loads, named, toc, num, playVars, pc, then, frame>>

\* The three ways a load ends.  Reading the cue sheet of a drive fills the
\* table of contents, but for the tracks in lost.
RetroLoadGame(d, lost) ==
  /\ life = "ready" /\ life' = "running"
  /\ loads < MaxLoads /\ loads' = loads + 1
  /\ named' = TRUE
  /\ TrackCount(d, num) \in 1 .. 99
  /\ toc' = AfterLoad(toc, d, lost)
  /\ num' = TrackCount(d, num)
  /\ UNCHANGED <<playVars, pc, then, frame>>

\* A track of a drive, or an ordinary file.
LoadOther ==
  /\ life = "ready" /\ life' = "running"
  /\ loads < MaxLoads /\ loads' = loads + 1
  /\ named' \in {named, TRUE}
  /\ UNCHANGED <<toc, num, playVars, pc, then, frame>>

\* The drive cannot be opened, does not answer READ TOC, or answers without
\* a number of tracks that is of use; that number has been kept by then.
LoadFails ==
  /\ life = "ready"
  /\ named' = TRUE
  /\ num' \in {num} \cup {TrackCount(d, num) : d \in {x \in Discs : TrackCount(x, num) \notin 1 .. 99}}
  /\ UNCHANGED <<life, loads, toc, playVars, pc, then, frame>>

\* Unloading does nothing; redbook_free closes the file.
RetroDeinit ==
  /\ life \in {"ready", "running"} /\ pc = "wait"
  /\ life' = "off"
  /\ file' = NoFile
  /\ UNCHANGED <<loads, named, toc, num, audioTrack, firstAudio, detected, paused, held, pc, then, frame>>

-----------------------------------------------------------------------------
(* Changing tracks.                                                        *)

PreviousTrack == IF audioTrack > firstAudio THEN audioTrack - 1 ELSE num

\* Mutant: the comparison admits the last track.
NextTrackTooFar == IF num >= audioTrack THEN audioTrack + 1 ELSE firstAudio

\* Mutant: the wrap comes one track early.
NextTrackEarly == IF num > audioTrack + 1 THEN audioTrack + 1 ELSE firstAudio

NextTrack == IF num > audioTrack THEN audioTrack + 1 ELSE firstAudio

\* previous_track and next_track up to the close of the old file.
SwitchTo(t, after) ==
  /\ audioTrack' = t
  /\ file' = NoFile
  /\ pc' = "opening" /\ then' = after

\* Mutant: a track opened while paused is read once.
AfterButtonsReads(isPaused, isOpen) == IF isOpen THEN "read" ELSE IF isPaused THEN "show" ELSE "find"

\* Where the frame goes on after the buttons: `if (paused) goto end`, then
\* `if (!file)`.
AfterButtons(isPaused, isOpen) ==
  IF isPaused THEN "show" ELSE IF isOpen THEN "read" ELSE "find"

\* filestream_open of audio_track; it fails when the drive cannot be opened,
\* or when there is none to name in the path.
OpenTrack ==
  /\ pc = "opening"
  /\ \E ok \in {FALSE, named} :
       /\ file' = IF ok THEN [open |-> TRUE, track |-> audioTrack, pos |-> 0] ELSE NoFile
       /\ frame' = [frame EXCEPT !.error = frame.error \/ ~ok]
       /\ pc' = CASE then = "buttons" -> AfterButtons(paused, ok)
                  [] then = "find"    -> IF ok THEN "read" ELSE "show"
                  [] then = "wait"    -> "wait"
  /\ UNCHANGED <<tocVars, audioTrack, firstAudio, detected, paused, held, then>>

-----------------------------------------------------------------------------
(* redbook_run_frame.                                                      *)

\* A button counts when it is the only one that went down since the last
\* frame.
RunFrame(input) ==
  /\ life = "running" /\ pc = "wait"
  /\ held' = input
  /\ frame' = NewFrame
  /\ LET trigger == input \ held
     IN  \/ /\ trigger \in {{"UP"}, {"DOWN"}, {"LEFT"}}
            /\ SwitchTo(PreviousTrack, "buttons")
            /\ UNCHANGED paused
         \/ /\ trigger = {"RIGHT"}
            /\ SwitchTo(NextTrack, "buttons")
            /\ UNCHANGED paused
         \/ /\ trigger \notin {{"UP"}, {"DOWN"}, {"LEFT"}, {"RIGHT"}}
            /\ paused' = IF trigger = {"B"} THEN ~paused ELSE paused
            /\ pc' = AfterButtons(paused', file.open)
            /\ UNCHANGED <<file, audioTrack, then>>
  /\ UNCHANGED <<tocVars, firstAudio, detected>>

\* Mutant: the index is kept as the number of the track.
FirstAudioIndex(audio) == IF audio = {} THEN firstAudio ELSE Min(audio) - 1

FirstAudioTrack(audio) == IF audio = {} THEN firstAudio ELSE Min(audio)

\* No file: look for the first audio track and open it.  Without one, the
\* track found on an earlier disc is still there.
FindAudio ==
  /\ pc = "find"
  /\ LET audio == {t \in 1 .. num : toc[t].audio}
     IN  /\ firstAudio' = FirstAudioTrack(audio)
         /\ detected' = (detected \/ audio /= {})
  /\ audioTrack' = firstAudio'
  /\ IF detected' THEN pc' = "opening" /\ then' = "find"
                  ELSE pc' = "show" /\ UNCHANGED then
  /\ UNCHANGED <<tocVars, file, paused, held, frame>>

\* track_bytes
FileUnits(t) == toc[t].bytes * SectorUnits

UnitsLeft == IF file.pos >= FileUnits(file.track) THEN 0 ELSE FileUnits(file.track) - file.pos

\* The units a read without failure returns.  Without a number of tracks
\* previous_track opens track 0, whose entry lies outside the table: its
\* length is any.
Delivered ==
  IF file.track \in TrackNumbers THEN {IF UnitsLeft < FrameUnits THEN UnitsLeft ELSE FrameUnits}
                                 ELSE {n \in 0 .. FrameUnits : file.pos < StrayUnits \/ n < FrameUnits}

\* One frame's worth of audio is read and played.  A short read, be it the
\* end of the track or a failure, moves on to the next track and returns
\* without showing a frame.
ReadAudio ==
  /\ pc = "read" /\ file.open
  /\ \E ok \in BOOLEAN : \E n \in IF ok THEN Delivered ELSE {0} :
       /\ frame' = [frame EXCEPT !.audio = n, !.error = frame.error \/ ~ok]
       /\ IF n < FrameUnits
            THEN SwitchTo(NextTrack, "wait")
            ELSE /\ file' = [file EXCEPT !.pos = file.pos + n]
                 /\ pc' = "show"
                 /\ UNCHANGED <<audioTrack, then>>
  /\ UNCHANGED <<tocVars, firstAudio, detected, paused, held>>

\* cur_lba of the open file.
CurLba == LbaAt(toc[file.track], file.pos)

\* Mutant: the index is taken for the number of the track.
TrackAtPositionAfter(lba) ==
  LET after == {k \in 1 .. num : toc[k].lba >= lba}
  IN  IF after = {} THEN audioTrack ELSE Min(after)

\* The track the position is taken to be in: the one before the first that
\* starts at or after it, or the one last played when none does.
TrackAtPosition(lba) ==
  LET after == {k \in 1 .. num : toc[k].lba >= lba}
  IN  IF after = {} THEN audioTrack ELSE Min(after) - 1

\* The frame shown: track and position, or that there are no audio tracks.
Show ==
  /\ pc = "show" /\ pc' = "wait"
  /\ audioTrack' = IF file.open /\ detected THEN TrackAtPosition(CurLba) ELSE audioTrack
  /\ frame' = [frame EXCEPT !.video = TRUE, !.shown = IF file.open /\ detected THEN audioTrack' ELSE 0]
  /\ UNCHANGED <<tocVars, file, firstAudio, detected, paused, held, then>>

InFrame == OpenTrack \/ FindAudio \/ ReadAudio \/ Show

Next ==
  \/ RetroInit
  \/ \E d \in Discs : \E lost \in UNION {kSubset(n, 1 .. Len(d.tracks)) : n \in 0 .. MaxLost} : RetroLoadGame(d, lost)
  \/ LoadOther
  \/ LoadFails
  \/ RetroDeinit
  \/ \E input \in Inputs : RunFrame(input)
  \/ InFrame

Spec == Init /\ [][Next]_vars

\* The frontend keeps running frames, and a frame once begun runs to its end.
FairSpec ==
  /\ Spec
  /\ WF_vars(InFrame)
  /\ WF_vars(\E input \in Inputs : RunFrame(input))

-----------------------------------------------------------------------------
(* Properties.                                                             *)

TypeOK ==
  /\ life \in {"off", "ready", "running"} /\ loads \in 0 .. MaxLoads
  /\ named \in BOOLEAN
  /\ num \in 0 .. 99 /\ num <= MaxTrack /\ toc \in [TrackNumbers -> Entry]
  /\ file \in [open : BOOLEAN, track : 0 .. 99, pos : Nat]
  /\ audioTrack \in 0 .. 99 /\ firstAudio \in 1 .. 99
  /\ detected \in BOOLEAN /\ paused \in BOOLEAN /\ held \subseteq Buttons
  /\ pc \in {"wait", "opening", "find", "read", "show"}
  /\ then \in {"buttons", "find", "wait"}
  /\ frame \in [audio : 0 .. FrameUnits, video : BOOLEAN, shown : 0 .. 99, error : BOOLEAN]

\* The tracks of the disc follow each other: each starts after the one before,
\* and none reaches past the start of the next.
Contiguous ==
  \A t \in 1 .. num - 1 :
    toc[t].lba < toc[t + 1].lba /\ toc[t].lba + toc[t].bytes <= toc[t + 1].lba

\* An open file is an entry of the table of contents that a disc has filled,
\* whichever buttons, failures and wrap-arounds led to it; on the first disc
\* it is a track of that disc.  (After a change of discs first_audio_track
\* may still name a track only an earlier disc had.)  Without a number of
\* tracks, before the first disc or after a load that failed over it, it may
\* be track 0 or 1.
OpenTrackKnown ==
  file.open => \/ file.track \in TrackNumbers /\ toc[file.track] /= Blank
                  /\ (loads = 1 => file.track \in 1 .. num)
               \/ num = 0 /\ file.track \in {0, 1}

\* The track number shown is that of the file being played or the one before
\* it, although audio_track is recomputed from the position on every frame,
\* paused ones and failed ones included.
ShownWithinOne ==
  pc = "wait" /\ frame.shown /= 0 /\ file.open /\ file.track <= num /\ Contiguous
    => frame.shown \in {file.track - 1, file.track}

\* Once a file is closed for its end or a failure, the player goes on with
\* the track after it, or, when the shown number lags behind, with the same
\* track again: it neither skips a track nor goes back before the wrap.
AdvanceInOrder ==
  [][pc = "read" /\ pc' = "opening" /\ file.track <= num /\ Contiguous
       => \/ audioTrack' \in {file.track, file.track + 1}
          \/ file.track = num /\ audioTrack' = firstAudio]_vars

\* While the player is paused no audio goes out and the position of its file
\* stands still, also when tracks are changed meanwhile, drives fail, or the
\* core is taken down and started again.
PauseHolds ==
  [][paused' => /\ frame'.audio = 0
                /\ file'.open => file'.pos \in {0, file.pos}]_vars

\* Undisturbed, and with a drive that does not fail, the player comes round to
\* every track from the first audio track on, again and again, from whatever
\* state earlier buttons, failures and discs have left it in.  It may not once
\* the first audio track of an earlier disc lies beyond the end of this one.
Undisturbed ==
  /\ life = "running" /\ held = {} /\ ~paused /\ ~frame.error
  /\ Contiguous /\ firstAudio <= num /\ \E t \in 1 .. num : toc[t].audio
Playing(t) == file.open /\ file.track = t
PlaysEveryTrack ==
  <>[]Undisturbed => \A t \in TrackNumbers : []<>(t \in firstAudio .. num => Playing(t))

\* The track number shown is that of the file being played: "the current
\* track is right before this", as the comment in redbook_run_frame says.
ShownIsPlaying == pc = "wait" /\ frame.shown /= 0 /\ file.open => frame.shown = file.track
=============================================================================
