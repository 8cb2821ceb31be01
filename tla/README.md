# redbook: a verification project

`redbook` is a libretro core that plays audio CDs.  It reads the disc itself:
its player opens tracks as files of a virtual file system whose CD-ROM backend
sends SCSI commands to the drive.  This directory models that stack in TLA+,
checks it with TLC on small instances and proves its core with TLAPS.  Of the
vendored libretro-common it also models the two parts whose correctness is a
matter of concurrency, the task queue and the condition variable for Windows.

## 1. Inventory

| Part | Code | State | Operations |
|---|---|---|---|
| SCSI command engine | `libretro-common/cdrom/cdrom.c`: `cdrom_send_command`, `cdrom_read`, MSF helpers | per call: frame counter, two MSF addresses in the command, three buffer counters, retry budget, last sense data; per handle: one cached sector with its label | send a command, read sectors |
| Track files | `vfs/vfs_implementation_cdrom.c`, the CD-ROM branches of `vfs/vfs_implementation.c`, `streams/file_stream.c` | per file: `byte_pos`, `cur_lba`, `cur_track`, end-of-file flag; global: the table of contents `vfs_cdrom_toc` | open, close, seek, tell, read |
| Table of contents and cue sheet | `cdrom.c`: `cdrom_read_subq`, `cdrom_read_track_info`, `cdrom_write_cue`, `cdrom_get_timeouts`; the cue half of the VFS backend; `filestream_read_file` | `vfs_cdrom_toc`: drive, `num_tracks`, `track[99]`, timeouts; per file: the cue text | filled when `retro_load_game` reads a cue sheet |
| Player | `redbook.c` | `file`, `audio_track`, `first_audio_track`, `audio_tracks_detected`, `paused`, `trigger_state_old` | `redbook_run_frame`, `next_track`, `previous_track`, `redbook_free` |
| libretro entry points | `libretro.c` | frame buffer, input descriptors, cue sheet | `retro_init`, `retro_load_game`, `retro_run`, `retro_deinit` |
| Drive discovery and control | `cdrom.c` | none of their own | list drives, tray, speed, readiness |
| Task queue | `queues/task_queue.c` | `tasks_running`, `tasks_finished`, the implementation in use, `worker_continue`, four locks and a condition variable; per task: finished, cancelled | push, cancel, reset, check, wait, init, deinit; the worker thread |
| Condition variable for Windows | `rthreads/rthreads.c` | queue of waiters, `waiters`, `wakens`, two events, a critical section | wait, wait with a timeout, signal, broadcast |
| Drawing, helpers | `ugui*`, `file_path.c`, lists, `memalign.c` | none the rest reads back | - |

The core is single threaded.  `retro_run` calls the player once per video
frame; the player reads a frame of audio from its file; the file turns that into
one `cdrom_read`; the engine turns it into one ioctl per sector, with retries.
What makes it hard is not concurrency among its own parts but the drive: between
any two ioctls the drive may fail, time out without sense data, leave part of a
sector, or hold another disc, and the four layers each keep a position of their
own (frame counter, two MSF addresses, `byte_pos`/`cur_lba`, `audio_track`) that
must agree afterwards.  State also outlives its owner: the statics of the player
and the table of contents survive `retro_deinit` and a change of discs, and a
load whose commands fail leaves a mixture of two discs in the table.

`task_queue.c` and `rthreads.c` belong to the repository but not to the sources
`Makefile.common` builds into this core.  There the threads are what is hard: the
worker takes a task out of one list and puts it into another in two critical
sections, reads its end flag outside its lock, and can be stopped with tasks
under way; the condition variable makes an ordered queue of waiters out of two
auto-reset events that wake whom they please, with signals sent without the lock.

What makes each part correct:

* engine: no copy leaves a buffer, whichever frames fail; the cached sector is
  the one its label names; a read without failures delivers exactly the bytes
  asked for; a call ends, after a bounded number of ioctls;
* files: `byte_pos` and `cur_lba` agree whenever a read from the track uses them;
  such a read stays within its track; a whole read looks like one step to the
  player;
* table of contents: after a load without failures the entries of the disc's
  tracks say what the disc says, whatever they held before; a load that fails
  leaves the entries alone; the cue sheet fits its buffer and is read to its end;
* player: it opens only tracks the table of contents knows, advances in order,
  holds still while paused, and comes round to every track;
* task queue: a pushed task is in one place until its callback has run; it is
  not called after its end, nor freed while the worker has it; each one is
  called back in the end;
* condition variable: its waiters are woken in the order they came, and one that a
  signal or broadcast was meant for is not passed over.

`PROJECT.json` lists the hazards, each at its line, with the properties that
cover it.

## 2. Modules

| Module | Models |
|---|---|
| `Msf` | MSF/LBA conversions and `increment_msf`, bytes and their order of assignment included |
| `CdromCommand` | one handle and the call it executes: prologue, allocation, frame loop, cache, retry, return |
| `TrackLayout` | an entry of the table of contents and the formulas over it |
| `CdromFile` | a track as a file, on top of `CdromCommand`, whose steps are its own |
| `TrackReader` | what a player relies on: a file of fixed length with an atomic read |
| `TocEntry` | how the answers of the drive become an entry of the table |
| `TocTable` | what the rest may assume of the table: it changes in one step, by a load |
| `DiscLoad` | `retro_load_game` down to the commands, a step each |
| `RedbookPlayer` | the player and the frontend's calls around it |
| `TaskQueue` | the main thread, the worker and both implementations of the queue |
| `CondVar` | a condition variable that wakes in order |
| `WinCond` | the one of `rthreads.c`, step by step |
| `MsfProofs`, `CdromCommandProofs`, `CdromReadProofs`, `CdromFileProofs`, `DiscLoadProofs`, `RedbookPlayerProofs`, `TaskQueueProofs`, `WinCondProofs` | proofs about the module of the same name; `CdromReadProofs` continues `CdromCommandProofs`, and `CdromFileProofs` both |
| `MC*` | instances for TLC |

`CdromFile` EXTENDS `CdromCommand`: opening, seeking and the ends of a read are
actions of the file, and `CallStep` runs the engine in between with the file's
variables unchanged.  `CdromFile!ImplementsReader` states that this composition
implements `TrackReader`, and `RedbookPlayer` uses files the way `TrackReader`
describes them: each read succeeds, ends short or fails as a whole.

In the same way `DiscLoad!ImplementsTable` states that a load, seen between loads,
is one step of `TocTable`, and the loads of `RedbookPlayer` are steps of it:
`AfterLoad` gives the table a load leaves behind, with the tracks whose READ TRACK
INFORMATION failed.  `WinCond!ImplementsCondVar` states that the condition
variable implements `CondVar`, fairness included.

### CdromCommand

`pc` is the place in `cdrom_send_command` between two points where the outside
world acts: `alloc` (before `memalign_alloc`), `frame` (head of the loop),
`cached` (a hit), `drive` (an ioctl), `return` (back in `cdrom_read`).  The other
variables are the C locals and handle fields of the same meaning; `failed` and
`attempts` are history variables and influence nothing.

| Action | Code |
|---|---|
| `StartRead`, `StartCommand` (`Call`) | entry, lines 371-399, and the callers that fill in the command |
| `Allocate`, `AllocationFails` | 401-407 |
| `BeginFrame` | 412-457: addresses, skip, copy length, cache lookup |
| `CachedFrame`, `DriveReads`, `DriveAnswers` | 482-519: copy to the caller, cache |
| `DriveFailsRetry`, `DriveFails` | 520-563 |
| `Return` | 566-569 and the end of `cdrom_read`, 1232-1239 |
| `SwapDisc` | the user; external |

Abstractions: a buffer is measured in units, `SectorUnits` to the sector, and a
unit is identified by the disc and the absolute position it came from, or is
`Zero` (memset), `Torn` (left by a failed transfer) or `Caller` (never written).
Commands other than READ CD MSF carry no modelled data; they are told apart by
what the code tells apart: whether they are retried and whether they have a
buffer.  Sense data is its key.  A failed ioctl without sense data leaves the
previous key, as the code does.  An address is assumed to fit MSF
(`InReach`: below 256 minutes), which every disc does.

### CdromFile

`handle`, `track`, `bytePos`, `curLba`, `eof` are the fields of those meanings;
`op` is the call in progress and `last` a history of the last read.  `Open`
includes the three seeks of `retro_vfs_file_open_impl` and a new handle's empty
cache.  `Seek` has the three formulas of `retro_vfs_file_seek_cdrom`, `SEEK_END`
with its address that ignores the start of the track.  `EndRead` is the rest of
`retro_vfs_file_read_cdrom` and the flag `filestream_read` sets.  `TocAssumption`
asks of the table that a track is not shorter than its pregap and ends at an
address MSF can hold, so that every request from a position in the track is one
the engine's theorems cover.  `BeginCommand` is a command sent on the handle of a
track, as drive discovery does on the handles it opens; those it closes again
without a read, but nothing in the interface keeps a caller from reading after it.

A seek may leave a position before the track, which the backend accepts.  (None
of the callers that open a track in this repository seeks there.)  A read from
there goes on if its address is that of a sector of the disc and delivers what
lies before the track, which is why `ReadWithinTrack` speaks of the sector of
the position and `PositionsAgree` of the starts of sectors: elsewhere the
division rounds towards zero, and `byte_pos` and `cur_lba` name neighbouring
sectors.  `Wraps` are the reads in which an unsigned number wraps: the skip,
which is the remainder of a negative number, the end of the read, or the minute
of an address below 0 (`ThroughMsf`, with `Word` for 2^32).  Such a read fails
or leaves the state `Lost`, of which the model says no more.

### DiscLoad

`pc` is the command that is sent next: `toc` (READ TOC), `info` (READ TRACK
INFORMATION of track `k`), `timeouts`, or `read`, the rest of
`filestream_read_file`.  A command is answered from the disc then in the drive or
fails; how the engine gets there is `CdromCommand`'s part.  `load` and `before` are
histories.  The text of the cue sheet is its length: `LinesOf` adds up the lines
one track writes.  `LoadTrack` and `LoadFile` are loads of other content,
`OpenFails` a file that is not there; `vfs_cdrom_toc.drive` is taken over before
the open, so a load that fails still redirects the player's next open.

What the code does and the properties take into account: a disc of two sessions
has more lines than its buffer was sized for, so `CueFits` is stated for one
session; a disc with an invalid last track number overwrites `num_tracks` before
the check, which `FailedLoadKeeps` allows; an answer without a point A1 (`NoPoint`)
leaves `num_tracks` as it was, and the check then passes with the number of an
earlier disc (`TrackCount`), so `CleanLoadIsExact` promises the entries of the new
disc but not their number, and the sheet is sized for the earlier disc; a track
with pre-emphasis does not count as audio (`IsAudio`).

### RedbookPlayer

A call of `retro_run` is `RunFrame` (buttons) followed by the steps to
`pc = "wait"`: `OpenTrack`, `FindAudio`, `ReadAudio`, `Show`, whose only choices are
whether an open or a read succeeds.  `toc` keeps the entries of earlier discs
beyond `num`, as the array does.  `Show` recomputes `audio_track` from the position,
as `redbook_run_frame` does on every frame it presents.  `named` is whether
`vfs_cdrom_toc.drive` names a drive: before any load did, no track opens.  After a
load of an ordinary file the table may be empty; `previous_track` then steps to
track 0, whose entry lies before the table, and whose length is any
(`Delivered`, bounded by `StrayUnits`).

`ShownWithinOne` and `AdvanceInOrder` are stated where the tracks of the disc follow
each other (`Contiguous`), each at a higher address than the one before.  Two tracks
at the same address, which `IsDisc` alone would allow, refute both: the search for
the track of a position skips the first of them.  `DiscsAssumption` excludes the
address 0, which no track has (`lba` counts the two seconds before the first
track): so an entry a disc has filled differs from a blank one, which is how
`OpenTrackKnown` tells them apart.  It also asks that point A1, where a disc has
one, counts no track without a point, and so 99 at most: a disc may count fewer,
as one of two sessions does, none, or not say (`TrackCount`).  A load that fails over the number of
tracks leaves it in the table (`LoadFails`), so the player may run on other content
with `num = 0` and the entries of an earlier disc.  With a number that counts
entries no disc has filled, `redbook_run_frame` would search blank entries, and above 99
elements behind the table; the model says nothing of either.

### TaskQueue

`wpc` and `mpc` are the places of the worker and the main thread between two
critical sections.  `running_lock` and `queue_lock` are held for one step;
`property_lock` and `finished_lock` for the whole of the callbacks, so they are
variables.  The gather of the regular implementation takes the whole of
`tasks_running` into a list of its own, `gathering` (`RegularTakesAll`), calls
its handlers one by one (`RegularHandles`), each task going to the list it
belongs in, and then runs the callbacks (`RegularGathered`).  `cur` and `fin`
are the worker's locals: what they hold may be stale, and `NoCallAfterEnd` is
about that.  A handler (`Ends`) may report its end in any call, must when it is
cancelled, and at the latest in call `MaxCalls`.  A callback may push another
task.  `Check` exchanges the implementation when another one is wanted, `Joined`
waits for the worker; `Hung` is the state in which it waits for ever.

### WinCond

What a waiter does inside `cond->cs` is one step; `TakeLock` is the return of the
caller's lock after a wait for an event.  A signal is three steps (set the event
and read `wakens`, write it, put the potato), of which the first two are inside
`cs`; a broadcast, which does not enter it, is three as well.  `owed` is a history of whom
signals and broadcasts were meant for.  `Racy` says whether a signal may be sent
without the lock while another thread broadcasts; with it TRUE the broadcast can be
undone (below), so the properties are checked with FALSE, where a signal without
the lock still meets every other step.  A waiter of a spurious past signal is not
excluded: `wakens` may exceed `waiters`, as a comment in the code says.

## 3. What is checked

Run inside this directory, `tlc -config X.cfg M`.

| Run | Bounds | Shows |
|---|---|---|
| `MCCdromCommand` | 2 units per sector, 2 retries, 2 disc changes, reads of 0-3 sectors with and without skip across the end of a minute, 4 commands, 3 sense keys | `TypeOK`, `NoOverrun`, `CacheLabel`, `CleanReadIsExact`, `DeliveredInOrder`, `MediaOrder`, `AttemptBound`, and `CallReturns` (liveness) |
| `MCCdromFile` | a data and an audio track with pregaps and an audio track at address 0, 1 retry, 1 disc change, reads of 0, 1 and 3 units, seeks by -2, 0, 1 and 2 to positions of -4 to 4 units, so up to two sectors before the track | `FileTypeOK`, `PositionsAgree`, `ReadWithinTrack`, `ImplementsReader` (refinement) |
| `MCDiscLoad` | two drives, five discs (audio, mixed with a pregap and pre-emphasis, two sessions, no tracks, no point A1), one change of disc, three loads | `TypeOK`, `CueFits`, `CueReadWhole`, `CleanLoadIsExact`, `FailedLoadKeeps`, `ImplementsTable` (refinement) |
| `MCRedbookPlayer` | six discs (audio, mixed in two sessions, data only, one whose first file overlaps the third track, no point A1, no tracks), two loads, one track without information, five button sets, 4 units per sector and 5 per frame as in the program | `TypeOK`, `OpenTrackKnown`, `ShownWithinOne`, `AdvanceInOrder`, `PauseHolds`, `PlaysEveryTrack` (liveness) |
| `MCTaskQueue` | three tasks, two of them blocking, two calls of a handler, two starts of an implementation | `TypeOK`, `OnePlace`, `RemovesFront`, `CallbackAfterEnd`, `NoCallAfterEnd`, `WaitLeavesInHand` |
| `MCTaskQueueLive` | two ordinary tasks | `EveryTaskCalledBack`, `CallsReturn` (liveness) |
| `MCWinCond` | three threads, up to two wakens before nobody signals | `TypeOK`, `QueueHoldsWaiters`, `OneAtEvent`, `EventStandsForWakens`, `PotatoInPlay`, `OwedAreCovered`, `ImplementsCondVar` (refinement), `OwedGetOut` (liveness) |

Why the bounds are enough: two units are the least that tell a skipped head
from the rest of a sector; three sectors give a first, a middle and a last frame;
two retries let a budget be shared by two frames; two changes of disc put old
content on both sides of a new one.  Three units per read never divide the
two-unit sector, so reads start and end in the middle of sectors.  The player's
5:4 is the program's own ratio (2940 bytes to 2352).  Three loads are an earlier
disc, one that overwrites it, and one that fails or mixes the two.  Two blocking
tasks and one other are the least with which one is refused, one is in the hand of
the worker and one is behind it; two starts make one exchange of
implementations.  Three threads can all be waiting with a waken pending, so two are not
the head and compete for the potato.  Every property is also checked
against a mutant: a plausible slip in one of the definitions, kept beside it and
marked `Mutant`, under which the property is violated.

Five runs state what a doc or a comment says and the code does not do:

| Run | The claim | What the code does |
|---|---|---|
| `MCCdromFileCount` | a read returns the number of bytes read (`libretro.h:1331`) | a later frame's success clears the status of one given up on (`cdrom.c:489`): the count includes bytes never read |
| `MCRedbookPlayerShown` | "the current track is right before this" (`redbook.c:245`) | with `>=`, the first sector of a track belongs to the one before |
| `MCTaskQueueWait` | "Blocks until all tasks have finished" (`task_queue.h:222`) | the wait looks at `tasks_running`, which is empty while the worker has the last task in its hand |
| `MCTaskQueueTold` | `worker_continue`: "use running_lock when touching it" (`task_queue.c:296`) | the worker reads it without; told to end in between, it sleeps and is joined for ever |
| `MCWinCondRace` | a broadcast "unblocks all threads currently blocked" (`rthreads.c:741`), and a signal need not hold the lock | the broadcast does not enter `cs`: the increment of a signal overwrites its `wakens` |

Two more are seen in the models without a run of their own: a read the drive
failed returns 0 and looks like the end of the track (`CdromFile!Returned`), and
the frame that meets the end of a track presents no picture (`ReadAudio`).

### Fairness

`CdromCommand!FairSpec` has weak fairness of `Step`, the moves of a call in
progress: the program is not suspended, and each ioctl ends because
`cdrom_send_command_linux` gives it a timeout of 5000 ms.  It does not assume that
the drive ever succeeds, nor that callers call.  `RedbookPlayer!FairSpec` has weak
fairness of the steps inside a frame and of `RunFrame`: the frontend keeps calling
`retro_run`.  It does not assume anything about buttons or the drive;
`PlaysEveryTrack` states their good behaviour as its hypothesis.

`TaskQueue!FairSpec`: both threads are scheduled, and the main loop calls
`task_queue_check` again and again.  Strong fairness of the worker's steps that need
`property_lock` or `finished_lock` says that a lock which is free again and again is
not kept from it for ever; `task_queue_wait`, which spins on them, depends on
that.  `WinCond!FairSpec`: calls in progress go on, a holder of the lock lets it go
in the end, and a thread that tries again and again for the lock or for an event
gets it in the end.  It does not assume that anybody signals.

## 4. What is proved

Every invariant and every action property that the runs check is also a theorem,
for all values of the constants under the modules' assumptions (at least one unit
per sector, naturals for the bounds, sense keys below 16, reads whose sectors have
MSF addresses, a table of contents and discs as above, a range of the unsigned
fields that holds every MSF address, any number of tasks and threads).
Two of the three refinements are proved, and of the third every step.

* `MsfRoundTrip`, `IncrementIsSuccessor` (`MsfProofs`): the conversions are inverse
  and `increment_msf` is the successor, through every carry, below 256 minutes.
* `TypeCorrect`, `NoOverrunHolds`, `CacheLabelHolds` (`CdromCommandProofs`), from the
  inductive invariant `IInv`, theorem `Invariance`.
* `AttemptBoundHolds`, `CleanReadIsExactHolds`, `DeliveredInOrderHolds`,
  `MediaOrderHolds` (`CdromReadProofs`).
* `FileTypeCorrect`, `PositionsAgreeHolds`, `ReadWithinTrackHolds` and `Implements`
  (`CdromFileProofs`): a track as a file implements `TrackReader`.
* `TypeCorrect`, `CueFitsHolds`, `CueReadWholeHolds`, `FailedLoadKeepsHolds`,
  `CleanLoadIsExactHolds` and `Implements` (`DiscLoadProofs`): every property
  the run of `DiscLoad` checks, the refinement of `TocTable` included, for any
  drives, discs (`IsDisc`), size of the table and range of its fields.
* `TypeCorrect`, `OpenTrackKnownHolds`, `ShownWithinOneHolds`, `AdvanceInOrderHolds`,
  `PauseHoldsHolds` (`RedbookPlayerProofs`).
* `TypeCorrect`, `OnePlaceHolds`, `RemovesFrontHolds`, `CallbackAfterEndHolds`,
  `NoCallAfterEndHolds`, `WaitLeavesInHandHolds` (`TaskQueueProofs`).
* `TypeCorrect`, `QueueHoldsWaitersHolds`, `OneAtEventHolds`,
  `EventStandsForWakensHolds`, `PotatoInPlayHolds`, `OwedAreCoveredHolds` and
  `StepsImplement` (`WinCondProofs`): each step of `WinCond` is one of `CondVar`.

The argument for the engine.  `NoOverrun` is not inductive: `copy_len` of the last frame is
`len - copied_bytes`, so its bound depends on how `copied_bytes` grew.  `BufferInv`
says how: at frame `i` the transfer position exceeds the bytes copied by exactly
the skip of the first frame if that frame was delivered, and equals it, one whole
sector behind, if it was given up on.  From that and the rounding of the number
of frames (`FrameCountBounds`) the bounds follow (`BufferBounds`), and with them
that `copy_len` is never negative, which `TypeOK` needs.  `AddressInv` follows the
two addresses, which different statements advance: after the loop head the start
is `lba + i` and the end one more.  It turns `IncrementIsSuccessor` into the truth
of the cache label, which is computed from the end while the data came from the
start.  `AttemptInv` pays for each ioctl with a frame that ends or a retry.
`ContentInv` adds that, without failures, everything below `copied_bytes` is exact;
a cache hit is covered by `CacheLabel`, a transfer by `AddressInv`.

With failures the buffers are no longer exact: neither position moves past a frame
given up on, so the next sector takes its place, over what the failed transfer
left there, and the last copy is longer than a sector.  `TailInv` says that beyond the sector
being filled the transfer buffer is as `memset` left it, so the rest of that
copy brings in nothing but zeros; `RangeInv`
that disc content comes from the sectors passed so far, so a later frame adds
only what lies behind it; `OrderInv` puts the two together.  `MediaInv` is about
which disc the content is from.  The danger is the cache, whose sector may be of a
disc that is gone: the invariant says that once something was delivered the
cached sector is one already passed, so a hit can only be the first delivery.

The argument for `CdromFile`.  The invariants of the engine are about its steps
and not about who calls it, so their step lemmas serve here again
(`FileEngine`); new are the calls themselves, and that `Open` empties the cache.
`BeginFacts` shows that a request a file makes is one the engine accepts, which
needs `PositionsAgree` (the sector is in the track) and `ReadFits` (a length
that ends in the track takes frames that end in it); a read from before the
track begins only where `Wraps` has ruled out what would not fit (`TruncFacts`
and `AddressFacts` say what the division and the way through MSF do to such a
position).  `OpInv` ties the request under way to the fields of the file it was
made from.  With it `RangeInv` becomes `ReadWithinTrack`, and `CleanReadIsExact`
the content the abstract reader promises: `EndRead` is the indivisible read, and
every other step of a call leaves the reader's view alone.

The argument for `DiscLoad`.  `CueFits` compares the text with a buffer for
`num` tracks, which are those of the disc if it has one session
(`CountedWhole`), but the lines are written from the table, which may hold
anything; `LinesBound` shows that no entry takes more than 103 bytes, and
`CueInv` adds them up: at track `k` the text has between `k - 1` and `103 * (k -
1)` bytes. The lower bound is what `CueReadWhole` needs to know that there is a
text. `RunInv` says that a command belongs to the load of a cue sheet, and with
it that `TypeOK` is inductive.  On top of these stand three invariants, one for
each promise: `KeptInv` (without a buffer no entry has changed, and up to READ
TOC not their number), `CleanInv` (the first `k - 1` entries are the disc's;
`EntryIsExact` shows that its two commands overwrite all an entry held), and
`HalfInv` for the refinement: the first `k - 1` entries are among those that
`TocTable` allows, and the rest are as before the load.

The argument for the player.  Its variables outlive the disc they were set for, and
the table keeps the entries of earlier discs, so the invariant speaks of the
entries any disc has filled: they are a prefix of the table (`TableInv`), and
`audio_track` and `first_audio_track` name entries among them (`TrackInv`), also when
a load that failed has left no number of tracks.
`OpenTrackKnown` follows through the wrap-around in both directions.  For
`ShownWithinOne`, `FileInv` keeps `audio_track` at the track being played or the one
before it while the position is in the file: `Show` computes it as the track before
the first one that starts behind the position, which on a `Contiguous` disc is one
of those two.  That there is a first one is the well-foundedness of the naturals.

The argument for the task queue.  `OnePlace` says that the lists hold no task twice and
are disjoint, and that a pushed task outside of them is done or in the worker's hand.
That is only inductive with `CurInv`: between two critical sections the
task the worker is at is still the first of `tasks_running`, although the main
thread pushes and exchanges implementations meanwhile; it is what makes `task_queue_remove` a
removal of the front, which is `RemovesFront`.  `ImplInv` says who may hold a list: a worker
exists exactly while the threaded implementation is in use, and only the regular gather
has a list of its own.  `EndInv` and `CallInv` follow the end flag of a task,
which the worker reads in one critical section and acts upon in the next.

The argument for the condition variable.  `ListInv` (who is in the queue, who may be at
which event, who holds which lock) is inductive whatever the callers do, also with
`Racy` TRUE.  `WakenInv` needs `Racy` FALSE: then one thread at a time writes the wakens,
and what a signal has read is still true when it writes (`CountInv`).  On it stands
the rest: the event, or the thread that took it, stands for the wakens (`EventInv`);
while there are any the head will see them or the potato is on its way
(`PotatoInv`); and the threads a signal was meant for are among the first `wakens` of
the queue (`OwedInv`), where a thread that gives up in the middle lets everyone
behind it move up.

Checked by TLC only are the liveness properties (`CallReturns`, `PlaysEveryTrack`,
`EveryTaskCalledBack`, `CallsReturn`, `OwedGetOut`) and, of `ImplementsCondVar`, that
`WinCond` meets the fairness of `CondVar`: TLAPS does not handle fairness.

## 5. Not modelled

* Drawing, level meters and the times shown: computed and never read back.
* The Windows transport: the same interface with another system call.
* Parsing of paths, ordinary files and the functions of `file_stream.c` the core
  does not call.
* A callback that calls the task queue's getters or setters would lock
  `property_lock` a second time; there is none in this repository.  `find` and
  `retrieve` change nothing.
* The rest of libretro-common, which is most of the 90000 lines of this
  repository: decoders (JPEG, PNG, JSON, CHD), symbol tables and headers of OpenGL and zlib,
  audio filters, networking, containers of one owner.  None of it is compiled
  into the core, and it is sequential code over data (what a decoder computes) or
  declarations without behaviour, for which a state machine says less than the
  code does.  The share of the lines that is modelled is therefore small, while the
  part of the repository that is this program is modelled down to its commands.

## 6. Plan

1. The player over `CdromFile` instead of its abstract file, with the refinement of
   `TrackReader` to put one in the place of the other.
2. Lemmas for the liveness properties: the measures that decrease along a call of
   the engine and along a gather.
