# Verification of the FM Towns libretro core

The repository is a libretro core for the Fujitsu FM Towns: a thin frontend
layer (`src/libretro`) around a cut-down MAME (`src/src`) whose FM Towns driver
(`src/src/mame/fujitsu`) emulates the machine. This directory holds TLA+ models
of the parts that carry the program's own logic, TLC configurations that check
them on small instances, and proofs checked by TLAPS.

Paths below are relative to the repository; `L` is `libretro/fmtowns_libretro.cpp`,
`B` is `libretro/mame_bridge.cpp`, `O` is `libretro/osd_libretro.cpp`, `T` is
`src/mame/fujitsu/fmtowns.cpp`, `V` is `fmtowns_v.cpp` beside it, `U` is
`src/devices/machine/upd71071.cpp`.

## Inventory

| Component | State it keeps | Operations | Talks to |
|---|---|---|---|
| libretro entry points, `phase3_runtime` (L) | option globals, `g_runtime_loaded`, `m_state`, model, content, `m_have_real_frame` | `retro_init`, `retro_deinit`, `retro_load_game`, `retro_unload_game`, `retro_reset`, `retro_run`, `retro_serialize`, `retro_unserialize` | the frontend calls it; it calls the session |
| session (B) | the MAME options, OSD, manager and machine, the save state guard | `start`, `stop`, `run_slice`, `save_state`, `load_state`, `copy_video_frame`, input setters | owned by the runtime; drives MAME |
| frame capture (O, `fmtowns_v.cpp`) | callback, last captured frame | called by the driver at every `screen_update`, read by the runtime | driver to runtime, through globals |
| watchdog (L) | a thread, the atomics that `retro_run` stores, its log | start, poll, report, join | a second thread, atomics only |
| content mounting (B) | playlist entries, one counter per kind, image options | `all_m3u_entries`, `mount_content_paths`, `mount_content_entry` | inside `session::start` |
| CMOS seed (B) | the files below the NVRAM directory | `preferred_nvram_directory`, `copy_file_if_missing` | inside `session::start`, the file system |
| CD-ROM controller (T) | `towns_cdrom_controller`: command, parameters, four status bytes, `extra_status`, sector buffer and pointer, flags, four timers | ports 4c0-4c6, timer callbacks, DMA callback | the guest CPU, the DMA controller, the CD-DA player, the slave PIC |
| uPD71071 (U) | mask, counts, one timer per channel | register writes, `dmarq`, the transfer timer | the CD-ROM, SCSI and floppy controllers |
| CD-DA player (`cdda.cpp`) | playing, paused, position, end | start, stop, pause, the sound stream | the CD-ROM controller |
| SCSI adapter (`fm_scsi.cpp`) and drives (`t10spc.cpp`, `t10sbc.cpp`) | phase, bus lines, command and sector buffer, two timers; block address and count of a drive | data and control port, phase timer, transfer timer, reset | the guest CPU, a DMA channel, the slave PIC |
| input forwarding (L, O, B), mouse (`bus/msx/ctrl/mouse.cpp`) | routing mode, forced buttons, accumulated position; the mouse's nibble counter and last position | `poll`, `set_joystick_input`, `set_mouse_input`, `pin_8_w`, pad ports | frontend to MAME ports to the guest |
| screen device (`emu/screen.cpp`, `emu/video.cpp`) | size, last line and pixel drawn, bitmap, start of the frame | `update_partial`, `update_now`, `vblank_begin`, `configure`, save and load | the CRTC, the palette, the capture, the runtime's forced update |
| frame presentation (L, B, O) | frame and present buffer, size announced | `copy_video_frame`, `detect_active_rect`, `copy_cropped_frame`, `update_geometry` | capture to frontend, inside `retro_run` |
| audio output (O) | none that is used | batch conversion | MAME to frontend |
| driver interrupts (T, `fmtowns_v.cpp`) | port 60, keyboard, serial, sound and timer flags | port handlers and callbacks | the two interrupt controllers |
| interrupt controllers (`pic8259.cpp`) | lines, requests, in service, mask, current level | `set_irq_line`, a timer with no delay, `acknowledge`, `write` | the devices, each other, the CPU |
| video (`fmtowns_v.cpp`) | CRTC registers, sprites, palette | port handlers, sprite timers, rendering | the guest, the frame capture |
| floppy, RTC, memory card glue | registers | port handlers | MAME devices |
| MAME core and devices | everything else | scheduler, save state format, CPU cores | all of the above |

### What is hard here

* **Partial failure.** A load or reset destroys the old machine before the new
  one is known to start; three records of "a game is loaded" must follow.
* **Sequences.** The guard that keeps a half-booted machine from being saved is
  armed by two paths, counted down by a third and cleared by a fourth.
* **Two threads.** The watchdog loads atomics one at a time while `retro_run`
  stores them, and is joined by `retro_deinit` at any point of its round.
* **Timers against a slow guest.** The CD-ROM controller answers through four
  status bytes that it overwrites without looking, from timers, port reads and
  the DMA callback; one buffer pointer is shared by the read timer, the DMA
  channel and software reads.
* **Several engines on one transfer.** The SCSI adapter, the DMA controller and the
  guest each count the same bytes; a request that finds the channel masked leaves
  no trace, and a reset comes with a byte under way.
* **State that outlives its owner.** The captured frame, `m_have_real_frame`, the
  watchdog's tick, a pending play timer, a half-written NVRAM file, forced buttons,
  the mouse's position and the bitmap across a restored state.
* **Drawing between draws.** The frontend has the screen drawn at any position of
  the beam, the screen device at its own moments, a palette write some lines ahead of
  the beam, and the guest changes the mode in the middle of a frame.
* **Boundaries.** The slice loop looks up only every 128 slices; the table of
  contents is driven by the parity of one counter; positions of 16 bits are reported
  as differences of 8; buffers are linear arrays with two line lengths.

`PROJECT.json` lists these hazards with the line where each bites and the
properties that would catch it.

### What makes each component correct

* Core: the records of a loaded game agree; saves only of settled machines;
  stale pictures end; `retro_run` returns; the contract of a frontend holds.
* Watchdog: lives exactly as long as the core; no stall is reported across a call of
  `retro_run`; every hang is reported; never blocks `retro_deinit`.
* Mounting: media in the slots the playlist means, or a failure for one of two
  reasons.
* CMOS seed: nothing on the disk is overwritten; a reported success is a whole
  copy; a game finds its own file again.
* Interrupts: a shared line is up while one source asks; no request is lost; the
  cascade announces none that the slave has not; the shared sound interrupt is served.
* Video: no page with a drawing to be done is on the screen.
* SCSI: an order moves its data whole and touches no other memory or sector; every
  order ends.
* Input: packets find their alignment again; no motion is lost or counted twice; no
  button stays pressed.
* Screen: what is shown is the present frame up to the beam, and below it nothing
  older than the frame before (palette writes draw ahead of the beam).
* Presentation: no write outside a buffer; a frame is the picture or its tight crop,
  with the size announced.
* CD-ROM: sectors whole and in order; no answer lost, torn or unannounced; every
  command ends.

## Modules

### `LibretroCore`, `LibretroContract`, `LibretroCoreProofs`

`LibretroCore` has one action per entry point; failing loads are alternatives of
`retro_load_game` and `retro_reset`. `retro_run` is `retro_run_enter`, then one
`run_slice` per slice of `advance_mame_frame`, then `run_render`; `retro_run_blank`
is the call without a game. The machine may draw, write its memory and advance its
clock in each slice. The constants `GuardBoot`, `GuardPostLoad`, `MaxSlicesBoot`,
`MaxSlicesLive` and `CheckPeriod` are the code's 180, 180, 64000, 24000 and 128,
small in the runs. The wall clock budget is a nondeterministic
expiry that the loop sees only at its checks. A machine is its boot number, model,
devices and one memory value; a picture is the boot that drew it. Three history
variables (`drawn`, `settled`, `restored`) record what the properties speak of.

`LibretroContract` is what a frontend may rely on: down, empty, settling, ready.
`LibretroCore` implements it with the mapping `Status`, `left <- guard`,
`saved <- slot`.

### `Watchdog`, `SessionProofs`

The frontend's thread and the watchdog's thread with the atomics between them;
each atomic load of the sample that matters is a step of its own (`load_tick`,
`load_frame`, `load_completed`, `load_stage`). Clock values are numbered by call,
since the code only compares them for equality. `retro_deinit` is two steps: the
stop flag, and the join that waits for the thread.

### `MediaMount`, `SessionProofs`

Reading a playlist line by line and mounting entry by entry, for every playlist of
up to `MaxLines` lines. A line is blank, a comment, a path by its extension, or a
path with a `#` further on, which the code cuts there. The reference is what the
playlist means, computed without the loop: which lines count (`Kept`, `Of`), the number
of a line among them (`Nth`), and the slots asked for (`Wanted`).
Which image options a model has (`Offers`) comes from the machine configurations;
MAME numbers the options of a device type only if a model has more than one, which
is why the Marty's only drive is `floppydisk` and a floppy image, sent to
`floppydisk1`, makes the start fail there.

### `CmosSeed`, `SessionProofs`

Each file system call of `copy_file_if_missing` is a step that may fail, and the
process may be killed between two of them. The user may add or remove `cmos.dat`
between sessions.

### `TownsCdrom`, `TownsCdromGuest`, `TownsCdromProofs`

`TownsCdrom` is the device: each handler is an operator from the controller's
record to the record it leaves, so nested calls are applications; the actions are
the port accesses and the timer expiries. BCD and MSF conversions are computed.
Sector data are pairs (sector, offset). The interrupt enable bits are stored and
never read by the code and are left out. `TownsCdromGuest` adds the guest, which
is external: it follows the port description in `T`, polls, and may take any time
between two accesses. It may leave a software transfer in the middle of a sector and
turn to another command (`Abandon`). Assumed of it: it reads the first answer of a
seek, due after 1 ms, before the second, due after 500 ms (`DelaySeek`); after a play
that gives no answer it keeps off the ports for a millisecond; and after a transfer it
left it reads by software, since the start of a DMA transfer is ignored while the old
one is under way.

### `Pic8259`, `TownsIrq`, `TownsIrqProofs`

`Pic8259` is the controller as operators from record to record; registers are sets
of request numbers. `TownsIrq` has two of them, the driver's port handlers and
device callbacks, and a guest that serves one interrupt at a time (external).
Devices act at any moment. A timer with no delay fires before the CPU's next
instruction, so the guest acts when neither controller has one pending
(`Settled`). The sprite engine belongs to the vertical sync's handler, which flips
its two pages: the module has its registers, its timer and the page on the screen,
and a program that changes the pages only when the status port says nothing is
being drawn. Both trigger modes and the special fully nested mode are checked.

### `Upd71071`, `FmScsi`, `TownsScsi`, `TownsScsiProofs`

`Upd71071` is the DMA controller with its four channels as operators on its record:
register writes, `dmarq`, soft reset, and the counting of `dma_transfer_timer` with
terminal count, automatic initialisation and addresses that count down. Counts and
addresses wrap at `CountModulus` and `AddressModulus` (2^16 and 2^24 in the code).
`FmScsi` is the adapter with its drives; a handler is an operator from the record of
adapter, controller and drives to the record it leaves, because a read of the data
port reads a sector, withdraws a DMA request and arms a timer in one call.
`TownsScsi` composes them with a guest that does what the phase lines say whenever
REQ is high, by program or by DMA in pieces of its own choice. At any moment it may
reset the bus or disable the DMA controller for a while, and it may give a command up by
ATN when it is asked for a byte of it. Drives are told apart by ID, and one without an
image answers with an error. Assumed of the guest:

* After a reset, an ended command or power on it lets a millisecond pass and reads away
  the phase it then finds, because `device_reset` leaves STATUS as the phase to come and
  the ID that selects a drive is ignored there.
* It raises ATN in no phase but COMMAND. In a data phase `set_output_line`
  (`fm_scsi.cpp`, 375-379) starts the way to MESSAGE OUT and leaves the transfer timer
  running, which only `stop_transfer` ends; REQ then goes on rising in phases that have
  nothing to do with the transfer. `FmScsi` translates the handler for every phase, but
  nothing is claimed of a guest that does this, `OrderEnds` least of all.
* Its commands are of the groups 0, 1, 2 and 5. For the others `get_scsi_cmd_len` ends in
  a `fatalerror` (line 115), which is not modelled; `Decode` starts from a command whose
  length is known.

### `TownsInput`, `TownsInputProofs`

The part of `retro_run` that reads the frontend's devices, the session's setters, the
mouse device and the pad ports, with the widths of the code. The guest begins a packet
with the strobe low and after more than 3 ms of quiet, as a program does that reads
the mouse once per vertical blanking; it may be interrupted within a packet for any
time, or give it up. States are saved and restored, which brings back the mouse device
and the guest but not the session's position, and the content is restarted. The
history variables `pos` and `base` are the player's hand, without wrap-around, now and
when the mouse took it over.

### `ScreenUpdate`, `ScreenUpdateProofs`

The partial updates of the screen device. A pixel is its age in frames, so that the
properties can say which frame is shown. `update_now` draws the rest of a line, whole
lines and the beginning of a line, as the code does; `configure` is the driver's mode
change; `load_state` brings back the line drawn last but not the pixel in it, which
the code does not save. Time is counted in `Ticks` to a frame.

The driver draws in mid-frame itself: `towns_update_palette`, at each write to a palette
register outside the blank (`vblank`, the first `VblankTicks` of a frame), has the lines
down to `Ahead` (4) below the beam drawn. It forgets the pixel in the line drawn last,
and near the bottom leaves a line remembered that is beyond the screen's last, which is
why `TypeOK` bounds it by the height plus `Ahead`. So a picture may be ahead of the beam,
and `ShownUpToBeam` says only how far it has come at least. Both properties are about
`Shown`, what `render_mame_frame` would show now, so that they also say something when
there is nothing left to draw.

`update_partial` and `update_now` first return when the time is before
`m_last_partial_reset` (`screen.cpp`, 1175 and 1299). That check is left out because it
does not come about here: the CPU is the only one and runs up to the next timer, so the
frontend and the blanking never look earlier than it did, and a CPU that lags behind a
blanking by less than a cycle finds `vblank()` true and does not draw.

### `FramePresent`, `FramePresentProofs`

From the screen's bitmap to what the video callback reads. Both buffers are functions
on linear offsets, since the hazard is that the frame buffer's lines are `k_width` long
and the crop's as long as it is wide. `copy_video_frame` copies the captured picture,
or scales the screen's when it does not fit. `detect_active_rect` is translated as
the four scans for the first and last line and column with a lit pixel; `CropIsTight`
and `ShownIsPicture` describe the result without them. The frontend may refuse a geometry.

## Runs

| Run | Checks | Bounds and why they suffice |
|---|---|---|
| `core` | `RuntimeAgrees`, `StalePictureEnds`, `LoopStopsInTime`, `SavesAreSettled`, refinement of the contract, `GuardExpires` | two models, two memory values, two boots (an old and a new machine), windows 2 and 1 (different, so that a swap shows), 5 and 3 slices with a check every 2 (a check falls inside and the limit between checks) |
| `watchdog` | `ThreadLifetime`, `NoFalseStall`, `AliveIsRecent`, `JoinEnds`, `HangIsReported` | 2 sleeps per round, 3 runs (before, during and after a sample), 2 lifetimes of the thread |
| `media` | `MountsInOrder` (with the types), which also says when a start fails | all lists of up to 5 lines over one extension of each kind: more than the four slots of a kind and than the two drives of a desktop |
| `cmos` | `OwnCopyIsWhole`, `FileIsFound`, `NeverOverwritten` | two games, two models, three sessions: tear, retry, another game |
| `cdrom` | `DeliversInOrder`, `TransferInBounds` (with the types), `InterruptAnnounces`, `TocIsComplete`, `AnswerIsHeld`, `JobEnds` | sectors of 3 bytes (first, middle, last), a disc of two tracks, any three commands of the list, so that any command follows any two others |
| `irq` | `LinesAgree` (with the types), `NoneLost`, `NoSpurious`, `ShownIsWhole`, `SoundServed` | any three device events or register writes: two sources of a shared line and a third that preempts or masks; a keyboard that is enabled and has two codes to send |
| `scsi` | `OrderIsDone`, `MemoryIsSafe` (with the types), `OnlyOrderedWrites`, `OrderEnds` | sectors of 2 bytes and up to 2 of them (the buffer is refilled and flushed once in between), commands of 2 bytes, any two of twelve orders with one fault at any moment (an attention: when a byte of a command is asked for); 8 counts and 6 addresses, so that both directions and terminal count wrap |
| `input` | `Aligned`, `CursorFollows`, `ButtonsFollow`, `Reported` | two frames of motion that wrap a position and, together, do not fit into eight bits; two faults, so that a save and its restore, or an interruption and another, happen; all three routing modes |
| `screen` | `ShownUpToBeam`, `NothingOlder` (with the types) | sizes 2x2, 2x3 and 3x2, 12 ticks to a frame (a whole number to a pixel of each), of which 2 are the blank, palette writes at all others that draw one line ahead (so that they stop inside the screen, at its end and beyond it), two mode changes or restores, the frontend looking at any tick |
| `frame` | `TypeOK`, `ShownIsPicture`, `CropIsTight`, `GeometryFollows` | buffers of 5x4 with pictures that are smaller, as large, wider, higher and dark, with their light in the middle, at an edge or apart, in any order without bound |

The type invariants of `LibretroCore`, `Watchdog`, `CmosSeed` and `TownsInput` are proved and
not run.

Two runs end in a violation and show where the code departs from what the repository
says of it (`findings` in `PROJECT.json` has the quotes):

| Run | What it shows |
|---|---|
| `core_nvram` | battery backed memory is lost at unload: nothing on that path calls `nvram_save` |
| `core_restart` | a reset after an option change keeps the old model but takes the new RAM size and pads |

More departures are in the models. The properties checked follow the code, or are worded
so that they do not claim the opposite, or the guest is assumed to keep clear of them.
Where a text of the repository says otherwise:

* **Several floppies.** `docs/CD_FLOPPY_PROBLEM_SOLUTION.md` (237-242) gives a playlist of
  three floppies as a use case. The code asks for `floppydisk3` for the last one (B:683),
  which the desktop models, with two drives, do not have: MAME refuses the option and
  the content does not start. `MountsInOrder` says so, and run `media` has the case.
* **Kinds of images.** `README.md` lists `bin` with the CD formats (106) and `hdm` with the
  hard disks (108); `kind_for_extension` takes both for floppies (B:666), and so does
  `MediaMount`.
* **The CD-ROM's IRQ bit.** The description of port 4c0 says that the flags are set only
  if the IRQ bit of the command is *not* set (T:1065) and are reset when read (T:1059).
  In the code a flag is set whatever the bit is, the line is raised when the bit *is* set
  (T:1099, T:1121), and a flag goes when the guest writes to the port (T:1656).
  `InterruptAnnounces` follows the code; the mutant that breaks it is what the
  description claims.
* **Pads in hybrid mode.** A comment in `retro_run` (L:1034-1036) says that pads are sent
  to MAME only when the input mode is dedicated to RetroPad. `joypad_input_enabled`
  (O:119) is true in the hybrid mode as well, and the pads are sent; `ButtonsFollow`
  follows the code.

And where none does, but a reader may expect something else:

* The table of contents goes on to a track after the last one it names (T:1573).
* A seed copy that failed or was killed is taken for the seed by the next session, whose
  `copy_file_if_missing` finds a file (B:719).
* Of several keys that change within one poll of 10 ms only the last one's code is sent
  (T:712).
* A stop within the millisecond after a play that gives no answer does not keep the music
  from starting (T:1347).

Deadlock checking is off where the system may stop: the watchdog run (all calls
made), `media` (the start is over), `cdrom` and `scsi` (all commands sent) and `irq`
(all events done).

### Fairness

* `core`: `run_slice` and `run_render` are weakly fair, being straight-line code
  inside one call; `retro_run_enter` is weakly fair, since a frontend with a game
  calls it every frame. `GuardExpires` rests on both: no call may hang in its loop.
* `watchdog`: the thread's steps and the return of the join are weakly fair (the
  operating system schedules both). Nothing is assumed of `retro_run`, which may
  hang.
* `irq`: the controllers' timers fire, and the guest takes and serves what is
  announced. `SoundServed` is conditional on the request not being masked for good
  and on edge triggering: level triggered, a line that a device never lowers (a
  second timer's, the serial port's) is served forever and starves the others.
* `cdrom`, `scsi`: armed timers expire, and the guest goes on with a job it began;
  for `scsi` also, a guest that disabled the DMA controller enables it again.
* `input`: emulated time passes and the guest reads the mouse again and again. The
  faults are bounded, so `Reported` is about a hand and a guest left in peace.

## Proofs

Eight modules hold theorems. Each is about the specification of the module it is named
after, for every value of the constants that its assumptions allow, so the bounds of
the runs do not limit it. `SessionProofs` is about three small modules, `MediaMount`,
`CmosSeed` and `Watchdog`, and extends them all; for its sake their specifications have
names of their own (`Spec`, `SeedSpec`, `WatchdogSpec`).

| Module | Theorem | States |
|---|---|---|
| `LibretroCoreProofs` | `TypeCorrect`, `RuntimeAlwaysAgrees`, `GuardAlwaysCovers`, `StalePictureAlwaysEnds` | `[]TypeOK`, `[]RuntimeAgrees`, `[]GuardCoversWindow`, `[]StalePictureEnds` |
| | `SavesAlwaysSettled` | `SavesAreSettled`, an action property |
| | `LoopAlwaysStops` | `[]LoopStopsInTime` |
| | `CoreImplementsContract` | the refinement `ImplementsContract` |
| `SessionProofs` | `MountingIsConsistent`, `MediaAlwaysInOrder` | `[]IInv`, `[]MountsInOrder` of `MediaMount` |
| | `SeedTypeCorrect`, `OwnCopyAlwaysWhole`, `FileAlwaysFound` | `[]SeedTypeOK`, `[]OwnCopyIsWhole`, `[]FileIsFound` of `CmosSeed` |
| | `NothingOverwritten` | `NeverOverwritten` of `CmosSeed`, an action property |
| | `GuardTypeCorrect`, `ThreadNeverOutlives`, `StallsAreTrue`, `AliveAlwaysRecent` | `[]WatchdogTypeOK`, `[]ThreadLifetime`, `[]NoFalseStall`, `[]AliveIsRecent` of `Watchdog` |
| `TownsInputProofs` | `TypeCorrect`, `PacketsAligned`, `CursorExact`, `ButtonsExact` | `[]TypeOK`, `[]Aligned`, `[]CursorFollows`, `[]ButtonsFollow` |
| `ScreenUpdateProofs` | `ScreenIsConsistent` | `[]IInv`, what is remembered as drawn is of this frame |
| | `PictureIsUpToBeam`, `PictureIsFresh` | `[]ShownUpToBeam`, `[]NothingOlder` |
| `FramePresentProofs` | `TypeCorrect` | `[]TypeOK`: no access outside a buffer |
| | `ShownAlwaysPicture`, `CropAlwaysTight`, `GeometryAlwaysFollows` | the action properties `ShownIsPicture`, `CropIsTight`, `GeometryFollows` |
| `TownsIrqProofs` | `LinesAlwaysAgree`, `NeverLost`, `NeverSpurious`, `ShownAlwaysWhole` | `[]LinesAgree`, `[]NoneLost`, `[]NoSpurious`, `[]ShownIsWhole` |
| `TownsCdromProofs` | `AlwaysCore` | `[]Core`, that guest and controller are in step |
| | `TransfersStayInBounds`, `InterruptAlwaysAnnounces` | `[]TransferInBounds`, `[]InterruptAnnounces` |
| | `ReadsDeliverInOrder`, `TocAlwaysComplete` | `[]DeliversInOrder`, `[]TocIsComplete` |
| | `AnswerAlwaysHeld` | `AnswerIsHeld`, an action property |
| `TownsScsiProofs` | `AlwaysInStep` | `[]IInv`, that guest, adapter, channel and drive are in step |
| | `MemoryAlwaysSafe`, `OrderAlwaysDone` | `[]MemoryIsSafe`, `[]OrderIsDone` |
| | `WritesAlwaysOrdered` | `OnlyOrderedWrites`, an action property |

Assumptions are the named `ASSUME`s of the modules: null values are not machines or
states, the default options are options, windows, limits, periods and buffer sizes are
positive, pictures are functions on their pixels, motions are integers; a disc has at
most 99 tracks and less than 100 minutes, so that its times have two BCD digits each, a
sector fits a DMA count, and a job of the CD-ROM's guest asks for sectors of the disc and
plays no empty range. An order to a SCSI drive names one of the IDs 0 to 4 the adapter
knows, reads or writes at least one sector and only sectors of the image, fits the
guest's memory and one DMA count, and uses DMA only to read or write (`GuestAssumption`);
a sector has at least two bytes (`ScsiAssumption`; 512 in the code) and the moduli are
positive (`ModulusAssumption`). A mode has lines, columns and no more pixels than the frame
has ticks (`ScreenAssumption`), and what rounding leaves over of a line is less than a
pixel (`BeamAssumption`; a frame has some 10^16 attoseconds). `NoSlot`, the code's
`nullptr`, is no option of a model (`OffersAssumption`).

**`LibretroCore`.** The inductive invariant is `TypeInv`: `TypeOK`, `RuntimeAgrees` and
`LoadedKnowsContent` (a loaded runtime knows its model and content). `TypeOK` alone
is not inductive, because a reset builds a machine from the runtime's model and
content, which are well typed only if loaded implies that they were set; and
`RuntimeAgrees` is needed because slices and saves act on a machine only because
the flags say there is one. On top of it `GuardCoversWindow` is inductive, and the
action property about saves follows from it at `guard = 0`. The stale picture
needs `CaptureIsOwn`: once the current machine has drawn, the capture buffer is its
own. `LoopStopsInTime` becomes inductive with a second bound (`LoopInv`): inside the loop
the slices run since the frame was due are at most the slice counter's remainder by
the check period. The refinement maps each action to a contract step or a stutter.

**`Watchdog`.** `ThreadLifetime` needs `Flags` (the thread is asked to stop only by the
caller that joins it). What a log line claims rests on `RunTicks`, which orders the tick
of the last sample, the present tick and the calls between them at every point of
the thread's round, and on `FramesCounted`, without which a sample taken half before
and half after a frame could look like a stall.

**`CmosSeed`.** `Progress` ties the step that `copy_file_if_missing` is at to what is on
the disk, `Underway` says which session it belongs to, and `HasDirectory` that a file
lies in a directory that was made, which is what `preferred_nvram_directory` looks for.

**`MediaMount`.** The loop of the code counts; the reference asks for cardinalities of sets of
lines. `Nth`, the number of a line among those of a set, ties them: lemmas say that it
grows by one at a line of the set, stays elsewhere, and tells two lines of the set apart.
While the playlist is read the entries are the lines kept so far, each at its number
(`ReadTo`); while it is mounted some line `r` is the last one dealt with, and counters and
media are what the lines up to `r` ask for (`MountedTo`). The step to the next entry skips
lines that were not kept, which is why no counter moves between two entries. No entry
displaces another because a slot names its kind and place (`SlotOf`). The induction is the
one over steps; none over the list is needed.

**`ScreenUpdate`.** `Holds` says that all above the line and pixel remembered was drawn in
this frame, and captured if there is any; `Fresh` that the capture is the bitmap and
nothing in it is older than the frame before. `IInv` is `Holds` once a frame has begun in
the mode, and `Fresh` one frame later. A lemma for each drawing operator says what it
draws, leaves and captures; `NowFields` puts together the rest of a line, the lines above
and the line of the beam. A palette write keeps `Holds` because it begins at the line
remembered and forgets the pixel in it only when it draws that line whole; `Fresh` it
keeps because it only draws. `Fresh` of the next frame rests on `Holds` of this one:
`finish_screen_updates` has nothing left to draw but what is below the line remembered.
A change of mode with the same size keeps both, also when it starts the updates again.
That the pixel of the beam is a pixel of the mode, or one past its last
(`Beam`), is arithmetic of two divisions that round down.

**`TownsInput`.** `Steps` says that guest and mouse are at the same nibble of the same
packet unless it was interrupted; `Account` that what the guest has read and will read
makes its cursor the position the mouse took over, modulo 65536 for the registers and
exactly for the cursor; `True` that the session's position is the hand's modulo 65536.
`GoodSaves` says the same of a saved state, because a restore puts it in force.

**`FramePresent`.** `TypeOK` and `Announced` (the size remembered is the frontend's, unless
it refused it) are inductive. The work is in the lemmas about one frame: an offset is
split into line and column, the copy and the packed crop stay inside the buffers,
and the first and last lit lines and columns exist, being least and greatest elements
of sets of naturals with a bound (`WellFoundedInduction`). From the edges follow that the
crop holds all that is lit and that it is tight.

**`TownsIrq`.** Of a controller the invariant (`PicOK`) says that the level it chose is one of
its requests, unless its timer is about to choose again. `DevInv` adds what each device
says of its line, that request 7 of the master follows the slave's output
(`CascadeLine`), and of the sprite pages that only the one about to be drawn may lack its
drawing (`Pages`). `Latched` is `NoneLost` line by line. Each operator of `Pic8259` has a lemma
on what it keeps of requests and lines, and each port handler one on the lines it moves,
so that the proof about the driver never opens the controller.

**The CD-ROM controller.** `Core` says how guest and device are in step: when an answer is
outstanding and how far it is read (`Step`), which answer of which command it is
(`Script`, `Refused`, `ReadScript`), what the transfer of a sector may be doing at each
point of the guest's program (`Transfers`), that what was read of an answer is what the
status bytes still say (`Fetched`), that the parameters are the job's (`Asked`) and that a
play waits for its delay alone (`Delayed`). `TransferInBounds`, `InterruptAnnounces` and
`AnswerIsHeld` follow. `Delivers` adds how many bytes the guest has, from the sector under
way and the pointer in it; the products of sectors and bytes are kept opaque behind two
lemmas. `Told` adds which answer of a table of contents is in the status bytes, as a
function of how many were read, so that a point of the table and what belongs to it
(first and last track, lead-out, each track) are two answers in a row; that the BCD and
MSF conversions can be inverted is a lemma of arithmetic.

**The SCSI adapter.** Three parties count the same bytes: the adapter by `m_result_index`, the
drive by its block address and count, the DMA channel by its count and address; none
of them knows of the others, and a pause or a reset may fall between any two of their
steps. `IInv` says that they agree. `Bus` tells which phase is on the bus, or to
come, at each point of the guest's program; `Command` that the bytes spoken are the
order's and, once all are, that the drive holds the order; `Channel` that what the guest
gave away is the adapter's index plus what the channel has left (its count plus one,
until terminal count), at the address of the next byte; `Drive` that the drive stands at the
sector of the index and that the buffer is that sector, or the bytes of it so far;
`Memory` and `Written` what has reached memory and image; `Verdict` what status may have been
read. None is inductive alone: a byte arrives in its place (`Memory`) only because the
buffer is the right sector (`Drive`) and the channel at the right address (`Channel`), which
holds only for the command the drive took (`Command`) in a data phase (`Bus`). The proof is in
two layers. A handler is a nested update of one record, so a lemma for each handler says
what every field becomes; a lemma for each action of the guest, timer or channel then
shows that the parts are kept. Places in a sector (division and remainder by
`SectorBytes`) have lemmas of their own, so that no step multiplies variables.

Only model-checked: liveness (`GuardExpires`, `JoinEnds`, `HangIsReported`, `JobEnds`,
`SoundServed`, `OrderEnds`, `Reported`), since the prover handles neither fairness nor
ENABLED. Every other property of the runs that are to pass is a theorem; the two runs that
end in a violation are counterexamples and stay with TLC.

## Not modelled

Rendering, the CRTC's computation of its modes and the colours of the palette: large
pure functions of registers and memory, with no state of their own that the models would
tell apart. (That a palette write draws is in `ScreenUpdate`.) Audio output converts
samples in floating point and keeps no state that is used; `push_silence`, which would, is not reached. The real time clock's glue passes
lines to a MAME device, and the memory card's is a bank register. An exception thrown
by the machine during a slice is not modelled: what MAME throws at run time is not
visible in this code; it would leave `retro_run` through the C interface (L:655).

By far most of the repository's lines, some 480 thousand, are upstream MAME: CPU
cores, debugger, user interface, renderer, layout files, sound and disk formats. They
are instruction tables, formatting and arithmetic rather than protocols, most of
them are not reached by this driver, and a faithful module for one would be a copy of
it. The modules follow what the libretro layer and the FM Towns driver call: of MAME's
own code, the interrupt and DMA controllers, the SCSI adapter and drives, the mouse,
the CD-DA player and the screen device. The map therefore covers a small
share of all lines, and most of the libretro layer and of the driver's state changes.

Within the modelled parts: `m_have_real_frame` survives an unload, so a new machine
starts with the shorter limits of a running one; it is modelled, and no property depends
on it. The serial interrupt is modelled as it is in the code, where
a falling signal clears the enable bit and leaves the line; nothing in the repository
says what it should do. A second initialisation of an interrupt controller, which
drops latched requests while the lines stay up, is left out, and so are rotating
priorities. A guest that clears the CD-ROM's DMA flag while an answer is on its way can
lose that answer's interrupt; the guest modelled polls. Of the screen device, variable
widths, vector screens, throttling and the check of `m_last_partial_reset` are left out.
An attention in another phase than COMMAND and SCSI commands of unknown groups are
assumed not to occur (see `TownsScsi`).

## Plan

Done, in order: `LibretroCore` with `LibretroContract` and proofs; `Watchdog`;
`MediaMount`; `TownsCdrom` with `TownsCdromGuest`; `CmosSeed`; `Pic8259` and `TownsIrq`;
`Upd71071`, `FmScsi` and `TownsScsi`; `TownsInput`; `ScreenUpdate`; `FramePresent`; proofs
about `Watchdog`, `CmosSeed`, `TownsInput`, `FramePresent`, the slice loop, `TownsIrq`, the
CD-ROM controller, the SCSI adapter, `MediaMount` and `ScreenUpdate`.

All that was planned is modelled, and every property that is not about liveness is proved.
What would come next are components of their own: the floppy controller behind its
glue, and the key codes that `TownsIrq` receives.
