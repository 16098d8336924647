# Verification of Beetle NeoPop (Neo Geo Pocket core and Dreamcast port)

TLA+ models of this repository's own logic, TLC runs over small instances of
them, and TLAPS proofs of what matters most. Paths below are relative to `src/`.

1. The system · 2. Modules · 3. Runs, bounds, fairness · 4. Findings and known
limits · 5. Proofs · 6. What is not modelled

## 1. The system

Beetle NeoPop emulates the Neo Geo Pocket: a TLCS-900H main processor, a Z80 for
sound, a scanline video chip, a T6W28 sound chip, four 8-bit timers, four
micro-DMA channels, a replaced ("HLE") BIOS, and cartridges whose flash doubles
as save memory. It is a libretro core (`libretro.c`); this repository adds a
Dreamcast launcher (`dreamcast/`) and a RetroArch overlay that shares the
launcher's backends.

The core is sequential. `retro_run()` calls `Emulate()`, which repeats: one
instruction of the main processor, `updateTimers()` with its length, then Z80
instructions for as long as the Z80 is behind. Everything that looks concurrent -
devices, two processors, interrupts, nested handlers - is interleaved inside that
loop, and its hazards are those of ordering: what one step leaves behind for the
next. Around the core, a DMA channel of the PowerVR, the sound callback, the power
switch and the player's hands really are concurrent.

| Component | State | Operations | Talks to |
|---|---|---|---|
| Interrupt controller (`mednafen/ngp/interrupt.c`) | `ipending`, `IntPrio`, start vectors | `set_interrupt`, `int_check_pending`, `int_write8`, `TestIntHDMA` | mask of the processor (`statusIFF`), DMA, timers, video, BIOS |
| Micro-DMA (`dma.c`) | source, target, count, mode per channel | `DMA_update`, `dmaStore*` | raises its end interrupt, clears its start vector |
| Main processor (`TLCS-900h/`) | registers in four banks, `sr`, `pc` | every instruction; some change the mask | memory map, controller |
| HLE BIOS (`biosHLE.c`) | `CacheIntPrio` | one call per vector | controller, flash, serial |
| Scanline clock (`interrupt.c`, `gfx.c`) | `timer_hint`, `raster_line`, `SCREEN_PERIOD`, `BLNK` | `ngpgfx_hint`, `ngpgfx_draw` | frame loop, timer 0, interrupt 5 |
| Drawing (`gfx.c`) | registers, their delayed copy, video memory, surface | `ngpgfx_draw`, `ngpgfx_delayed_settings`, writes | scanline clock |
| Timers (`interrupt.c`) | `timer`, `timer_clock`, `timer_threshold`, `TRUN`, modes, `h_int` | `updateTimers`, `timer_write8` | controller, Z80 |
| Flash (`flash.c`, `system.c`, `rom.c`, part of `mem.c`) | block list, ROM image, command and status flags | `flash_write`, `flash_commit`, `flash_read`, state section | BIOS, launcher, file system |
| Save states (`state.c`, `libretro.c`) | a stream of named chunks | `retro_serialize*` | every component |
| Z80 (`z80-fuse/`, `Z80_interface.c`) | registers, `CommByte`, enable, line of timer 3 | `Z80_RunOP`, `Z80_irq`, `Z80_nmi` | interrupt 6, sound chip |
| Sound (`T6W28_Apu.cpp`, `sound.cpp`) | oscillators, latches, time | register writes, `Flush`, save states | sample buffers |
| Launcher (`dreamcast/main.c`, `dc_input.c`, `menu.c`) | previous buttons, menus | hotkeys, frame loop | core, saves, audio, memory units |
| Sound backend (`dreamcast/dc_audio.c`) | sample ring | write, poll, callback, pause | KallistiOS stream |
| Video backend (`dreamcast/dc_pvr.c`) | two staging buffers and textures, DMA in flight | present | PowerVR |
| Save files (`dc_saves.c`, `dc_vmu.c`) | `.state`, `.flash`, copies on memory units | atomic write, load, mirror | file system |

What is hard here: one latch served per check; handlers nested under levels that
software rewrites; priority registers that cannot be read back; requests that a
DMA channel takes instead; prescaler remainders; a frame loop whose end depends on
a register programs write; registers drawn from a delayed copy; oscillators that
run only when written; two processors that exchange bytes without a lock; a block
list that has to keep up with a ROM changed along four paths; files emptied or
removed before they are written; a state whose reader finds its way by sizes
alone; a ring shared with a callback; buttons arriving in any order.
`PROJECT.json` lists these hazards at their lines with the properties that cover
them, and says why for the one no property covers.

What makes each component correct, in a line: interrupts are neither lost nor
taken out of turn; timers keep time; frames end and show the frontmost pixels of
what was written; the chip sounds as if it ran all the time; interrupted programs
compute what uninterrupted ones do; what was saved comes back; sound comes out in
order; the newest frame reaches the screen; a press acts once.

## 2. Modules

### The console

`Interrupts` - the controller, DMA channels, mask and exception frames as one
record `ic`, and the BIOS's `cache`. Operators named after the C functions
(`CheckPending`, `SetInterrupt`, `TestIntHDMA`, `DMAUpdate`, `Enter`) map one
controller value to the next; actions apply them: `UpdateTimers(R)` raises the
requests `R` of one tick in the code's order, `ExternalRequest` is the Z80 or the
serial calls, `SetMask`, `ChangeBank`, `ReturnFromInterrupt`, `SoftwareInterrupt`
are the instructions that reach the controller, `WritePriority`, `IntLvSet`,
`WriteVector`, `LoadCount` the register writes, `Reset` is `neopop_reset()`.
`frames` stands for what `interrupt()` pushed: it replaces the processor's stack,
whose other contents are not modelled. Conventions of programs that appear as
guards: a start vector is written after its count, a count of 0 is not loaded into
an armed channel, and (with `HandlersMayEI` FALSE) handlers do not lower their
mask.

`Raster` - the first half of `updateTimers()`, `ngpgfx_hint()`, `ngpgfx_draw()`
and the loop of `Emulate()`. `EndOfLine` is one whole end-of-scanline branch;
`copies` counts how often delayed settings were taken in a field (history).
Programs may write any value of `Periods` to the field length on any line: shorter
than the screen, behind the line being drawn, or the last of a byte, which the
counter never meets. `astray` (history) says that the counter ran past a missed
end, came round by itself, and no field has ended since.

`Drawing` extends `Raster` with what a line shows: both scanline composers of
`gfx.c`, in their different ways of finding the columns of a tile
(`drawColourPattern`, `drawMonoPattern`), scroll planes, sprites with their
chains, the window, the depth buffer, and the copy of the registers the lines are
drawn from. A colour is the place of the palette it is taken from. `Shown` is the
reference: it tells a pixel for each column from coordinates, without tiles being
drawn in order; `calm` (history) counts the
frames completed since the last write, up to two. In the mono mode the right border
is put down from the window's left edge on (`BorderEnd`); `Ground` has the columns
that it does not reach as "unwritten".

`Timers` - the second half of `updateTimers()` and `timer_write8()`, one
`Tick(t, ..)` per instruction of `t` ticks. Timers 0 and 1 share nothing with 2
and 3 but the instruction length, so a behaviour follows one pair (`Timers`,
chosen in `Init`). A reset leaves what `reset_memory()` writes over the cleared
registers. `age` (history) is the exact time since a timer's period began.

`ToneGenerator` and `SoundChip` - the first is a chip whose oscillators run at
every clock, the second the code: nothing runs until a register is written or the
frame ends, then `RunSquare` and `RunNoise` catch up and list the changes of level
they add to the buffer. `SoundChip` implements `ToneGenerator` with its
oscillators caught up to the present (`Tones`). `Flush` and the start of the next
frame are one action. `MCPictureAndSound` runs `Drawing` and `SoundChip` side by
side; a behaviour runs one of them, chosen by `part`, since neither looks at the
other.

### The processors

`Bytes` - bit operations on bytes, and memories. `Z80Arithmetic`, `Z80` - the
macros of `z80_macros.h` and the five opcode tables of `z80-fuse` (`DoOpcode`),
with interrupts, NMI, HALT and the one instruction after EI. The code has the
instructions of HL four times over in generated files; the model has one operator
for each with a parameter for where it takes its operand.
`Tlcs900hArithmetic` (flags and conditions), `Tlcs900hRegisters` (banks, codes,
memory with the registers of the controller, the interrupts an instruction takes),
`Tlcs900hSingle`, `Tlcs900hReg`, `Tlcs900hSrc` (the handlers of
`TLCS900h_interpret_*.c`), `Tlcs900h` (fetching and dispatch of
`TLCS900h_threaded.c`; an instruction is one step, as in the code). `LongHigh`
stands for the upper half of a long word (65 536 in the chip).

`Processors` composes the two as `Emulate()` does, with the shared RAM, the byte
at 0xBC, the interrupt each way and the enable register. The main processor
executes on a memory that shows it what is shared (`Seen`); afterwards `Leaves`
gives the sound RAM back and `Delivered` hands its writes to the Z80. How much
time each gets is not modelled: any order of their instructions may come, and
requests between any two. `MCProcessors` holds the programs as machine code with
their assembler text: routines with loops, calls, banks, block moves, decimal
digits and stack frames for each processor under interrupts; single prefixed
instructions; comparisons at the ends of the ranges; a dialogue over the shared
byte with a stop and restart of the Z80.

### Saving

`FlashStore` - block list, ROM, command and status flags, the file, a save state
and sessions. Bytes are values, addresses a short range, pages one byte. A commit
is two steps (`CommitOpen` truncates, `CommitWrite` writes) so that a power cut
can fall between them; the rest of the code is sequential and atomic per call.
`saved`, `intact`, `forgot` and the save state's `rom`, `clean` are history:
`intact` and `clean` exempt images torn by a cut or disturbed by a status read,
`forgot` a ROM whose blocks a reload has dropped.

`StateFormat` - `state.c`: a state as a sequence of cells (name, number, byte),
written section by section and read one round of the loops at a time, by the same
or another build of the core, whole or cut off after any cell. `Restart` exchanges
the build and cuts the file. After a cut inside a variable the code reads bytes of
the state as names and sizes, and adds such a size to its place modulo 2^32
(`smem_seek()`): it may go on further back or stay for ever. From `LoseWay` on the
model knows nothing of the place (mode "lost"): any variable of the section may be
read, whole, from wherever the state has one of its name and size
(`LostVariable`), in any order and any number of times, and the section may end or
not (`LostSection`). What is left out is that bytes of a variable spell
the name of a listed one. `retro_unserialize()` tests the result of
`MDFNSS_LoadSM()`, which is declared `void` (`mednafen/state.h:52`); loading is
modelled as succeeding. `MCSaves` runs `FlashStore` and `StateFormat` side by
side: to the first the ROM in a state is a value, the second knows one state and
no files, so a behaviour runs one of them. `LayoutsAssumption` says what the lists of
a build are like: names differ within a list, and the image is the last section, after
the one with its length.

`SaveFiles` - the files of one game: state, its temporary copy, battery file, the
copies on memory units. An operation of the launcher is a sequence of calls, each
of which may fail or be the last before a power cut (`Works`, `Fails`, `CutCard`,
`CutUnit`). What a game has saved is a version; a file is missing, empty, torn or
whole.

`Launcher` - `main.c` over `SaveFiles`: boot with restore and auto-load, hotkeys
and triggers with their memories, pause and settings menus reduced to what the
player can decide there, leaving, power cuts at any step and restarts.

### The backends

`AudioQueue` and `AudioRing` - the abstract FIFO, and the ring with its positions,
callback and blocking write, which is shown to implement it with
`queue <- Contents`. A blocking write is several steps (`WritePoll`, `WriteQueue`,
one round per millisecond slept) with the callback in between.

`PvrPresent` - one present of the PowerVR backend as the steps between which its
DMA channel can finish: `Present` (copy and compare) or `PresentDup`, `Upload`
(wait, then send), `Scene` (notice the end, draw). The channel is outside the
repository: `busy` says it is at work, `sent` which pictures its staging buffer has
held since, so that overwriting a buffer being sent leaves a torn texture.
`presented` and `before` (history) are the last two frames presented; `Reverts` says whether a
picture may return right after the one between.

A frame goes to both backends, but neither looks at the other: `MCBackends` runs
`AudioRing` and `PvrPresent` side by side, one of them in a behaviour.

The `MC*` modules give the constants of the instances. `*Proofs` modules hold the theorems
about the module they extend. Operators marked "Fault" are what the mutants of
`PROJECT.json` put in the place of the definition that follows them.

## 3. Runs, bounds, fairness

| Run | Question | Bounds |
|---|---|---|
| `Interrupts_bios` | nesting by level, cache = registers, no request of a tick lost | four sources over two registers, one channel, counts to 2, two frames, levels {0,5} plus reset levels 2 and 3 |
| `Interrupts_direct` | no deliverable latch left under main-line code, latches cleared by their own handler or register only | one register, levels {0,1,5}, masks {1,7} (1 counts as 0), handlers re-enable interrupts |
| `Raster` | frames end unless the field stays shorter than the screen, blank flag, settings once per line; lines show the frontmost pixels, the screen what was written; the chip keeps step with one that runs clock by clock, its changes of level fall on the right clocks | 4 visible lines of 5 columns in a world of 8 by 8, tiles of 2 by 2, three sprites, line counter mod 8, 3 ticks a line, periods 1, 3, 4, 6, 7 (shorter than the screen, as long, longer, never met), written on any line; two squares and the noise, tunes of register writes with mutes, saves and loads, frames to 6 ticks, steps to 3 |
| `Timers` | no drift | either pair; taps 3, 4, 5, 6, instructions of 1 or 2 ticks, counters mod 3, clock mod 9, thresholds 0, 1, 2, modes 0 to 2 and those of a reset |
| `Processors` | interrupted programs end as uninterrupted ones, prefixed instructions like plain ones, comparisons decide, the handshake delivers | programs of 10 to 50 bytes, two requests each, long words of 29 bits, every prefixed opcode at two displacements, 36 pairs of operands per size |
| `Processors_parity_doc` | (violation) the parity of a word | eight words |
| `FlashStore` | list covers ROM, commits persist, states restore the ROM, reloads restore the file; what two builds both know comes back from a state, nothing is half loaded, loads end unless the state was cut inside a variable | three one-byte pages, sector of two, BIOS writes of one or two, new bytes different from those sold, any order of writes, commits, reloads, states, cuts, sessions; two builds of four and five sections, two contents, images of up to two bytes, a cut at every cell |
| `FlashStore_length_doc` | (violation) what the core's comment says of persistence | the wrap of the length within reach |
| `Launcher` | states and batteries survive, a press acts once, leaving saves | two versions, one unit, two faults (power cuts, failing calls), nine sets of buttons, one with file work and leaving in one frame |
| `Launcher_load_doc` | (violation) a whole state loads | as `Launcher` |
| `Backends` | the newest frame is on its way or on display, a still picture gets there; the ring is a FIFO, writes return, frames are lost only after the wait, an underrun repeats the newest | four pictures, transfers of any length, no immediate return of a picture; ring of 3, writes to 3 frames, wait of 2, requests 2 and 4 |
| `PvrPresent_skip_doc` | (violation) only repeats are skipped | as `Backends`, pictures may return |

Why the bounds are enough: each is the smallest at which every branch of the code
is taken in combination with every other - two sources per register and two
registers, a nested frame, a channel that continues and one that ends; a counter
that wraps and one that stops below its threshold; tiles at both borders and at
the window, chained and flipped; fields shorter and longer than the screen; periods
of a tone shorter and longer than a catch-up; pages
that touch, overlap and stay apart; a section that is missing, one that is passed
over and one that is cut; a fault in an operation and another in its repair; a
ring that is empty, full and wrapped, a write longer than the ring. The values of
taps, lines, lengths and weights are scaled; the code depends on their order only.
`Timers` assumes `T1 <= T4 <= T16 <= T256` and `T256 + MaxTick < ClockMod`, as the
real rates do. What these instances leave open, the proofs of section 5 close for
the components they treat; the pixels of a line, the two processors (but for the
comparisons) and all liveness are checked at these bounds only.

`StateFormat` does not save again what a load has mixed of two states before the
game has gone on (named at `SaveSM`). `Covered` is checked below the limit of 256
blocks.

Fairness: `Raster` assumes that `Emulate()` goes on with its loop
(`WF_vars(Tick)`), `Processors` that it gives each processor its turn
(`WF_turn(Alternates)`), `AudioRing` that the thread inside `dc_audio_write()`
goes on, `Launcher` that the launcher goes on with what it has begun
(`WF_vars(Run \/ Leave \/ Close \/ Work)`), `StateFormat` that a load, a loop
without waiting, does while it knows its way (`WF_formatVars(Load)`; nothing is
assumed of one that is lost), `PvrPresent` that a DMA transfer ends
(`WF_pvrVars(TransferEnds)`); that the core goes on presenting is part of
`StillFrameShows` itself. Nothing is assumed of the sound chip's callback, the
host or the player. `FrameEnds` excludes two kinds of programs and no others: one
that resets the machine forever, since each reset starts the field over, and one
that again and again has a field shorter than the screen, since the counter then
need not pass the last visible line. `LoadEnds` is about states that are whole or
were cut between variables.

Every property of a passing run has a mutant in `PROJECT.json`: one mapped
definition changed as a plausible bug would, and the run then reports the property
violated.

## 4. Findings and known limits

Findings, each with a run that shows it:

1. A BIOS flash write of 256 pages or more is registered with its length modulo
   65536 and missing from the file (`FlashStore_length_doc`).
2. A frame is compared with the front buffer, not with the frame before: if A is on
   display, B is being sent and A is presented again, A is skipped and B stays on
   the screen, against "Dirty frame skip" in `dreamcast/HARDWARE_RENDERING.md`
   (`PvrPresent_skip_doc`). `Backends` shows, and `BackendsProofs` proves, that
   without such a return the newest frame does get there.
3. The parity flag of a 16-bit logic instruction is inverted
   (`Processors_parity_doc`).
4. A save state is refused when the game has written its flash for the first time,
   or more of it, since: its size is compared with that of a state taken now
   (`Launcher_load_doc`).

Behaviour that the models reproduce as it is, found by reading, with no run of its
own since nothing in the repository says otherwise:

* Main processor: the overflow flag of `GenericSBC*` is that of SUB; `regMULA`
  computes and does not store; `regBS1F`/`regBS1B` look at 15 bits; `srcRL`/`srcRR`
  keep H and N; a D7-prefixed `MUL rr,#` multiplies into the stack pointer;
  decrementing modes 3 address with a stale register; HALT does not wait; the
  dividing of the least word by -1 is undefined; an interrupt taken inside an
  instruction that stores to 0x70-0x7A sees its flags before it sets them, and
  RETI restores those; SWI 3 to 6 latch requests that nothing delivers;
  `regDAA` uses a macro with braces before `else` (lines 310-311), which does not
  compile as it stands and is read as meant.
* Z80: the line of timer 3 is neither in the save state nor cleared by a stop; an
  NMI is delivered to a Z80 that is off.
* Scanline clock: a field length behind the line, or 0xFF, lets the lines run on to
  255 and begin anew with the blank flag set, until a field ends again
  (`gfx.c:716`); a length below the screen keeps `Emulate()` from returning
  (`libretro.c:126`).
* Drawing: in the mono mode the border right of the window is counted from its right
  edge and put down from its left one (`gfx.c:446-459`). The background then covers
  part of it, and as many columns at the right edge of the screen are not written
  and show whatever the line buffer held ("unwritten" in the model). A vertical chain past
  256 loses the rows of a sprite that would wrap; the last visible line is drawn
  with the settings of the line before.
* Sound: a reset or a load leaves a step in the buffer, which the bass filter
  removes; `neopop_reset()` does not reset the chip; half a clock is dropped per
  odd frame; a muted noise stands still and loses its delay.
* Timers: timer 2 halves its first tap (`interrupt.c:406`), prescalers run while a
  timer is stopped (`:291`), `h_int` is kept until timer 0 counts it (`:304`).
* Flash: "reload battery" overlays the file on the running ROM, and bytes without a
  block in it are forgotten as written (`forgot`); beyond 256 blocks
  (`flash.c:212`) a page is silently left out; a state without an image leaves ROM
  and list as they are (`system.c:79`).
* Save states: loading one that was cut off inside a variable may not end: a size
  read from the bytes of the variable can send the reader back to the same place,
  in the list of variables (`state.c:344-394`) or the search for a section
  (`state.c:412-431`), by way of the sum in `smem_seek()` (`state.c:162`).
* Save files: `StateSurvives` and `BackupSurvives` list the ways in which a save is
  lost: a save begun after a cut between `remove()` and `rename()` opens the only
  copy for writing; a failing `rename()` removes both; bytes lost in `fclose()` are
  not noticed (`dc_saves.c:49`); a commit empties the only file; a torn file is
  mirrored over the last good unit copy (`dc_vmu.c:415`). An empty battery file
  also keeps the copy of a unit from being restored (`dc_vmu.c:446`).
* Launcher: Start + A, B, X or Y opens the pause menu if Start goes down in a frame
  of its own (`main.c:415`; the table in `BUILDING.md:124-132` does not say so);
  after a menu, buttons still held act again; "Battery saved" is shown if a file
  exists (`main.c:308`); the unit setting of the main menu reaches `dc_vmu.c` only
  after the settings of a game were opened (`main.c:74`, `:447`).
* Sound backend: an odd request of the stream would take a frame that it does not
  hand over; requests are even in the model, as the driver's are.

## 5. Proofs

Eight modules hold theorems; TLAPS checks them for all values of the constants that
satisfy the named assumptions.

`InterruptsProofs` (from `SourcesAssumption`, `BoundsAssumption`): `TypeCorrect`,
`MainlineIsServed`, `PreemptionIsByPriority`, `ArmedChannelsCount`, `CacheIsRight`,
`RequestsAreAnswered`, `LatchesAreServed` - every safety property of its two runs.
Every action builds the next controller from four operators, so the lemmas are
about these. `PreemptionByPriority` is not inductive: a later frame is only as
high as the mask was when it was entered. Its strengthening says that the mask is
above the level of every frame below (a handler of level 7 aside), and that the
masks saved in the frames are above the levels of the frames under them; `RETI`
needs the second part to restore the first. For `RequestsAreAnswered` the relation
"answered between these two controllers" (latched, entered, or spent on a channel
with transfers left) is shown to be kept by whatever the later requests of the
same tick do. `LatchesAreServed` follows a latch through the operators: only
`CheckPending` and a write to its own register give it up.

`TimersProofs` (from `TimersAssumption`): `TypeCorrect`, `TimersKeepTime`.
`NoDrift` is inductive once the prescalers and counters are known to be below their
periods (`Rolling`). Its core is a lemma on a wheel in a wheel (`Cycle`), used for
a prescaler inside a counter and again for a timer inside the timer chained to it.

`RasterProofs`: `TypeCorrect`, `BlankFlagMatches`, `SettingsTakenOncePerLine`. The
strengthening (`Taken`) counts the settings by the line alone, since the length of
the field may be any and change on every line. `PictureIsWritten` proves
`WrittenIsShown` of `Drawing` for any screen, any program and any lengths.
`Settled` says what is known while `calm` grows: in the first whole frame after the
last write the settings drawn with are those written from line 1 on and the lines
above the counter are fresh, also when the field ends early and they are drawn
again; once that frame is complete every line is and stays so. A frame in which
something was written says nothing, which is why `calm` has to reach two.

Of a line, from `DrawingAssumption` and `ProgramsAssumption` (registers and sprites
hold what their width allows): `FrontmostIsShown`, every line that a step draws is
the one `Shown` tells from coordinates. It needs one invariant, `Typed` (registers,
their copy and the sprites keep their widths). The rest is about the operators: a
plane covers a column with one tile, also where the tile goes round the border
(`TileOnColumn`, `ScrollPlane`), and both ways of finding its columns agree
(`ColourColumn`, `Pattern`); the running position of a chain of sprites is the sum
of its links (`OneLink`); and while the layers are drawn the pixel is that of the
frontmost place so far in the order of `Shown`, where the later of two places has
to be deeper to be seen (`Ordered`, `OneMoreCandidate`, `LineComposed`). The loops
are recursive functions, followed round by round.

`BackendsProofs`, of the ring: `TypeCorrect`, `RingIsAQueue` (for even requests), the
refinement of `AudioQueue`, `FramesAreLostLate`, `NewestIsRepeated`. One slot is
kept free, so read and write position tell full from empty; `UnderWay` says that a
write under way has something left to do on a started stream; two lemmas give what
queueing and the callback do to `Contents`.

Of the picture (from `PvrAssumption`): `PicturesTypeCorrect` and, without immediate
returns (`~Reverts`), `LatestFrameIsComing`. The strengthening follows the newest
frame through the call: before the first upload the buffers hold the blank picture
(`Fresh`), a busy channel is one the program knows of (`Known`), the buffer it
sends from holds the newest frame and nothing else while the front buffer holds the
one before (`Sent`), with no transfer open both are the newest (`Settled`);
`Waiting` is the same between copy and upload.

`LauncherProofs` (from `SaveFilesAssumption`): `PressesActOnce`, `StatesSurvive`,
`BackupsSurvive`, for any number of units, versions and faults. Neither survival
property is inductive: whether `rename()` loses a state depends on what the calls
before it wrote. The inductive invariant `Filed` (`FilesKept`) has three parts:
what is left of an operation is a tail of one in which every call has the
predecessor it needs (`JobOK`, by `Follows`), files have contents that files can
have (`FilesTyped`), and before each call the files are as its predecessor left
them, whatever failed or was cut off earlier (`Phase`). `Lists` and
`HotkeysOperations` show that each list of operations a menu or a hotkey starts
consists of whole operations. The exceptions that the two properties name
(section 4) are needed: the steps they exempt lose a save.

`SavesProofs`, the battery saves (from `FlashAssumption`): `TypeCorrect` for all behaviours, and
`BytesCovered`, `CommitsPersist`, `StatesRestore`, `ReloadsRestore` under three
hypotheses, each of them something the code relies on and does not test: the list
of blocks is not full (`flash_write()` leaves a 257th block out), no join of
blocks is longer than sixteen bits tell (`Gaps` in `RoomLeft`, and `EraseFits` for the
sector an erase adds), and no BIOS write is either (`ShortWrites`). Without the
last, `BytesCovered` is false: the run `FlashStore_length_doc` is the
counterexample. In the run `FlashStore` the joins and writes are all short enough
and the list is at most just full (with a limit of 4 in place of 3 nothing changes
but that it never is, and all three hypotheses hold).
The invariant is `Shape` (blocks start at different addresses; images are in
order and hold the bytes of their blocks) and `Kept` (what is changed is in a
block; an image laid over the cartridge as sold is the ROM it was made of). Its
core is that `flash_optimise_blocks()` loses no byte: sorting is a permutation
(`SortedSorts`), and each join keeps the union of what the blocks before it held
and the blocks it leaves apart (`JoinStep`, `JoiningJoins`, `OptimiseKeeps`).

`SavesProofs`, the state format (from `LayoutsAssumption`): `LoadsRestore` and
`CutLoadsNothingHalf`, that `LoadRestores` and `CutLoadsWholeVariables` hold for any
builds, any lists, any image and any cut. Neither property speaks of a step but the
last one of a load, so the invariant `FormatInv` (`FormatHolds`) says what each step
before it has done. The saved state is described from outside, by where its sections
and variables begin (`Recorded`, which `ChunkWritten` and `OneMoreLaid` draw from the
way the code writes it). A load stands at one of these places, having counted in
`total` the way back to the place its search began (`Position`): this is what a
section that is passed over, missing or broken must not disturb. After a cut the
stream may also stand in the rest of a variable, from which no name is read again
(`OnlyBytes`), or nowhere known at all (`Wandering`), which is reached only from
there, so only if the cut was inside a variable. Every variable is whole then too
(`Mixed`): what a lost reader takes for a variable in full is one in the record,
this one or its namesake of another section (`RunRecorded`). Without a cut the search
always begins at the header, so that the variables passed are those of the sections
before and of this section up to here, and each of them is final (`Exact`). Whether
a variable was passed is told by the place of its bytes, since the builds list them
in different orders. Each action of `Load` has a lemma for the place it leads to
(names ending in `Step`) and one for what it restores (in `Exact`).

`SoundChipProofs` (from `ChipAssumption`): `ChipTypeCorrect`,
`ChipRunsClockByClock`, the refinement of `ToneGenerator`, and `ChipEdgesInTime`,
for any periods and weights, any number of square waves, any length of the shift
register and any program of register writes. Everything is told by the number of
edges that come within a number of clocks (`Turned`), which is unique and grows by
one when a delay ends. For the abstract chip it gives what n clocks make of an
oscillator (`SquareTurns`, `LoopFollows`); for the code, how often its loops and its
division run (`LoudEdges`, `EdgesTurned`, `LoopRuns`); so one run is that many
clocks (`SquareCatchesUp`, `NoiseCatchesUp`), and two runs are the run over both
(`SquareAfterSum`, `NoiseAfterSum`), which makes `Pass` and `Flush` steps of
`ToneGenerator` wherever writes cut the time. That no oscillator runs ahead of the
present (`last_time <= Now`) is the one invariant needed. For `ChipEdgesInTime` the
additions of a run are summed up (`LevelOf`): each edge adds twice the level it
goes to (`Flips`), so after the edges up to a clock the sum is the level of the
oscillator there (`LoudLevels`, `NoiseLevels`).

`ProcessorsProofs` (from `LongHighAssumption`: the upper half of a long word counts
a multiple of 256 up to 65 536, so the chip's is one of them; and from
`ScenesAssumption`: the programs are bytes and the registers those of a reset):
`TypesHold`, that `TypeOK` holds for every program, every memory and every order of
instructions and requests, and `ComparisonsOrderRegisters`, that `ComparisonsDecide`
does. The run tries a few dozen programs; what the theorems add is every opcode with
every operand. `TypeOK` is inductive as it stands (`StepsKeepTypes`): no hypothesis
says that a program is sensible, so it holds of code that runs into its data, of
stacks that go round the end of memory and of decimal adjustment after any
instruction. The lemmas follow the source: operators on bytes and flags, helpers,
handlers, then the tables, one lemma for each, named after the operator with
`Typed`. The loops (block moves and searches, rotations by a count, the writes that an
instruction left for the Z80) are recursive functions, each followed round by round
(`Rounds`, `StaysIn`).
That the shared bytes are in one memory only is the other half: `Leaves` gives each
processor its part back after every step.
For `ComparisonsDecide`, `ComparisonsOrder` says that after a subtraction of any
two numbers of any size each condition agrees with their order - sign, zero, overflow
and carry of `GenericSUB` are what they look at - and the lemmas after it follow the
two bytes of CP through fetching, the tables and `regCP` to the flags that the step
leaves. `SubtractionUndoesAddition` says that overflow and carry lose nothing.

Model-checked only: liveness (`FrameEnds`, `WriteReturns`, `StillFrameShows`,
`HandshakeDelivers`, `QuitSaves`, `LoadEnds`: fairness and ENABLED are beyond the
prover); what the programs of `Processors` compute (`SoundProgramsSurvive`,
`MainProgramsSurvive` are about those programs only, a proof would be one of each
program) and `IndexedLikePlain`, which holds of an instruction that does not change
its own bytes and whose statement executes each instruction twice. No module uses RECURSIVE operators.

## 6. What is not modelled, and why

* Sample synthesis (`Blip_Buffer`, `Stereo_Buffer`), the two DAC levels, pixel
  formats, palette contents, frame skipping, the BIOS font: data without control.
* `layer_enable` (always 7), the four tiles that `reset_memory()` stores for one
  game, registers that only hold a byte (TFFCR, TRDC and the like).
* Cycle counts of the processors and their share of time (`libretro.c:109` cuts
  them to eight bits): `Processors` allows every order instead. The decoder that is
  compiled out (`TLCS900h_interpret.c` from line 424, without
  `THREADED_INTERPRETER`). In `Processors`, the sound, timer and video registers
  and requests taken by DMA channels, which `SoundChip`, `Timers`, `Drawing` and
  `Interrupts` treat; a program that stores to 0xBC and loads it in one instruction
  would see the old byte.
* In `SaveFiles` and `Launcher`: a change of the save directory in a session (the
  core keeps its copy of `retro_init()`, `libretro.c:479`), a torn state file of
  exactly the expected length, the settings file, screenshots and notices, the pads
  as the game sees them, list navigation and drawing of the menus. In `FlashStore`,
  a file torn in the middle of its bytes, which `SaveFiles` has.
* In `StateFormat`, byte order and the lists of variables themselves. A few
  variables are in no list (`memory_flash_command`, the serial buffer,
  `COMMStatus`, the line of timer 3) and keep the values of the game that ran.
* Menu and notification textures in `PvrPresent` (blocking transfers that wait for
  the channel), volume scaling and stream set-up, scaling and cable detection.
* The clock (`rtc.c`, reads the host's), cheats (empty hooks), the serial line
  (stubs), vendored `libretro-common`, build files, and the RetroArch overlay, thin
  adapters of the Dreamcast backends.
