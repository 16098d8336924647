----------------------------- MODULE FlashStore -----------------------------
(***************************************************************************)
(* Battery saves.  A cartridge has no separate save RAM: a program writes   *)
(* its flash, that is the ROM image itself.  flash.c keeps a list of the    *)
(* blocks that were written (blocks[], block_count), writes them to a file  *)
(* when asked or when the game is unloaded, and puts them back over the     *)
(* pristine ROM when it is loaded.  Save states carry the same image        *)
(* (FLASH_StateAction, system.c).                                          *)
(*                                                                         *)
(* Nothing ties the list to the ROM: a byte that was changed but is in no   *)
(* block is silently left out of the next file.                            *)
(***************************************************************************)
EXTENDS Integers, Sequences, SequencesExt, FiniteSetsExt

CONSTANTS
  N,              \* bytes of the cartridge
  PageSize,       \* bytes a flash command write registers (256)
  LenMod,         \* lengths wrap here (2^16)
  FLASH_MAX_BLOCKS,
  MaxPages,       \* pages the largest BIOS write copies
  Values,         \* values of a byte
  Written,        \* those that programs write
  Pristine,       \* the value of every byte of the cartridge as sold
  Erased,         \* what erasing leaves, and what a status read returns
  StatusAddrs,    \* addresses that answer a status read
  SectorStart, SectorLen    \* the one sector VECT_FLASHERS erases

ASSUME FlashAssumption ==
  /\ N \in Nat \ {0} /\ LenMod \in Nat \ {0, 1} /\ FLASH_MAX_BLOCKS \in Nat \ {0}
  /\ PageSize \in 1..(LenMod - 1) /\ N % PageSize = 0
  /\ MaxPages \in Nat \ {0}
  /\ Pristine \in Values /\ Erased \in Values /\ Written \subseteq Values
  /\ StatusAddrs \subseteq 0..(N - 1)
  /\ SectorStart \in 0..(N - 1) /\ SectorLen \in 1..(N - SectorStart)
  /\ SectorLen < LenMod

VARIABLES
  running,   \* a game is loaded
  rom,       \* ngpc_rom.data
  blocks,    \* blocks[0 .. block_count - 1]
  cmd,       \* memory_flash_command: the next write programs the flash
  status,    \* FlashStatusEnable: the next ROM read may return the status
  file,      \* the .flash file, <<>> if it is missing or empty
  out,       \* the image being written to the file, <<>> when none is
  closing,   \* that write belongs to the unloading of the game
  slot,      \* a save state, see Slot
  intact,    \* history: the last image was neither torn by a crash nor disturbed
  saved,     \* history: the ROM that an intact image was made of
  forgot     \* history: a reload has dropped blocks of this session's ROM

vars == <<running, rom, blocks, cmd, status, file, out, closing, slot,
          intact, saved, forgot>>

Addr == 0..(N - 1)
ROM == [Addr -> Values]
Orig == [a \in Addr |-> Pristine]

Block == [start : Addr, len : 0..(LenMod - 1)]
Span(b) == {a \in Addr : b.start <= a /\ a < b.start + b.len}
Spans(bs) == UNION {Span(bs[i]) : i \in DOMAIN bs}

(* The save state: FlashStatusEnable and the image; whether the image is a  *)
(* true copy of the ROM, and of which, is history.                         *)
Slot(image, st, of, clean) == [image |-> image, status |-> st, rom |-> of, clean |-> clean]

ImageOK(im) == \A i \in DOMAIN im : /\ [start |-> im[i].start, len |-> im[i].len] \in Block
                                    /\ im[i].data \in [Span(im[i]) -> Values]

TypeOK ==
  /\ {running, cmd, status, closing, intact, forgot, slot.status, slot.clean} \subseteq BOOLEAN
  /\ rom \in ROM /\ saved \in ROM /\ slot.rom \in ROM
  /\ blocks \in Seq(Block) /\ Len(blocks) <= FLASH_MAX_BLOCKS
  /\ ImageOK(file) /\ ImageOK(out) /\ ImageOK(slot.image)

-----------------------------------------------------------------------------

(* Faults: the second block is forgotten; an overlap is counted twice. *)
JoinedFirst(b, c) == b
JoinedSum(b, c) == [b EXCEPT !.len = b.len + c.len]

(* flash_optimise_blocks(): sort, then join blocks that overlap or touch;  *)
(* a joined block is cut off at the largest length a block can have.       *)
Joined(b, c) ==
  LET new == c.start + c.len - b.start
      len == IF new < b.len THEN b.len ELSE new
  IN  [b EXCEPT !.len = IF len >= LenMod THEN LenMod - 1 ELSE len]

JoinNext(bs, c) ==
  IF bs # <<>> /\ c.start <= Last(bs).start + Last(bs).len
  THEN [bs EXCEPT ![Len(bs)] = Joined(@, c)] ELSE Append(bs, c)

Sorted(bs) ==
  CHOOSE s \in [DOMAIN bs -> Range(bs)] :
    Range(s) = Range(bs) /\ \A i, j \in DOMAIN s : i < j => s[i].start <= s[j].start

(* The list after each block of s was compared with the last one of it.     *)
Joining(s) ==
  LET joined[n \in 0..Len(s)] == IF n = 0 THEN <<>> ELSE JoinNext(joined[n - 1], s[n])
  IN  joined

Optimise(bs) == Joining(Sorted(bs))[Len(bs)]

(* Fault: a block that is too short is not enlarged. *)
RegisterOnce(bs, start, len) ==
  IF (\E i \in DOMAIN bs : bs[i].start = start) \/ Len(bs) = FLASH_MAX_BLOCKS
  THEN bs ELSE Append(bs, [start |-> start, len |-> len])

(* flash_write(): a block that starts here is enlarged if it is too short; *)
(* otherwise a new one is added, unless the list is full.                  *)
Register(bs, start, len) ==
  LET same == {i \in DOMAIN bs : bs[i].start = start}
  IN  CASE same # {} ->
             [i \in DOMAIN bs |-> IF i \in same /\ bs[i].len < len
                                  THEN [bs[i] EXCEPT !.len = len] ELSE bs[i]]
        [] same = {} /\ Len(bs) < FLASH_MAX_BLOCKS ->
             Append(bs, [start |-> start, len |-> len])
        [] OTHER -> bs

(* make_flash_commit(): the optimised blocks with the bytes of the ROM.    *)
(* The reads end a pending status read; if the first of them is at one of  *)
(* its addresses it is answered with the status.                           *)
Disturbed(bs) == status /\ Spans(bs) # {} /\ Min(Spans(bs)) \in StatusAddrs

Image(bs) ==
  LET seen == IF Disturbed(bs) THEN [rom EXCEPT ![Min(Spans(bs))] = Erased] ELSE rom
  IN  [i \in DOMAIN bs |-> [start |-> bs[i].start, len |-> bs[i].len,
                            data  |-> [a \in Span(bs[i]) |-> seen[a]]]]

StatusAfterReading(bs) == status /\ Spans(bs) = {}

(* Fault: only the first block is stored. *)
OverlayFirst(base, im) ==
  [a \in Addr |-> IF im # <<>> /\ a \in Span(im[1]) THEN im[1].data[a] ELSE base[a]]

(* do_flash_read(): the blocks of the image are stored over what is there, *)
(* one after the other, so the last one that has a byte decides it.        *)
Overlay(base, im) ==
  [a \in Addr |-> LET hits == {i \in DOMAIN im : a \in Span(im[i])}
                  IN  IF hits = {} THEN base[a] ELSE im[Max(hits)].data[a]]

BlocksOf(im) ==
  Optimise([i \in DOMAIN im |-> [start |-> im[i].start, len |-> im[i].len]])

-----------------------------------------------------------------------------

Init ==
  /\ running = FALSE /\ cmd = FALSE /\ status = FALSE
  /\ rom = Orig /\ blocks = <<>>
  /\ file = <<>> /\ out = <<>> /\ closing = FALSE
  /\ slot = Slot(<<>>, FALSE, Orig, FALSE)
  /\ saved = Orig /\ intact = TRUE /\ forgot = FALSE

Playing == running /\ out = <<>>
Host == <<file, out, closing, slot, saved, intact>>

(* What a session leaves in memory: nothing that the next one looks at. *)
EndSession ==
  /\ running' = FALSE /\ closing' = FALSE
  /\ rom' = Orig /\ blocks' = <<>> /\ cmd' = FALSE /\ status' = FALSE
  /\ forgot' = FALSE

ContinueSession == closing' = FALSE /\ UNCHANGED <<running, rom, blocks, cmd, forgot>>

(* rom_loaded(): the ROM as sold, then flash_read(). *)
LoadGame ==
  /\ ~running
  /\ running' = TRUE /\ cmd' = FALSE /\ status' = FALSE
  /\ rom' = Overlay(Orig, file)
  /\ blocks' = BlocksOf(file)
  /\ UNCHANGED <<forgot, Host>>

(* A write to 0x202AAA or 0x205555. *)
FlashCommand ==
  /\ Playing
  /\ cmd' = TRUE
  /\ UNCHANGED <<running, rom, blocks, status, forgot, Host>>

(* A write elsewhere in the ROM: it programs the flash after a command     *)
(* only, and uses the command up.                                          *)
FlashByte(a, v) ==
  /\ Playing /\ cmd /\ a \notin StatusAddrs
  /\ cmd' = FALSE
  /\ blocks' = Register(blocks, (a \div PageSize) * PageSize, PageSize)
  /\ rom' = [rom EXCEPT ![a] = v]
  /\ UNCHANGED <<running, status, forgot, Host>>

(* A write to 0x220000 or 0x230000, and the ROM read that ends it. *)
EnableStatus ==
  /\ Playing /\ StatusAddrs # {}
  /\ status' = TRUE
  /\ UNCHANGED <<running, rom, blocks, cmd, forgot, Host>>

ReadROM ==
  /\ Playing /\ status
  /\ status' = FALSE
  /\ UNCHANGED <<running, rom, blocks, cmd, forgot, Host>>

(* VECT_FLASHWRITE: pages are copied, then the block is registered with a  *)
(* length that wraps.                                                      *)
BiosWrite(start, pages, v) ==
  /\ Playing
  /\ start % PageSize = 0 /\ start + pages * PageSize <= N
  /\ rom' = [a \in Addr |-> IF a \in start..(start + pages * PageSize - 1) THEN v ELSE rom[a]]
  /\ blocks' = Register(blocks, start, (pages * PageSize) % LenMod)
  /\ cmd' = FALSE
  /\ UNCHANGED <<running, status, forgot, Host>>

(* VECT_FLASHERS *)
BiosErase ==
  /\ Playing
  /\ blocks' = Optimise(Register(Optimise(blocks), SectorStart, SectorLen % LenMod))
  /\ rom' = [a \in Addr |-> IF a \in SectorStart..(SectorStart + SectorLen - 1)
                            THEN Erased ELSE rom[a]]
  /\ cmd' = FALSE
  /\ UNCHANGED <<running, status, forgot, Host>>

(* flash_commit(), asked for by the user or (closes) by rom_unload():       *)
(* opening the file empties it, and only then is it written.               *)
CommitOpen(closes) ==
  /\ Playing /\ blocks # <<>>
  /\ blocks' = Optimise(blocks)
  /\ out' = Image(blocks')
  /\ file' = <<>>
  /\ closing' = closes
  /\ intact' = FALSE
  /\ saved' = Orig
  /\ UNCHANGED <<running, rom, cmd, status, slot, forgot>>

CommitWrite ==
  /\ running /\ out # <<>>
  /\ file' = out /\ out' = <<>>
  /\ intact' = (~forgot /\ ~Disturbed(blocks))
  /\ saved' = IF intact' THEN rom ELSE Orig
  /\ IF closing THEN EndSession
     ELSE ContinueSession /\ status' = StatusAfterReading(blocks)
  /\ UNCHANGED slot

(* rom_unload() without any block: no file is written. *)
UnloadUnsaved ==
  /\ Playing /\ blocks = <<>>
  /\ EndSession
  /\ UNCHANGED <<file, out, slot, saved, intact>>

(* neopop_reset() *)
Reset ==
  /\ Playing
  /\ cmd' = FALSE /\ status' = FALSE
  /\ UNCHANGED <<running, rom, blocks, forgot, Host>>

(* Power off, at any moment. *)
PowerOff ==
  /\ running
  /\ EndSession /\ out' = <<>>
  /\ UNCHANGED <<file, slot, saved, intact>>

(* dc_saves_reload_battery(): flash_read() into the running game. *)
Reload ==
  /\ Playing
  /\ rom' = Overlay(rom, file)
  /\ blocks' = BlocksOf(file)
  /\ forgot' = (forgot \/ ~(Spans(blocks) \subseteq Spans(blocks')))
  /\ UNCHANGED <<running, cmd, status, Host>>

(* FLASH_StateAction(): saving takes an image as a commit does; loading     *)
(* starts again from the ROM as sold, but only if the image has blocks.    *)
SaveState ==
  /\ Playing
  /\ blocks' = Optimise(blocks)
  /\ LET clean == ~forgot /\ ~Disturbed(blocks')
     IN  slot' = Slot(Image(blocks'), status, IF clean THEN rom ELSE Orig, clean)
  /\ status' = StatusAfterReading(blocks')
  /\ UNCHANGED <<running, rom, cmd, file, out, closing, saved, intact, forgot>>

(* Fault: the image is put over the ROM as it is. *)
LoadStateOver ==
  /\ Playing
  /\ rom' = Overlay(rom, slot.image)
  /\ blocks' = IF slot.image = <<>> THEN blocks ELSE BlocksOf(slot.image)
  /\ status' = slot.status
  /\ UNCHANGED <<running, cmd, forgot, Host>>

LoadState ==
  /\ Playing
  /\ IF slot.image = <<>> THEN UNCHANGED <<rom, blocks, forgot>>
     ELSE /\ rom' = Overlay(Orig, slot.image)
          /\ blocks' = BlocksOf(slot.image)
          /\ forgot' = FALSE
  /\ status' = slot.status
  /\ UNCHANGED <<running, cmd, Host>>

Next ==
  \/ LoadGame \/ UnloadUnsaved \/ PowerOff \/ Reset
  \/ FlashCommand \/ \E a \in Addr, v \in Written : FlashByte(a, v)
  \/ EnableStatus \/ ReadROM
  \/ \E start \in Addr, pages \in 1..MaxPages, v \in Written : BiosWrite(start, pages, v)
  \/ BiosErase
  \/ \E closes \in BOOLEAN : CommitOpen(closes)
  \/ CommitWrite \/ Reload \/ SaveState \/ LoadState

Spec == Init /\ [][Next]_vars

-----------------------------------------------------------------------------

(* The list of blocks never loses track of the ROM: every byte that differs *)
(* from the cartridge as sold is in a block, so the next file will have it, *)
(* unless a reload, which reads the file over the ROM as it is, has dropped *)
(* the block.                                                              *)
Covered == running /\ ~forgot => {a \in Addr : rom[a] # Pristine} \subseteq Spans(blocks)

(* "Flash save data persists on disk via the host layer" (libretro.c): what *)
(* was committed is what the next session starts with, after a regular exit *)
(* or a power cut, unless the cut tore that very commit.                   *)
FlashPersists == [][LoadGame /\ intact => rom' = saved]_vars

(* A save state that has a flash image brings back the ROM it was taken of. *)
StateRestoresFlash ==
  [][LoadState /\ slot.image # <<>> /\ slot.clean => rom' = slot.rom]_vars

(* What the file holds is in the ROM after a reload, and stays registered. *)
ReloadRestoresFile ==
  [][Reload => /\ \A i \in DOMAIN file, a \in Addr :
                     a \in Span(file[i]) => rom'[a] = file[i].data[a]
               /\ Spans(file) \subseteq Spans(blocks')]_vars
=============================================================================
