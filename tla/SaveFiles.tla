------------------------------- MODULE SaveFiles -------------------------------
(***************************************************************************)
(* The files of one game: its save state, the copy written next to it, the *)
(* battery file and the copies of that file on memory units.  A file       *)
(* operation of the launcher or the core is a sequence of calls on the     *)
(* card, and the power may be cut before each of them.                     *)
(*                                                                         *)
(* What a game has saved is a version: 0 when it wrote no flash, Junk when *)
(* a torn file was read.  A state is as long as its flash section, so      *)
(* versions have a Length.                                                 *)
(***************************************************************************)
EXTENDS Integers, Sequences

CONSTANTS
    MaxVersion,   \* bound on the battery saves a game makes
    Length,       \* length of the save state taken at a version
    Slots,        \* number of memory units (vmu.slot_count)
    MaxFaults     \* bound on power cuts and failing calls

ASSUME SaveFilesAssumption ==
    /\ MaxVersion \in Nat /\ MaxFaults \in Nat /\ Slots \in Nat
    /\ Length \in [0 .. MaxVersion + 1 -> Nat]

VARIABLES
    card,     \* the files "name.state", "name.state.tmp" and "name.flash"
    unit,     \* slot -> the .FLA file on that memory unit
    game,     \* version of the running game's flash
    sync,     \* vmu_save_sync as chosen in the menu, and as handed to dc_vmu.c
    job,      \* operations still to do, each the sequence of its calls
    buffer,   \* bytes the running operation holds in memory
    faults    \* power cuts and failed calls so far

filevars == <<card, unit, game, sync, job, buffer, faults>>

Junk == MaxVersion + 1
Version == 0 .. Junk

Missing == [part |-> "missing", v |-> 0]
Empty == [part |-> "empty", v |-> 0]
Torn == [part |-> "torn", v |-> 0]
Whole(v) == [part |-> "whole", v |-> v]
File == {Missing, Empty, Torn} \cup {Whole(v) : v \in Version}

-------------------------------------------------------------------------------
(* The operations, as the calls they make. *)

\* Fault: the old state goes first.
SaveStateRemovesFirst == << <<"serialize">>, <<"remove">>, <<"open">>, <<"write">>, <<"rename">> >>

SaveState == << <<"serialize">>, <<"open">>, <<"write">>, <<"remove">>, <<"rename">> >>
LoadState == << <<"load">> >>
Commit == << <<"truncate">>, <<"fill">> >>
Mirror == << <<"collect">> >>
          \o [i \in 1 .. 2 * Slots |-> << IF i % 2 = 1 THEN "erase" ELSE "copy", (i + 1) \div 2 >>]
SaveBattery == Commit \o << <<"check">> >> \o Mirror
ReloadBattery == << <<"reload">> >>
LoadGame == << <<"restore">>, <<"unpack">> >>
FlashRead == << <<"start">> >>

At(call) == job # <<>> /\ Head(Head(job))[1] = call
Slot == Head(Head(job))[2]

Finish == job' = IF Len(Head(job)) = 1 THEN Tail(job) ELSE <<Tail(Head(job))>> \o Tail(job)
Abandon == job' = Tail(job)

Works == UNCHANGED faults
Fails == faults < MaxFaults /\ faults' = faults + 1

-------------------------------------------------------------------------------
(* dc_saves_save_state() and write_file_atomic(). *)

Serialize ==
    /\ At("serialize") /\ Works /\ Finish
    /\ buffer' = Whole(game)
    /\ UNCHANGED <<card, unit, game, sync>>

OpenTemp ==
    /\ At("open")
    /\ \/ Works /\ Finish /\ card' = [card EXCEPT !.temp = Empty]
       \/ Fails /\ Abandon /\ UNCHANGED card
    /\ UNCHANGED <<unit, game, sync, buffer>>

\* A short write is noticed and the copy removed; bytes that fclose() could not
\* write are not.
WriteTemp ==
    /\ At("write")
    /\ \/ Works /\ Finish /\ card' = [card EXCEPT !.temp = buffer]
       \/ Fails /\ Abandon /\ card' = [card EXCEPT !.temp = Missing]
       \/ Fails /\ Finish /\ card' = [card EXCEPT !.temp = Torn]
    /\ UNCHANGED <<unit, game, sync, buffer>>

RemoveOld ==
    /\ At("remove") /\ Works /\ Finish
    /\ card' = [card EXCEPT !.state = Missing]
    /\ UNCHANGED <<unit, game, sync, buffer>>

Rename ==
    /\ At("rename") /\ Finish
    /\ \/ Works /\ card' = [card EXCEPT !.state = card.temp, !.temp = Missing]
       \/ Fails /\ card' = [card EXCEPT !.temp = Missing]
    /\ UNCHANGED <<unit, game, sync, buffer>>

\* dc_saves_load_state(): a file of another size than retro_serialize_size() gives
\* now is refused.
Loads(file) == file.part = "whole" /\ Length[file.v] = Length[game]

Load ==
    /\ At("load") /\ Works /\ Finish
    /\ game' = IF Loads(card.state) THEN card.state.v ELSE game
    /\ UNCHANGED <<card, unit, sync, buffer>>

-------------------------------------------------------------------------------
(* flash_commit() and flash_read(). *)

\* system_io_flash_write() empties the file when it opens it; without blocks
\* nothing is written.
Truncate ==
    /\ At("truncate") /\ Finish
    /\ \/ game = 0 /\ Works /\ buffer' = Missing /\ UNCHANGED card
       \/ game # 0 /\ Works /\ buffer' = Whole(game) /\ card' = [card EXCEPT !.flash = Empty]
       \/ game # 0 /\ Fails /\ buffer' = Missing /\ UNCHANGED card
    /\ UNCHANGED <<unit, game, sync>>

\* The result of filestream_write() is not looked at.
Fill ==
    /\ At("fill") /\ Finish
    /\ \/ buffer = Missing /\ Works /\ UNCHANGED card
       \/ buffer # Missing /\ Works /\ card' = [card EXCEPT !.flash = buffer]
       \/ buffer # Missing /\ Fails /\ card' = [card EXCEPT !.flash = Torn]
    /\ UNCHANGED <<unit, game, sync, buffer>>

\* flash_read(): a torn file has a valid header or not.
Contents(file) ==
    CASE file.part = "whole" -> {file.v}
      [] file.part = "torn" -> {0, Junk}
      [] OTHER -> {0}

Start ==
    /\ At("start") /\ Works /\ Finish
    /\ game' \in Contents(card.flash)
    /\ UNCHANGED <<card, unit, sync, buffer>>

Reload ==
    /\ At("reload") /\ Works /\ Finish
    /\ game' \in IF card.flash = Missing THEN {game} ELSE Contents(card.flash)
    /\ UNCHANGED <<card, unit, sync, buffer>>

-------------------------------------------------------------------------------
(* The copies on memory units. *)

\* save_battery_with_notify(): any battery file will do, and the copy is made if
\* the menu says so.
Check ==
    /\ At("check") /\ Works
    /\ IF card.flash # Missing /\ sync.chosen THEN Finish ELSE Abandon
    /\ UNCHANGED <<card, unit, game, sync, buffer>>

\* Fault: an empty file is copied too.
CollectsEmpty(file) == file # Missing
Collects(file) == file.part \notin {"missing", "empty"}

Collect ==
    /\ At("collect") /\ Works
    /\ IF sync.enabled /\ Slots # 0 /\ Collects(card.flash)
       THEN Finish /\ buffer' = card.flash
       ELSE Abandon /\ UNCHANGED buffer
    /\ UNCHANGED <<card, unit, game, sync>>

Erase ==
    /\ At("erase") /\ Works /\ Finish
    /\ unit' = [unit EXCEPT ![Slot] = Missing]
    /\ UNCHANGED <<card, game, sync, buffer>>

Copy ==
    /\ At("copy") /\ Finish
    /\ \/ Works /\ unit' = [unit EXCEPT ![Slot] = buffer]
       \/ Fails /\ unit' \in {unit, [unit EXCEPT ![Slot] = Torn]}
    /\ UNCHANGED <<card, game, sync, buffer>>

\* dc_vmu_load_flash_from_vmu(): the first copy that can be used.  A package that
\* does not parse is taken as raw bytes if it is longer than one block.
Usable(file, short) == file.part = "whole" \/ (file.part = "torn" /\ ~short)

Restore ==
    /\ At("restore")
    /\ \E short \in BOOLEAN :
         LET usable == {i \in 1 .. Slots : Usable(unit[i], short)}
             taken == CHOOSE i \in usable : \A j \in usable : i =< j
         IN  IF sync.enabled /\ card.flash = Missing /\ usable # {}
             THEN \/ /\ Works /\ Finish /\ buffer' = unit[taken]
                     /\ card' = [card EXCEPT !.flash = Empty]
                  \/ Fails /\ Abandon /\ UNCHANGED <<buffer, card>>
             ELSE Works /\ Abandon /\ UNCHANGED <<buffer, card>>
    /\ UNCHANGED <<unit, game, sync>>

Unpack ==
    /\ At("unpack") /\ Finish
    /\ \/ Works /\ card' = [card EXCEPT !.flash = buffer]
       \/ Fails /\ card' = [card EXCEPT !.flash = Torn]
    /\ UNCHANGED <<unit, game, sync, buffer>>

-------------------------------------------------------------------------------
Operate ==
    \/ Serialize \/ OpenTemp \/ WriteTemp \/ RemoveOld \/ Rename \/ Load
    \/ Truncate \/ Fill \/ Start \/ Reload
    \/ Check \/ Collect \/ Erase \/ Copy \/ Restore \/ Unpack

\* What a power cut leaves: the file that is being written may be cut off.
CutCard ==
    {card}
    \cup (IF At("write") THEN {[card EXCEPT !.temp = Torn]} ELSE {})
    \cup (IF (At("fill") /\ buffer # Missing) \/ At("unpack") THEN {[card EXCEPT !.flash = Torn]} ELSE {})
CutUnit == {unit} \cup (IF At("copy") THEN {[unit EXCEPT ![Slot] = Torn]} ELSE {})

FilesInit ==
    /\ card = [state |-> Missing, temp |-> Missing, flash |-> Missing]
    /\ unit = [i \in 1 .. Slots |-> Missing]
    /\ game = 0
    /\ sync \in [chosen : {TRUE}, enabled : {TRUE}]
    /\ job = <<>>
    /\ buffer = Missing
    /\ faults = 0

===============================================================================
