-------------------------------- MODULE Launcher --------------------------------
(***************************************************************************)
(* The frame loop of the Dreamcast launcher (main.c) with its hotkeys,     *)
(* menus, start and end of a session, over the files of SaveFiles.  The    *)
(* player may hold any buttons of Pads at each poll, and the power may be  *)
(* cut at any time.  mode is where control goes when job is done.          *)
(***************************************************************************)
EXTENDS SaveFiles

CONSTANTS Pads      \* sets of buttons held together; triggers are "L" and "R"

VARIABLES
    mode,       \* "off", "frame", "run", "pause", "settings", "leave" or "closing"
    previous,   \* previous_buttons
    triggers,   \* previous_ltrig, previous_rtrig at or above the threshold
    pad         \* what the loop polled last since it was entered or left a menu

vars == <<filevars, mode, previous, triggers, pad>>

Triggers == {"L", "R"}
Actions == {"A", "B", "X", "Y"}

-------------------------------------------------------------------------------
Init ==
    /\ FilesInit
    /\ mode = "off"
    /\ previous = {} /\ triggers = {} /\ pad = {}

Forget == previous' = {} /\ triggers' = {} /\ pad' = {}

\* main() up to its loop.  The settings can be changed in the main menu after
\* dc_vmu.c was told of them.
Boot ==
    /\ mode = "off" /\ mode' = "run"
    /\ \E chosen, auto \in BOOLEAN :
         /\ sync' = [chosen |-> chosen, enabled |-> sync.chosen]
         /\ job' = <<LoadGame, FlashRead>> \o (IF auto THEN <<LoadState>> ELSE <<>>)
    /\ Forget
    /\ UNCHANGED <<card, unit, game, buffer, faults>>

\* handle_hotkeys(): the operations a frame starts, in the order of the code.
Pressed(buttons) == buttons \ (previous \cup Triggers)
Edge(buttons, trigger) == trigger \in buttons \ triggers

Hotkeys(buttons) ==
    LET when(condition, operation) == IF condition THEN <<operation>> ELSE <<>>
    IN  IF "Start" \notin buttons THEN <<>>
        ELSE when("Y" \in Pressed(buttons), SaveState)
             \o when("X" \in Pressed(buttons), LoadState)
             \o when(Edge(buttons, "L"), SaveBattery)
             \o when(Edge(buttons, "R"), ReloadBattery)

Decision(buttons) ==
    LET pressed == Pressed(buttons)
    IN  CASE "Start" \in pressed /\ pressed \cap Actions = {} -> "pause"
          [] "Start" \in buttons /\ "A" \in pressed -> "settings"
          [] "Start" \in buttons /\ "B" \in pressed /\ "A" \notin pressed -> "leave"
          [] OTHER -> "run"

\* The triggers are remembered by trigger_pressed() while Start is held, and by the
\* loop of main() while it is not: in every frame.
\* Fault: the loop does not.
RememberedWithStart(buttons) == IF "Start" \in buttons THEN buttons \cap Triggers ELSE triggers
Remembered(buttons) == buttons \cap Triggers

Frame ==
    /\ mode = "frame" /\ job = <<>>
    /\ \E buttons \in Pads :
         /\ job' = Hotkeys(buttons)
         /\ mode' = Decision(buttons)
         /\ previous' = buttons \ Triggers
         /\ triggers' = Remembered(buttons)
         /\ pad' = buttons
    /\ UNCHANGED <<card, unit, game, sync, buffer, faults>>

\* retro_run(): the game may save.  Junk stays junk.  What the operations held in
\* memory they have freed.
Run ==
    /\ mode = "run" /\ job = <<>>
    /\ mode' = "frame" /\ buffer' = Missing
    /\ game' \in {game} \cup (IF game < MaxVersion THEN {game + 1} ELSE {})
    /\ UNCHANGED <<card, unit, sync, job, faults, previous, triggers, pad>>

\* menu_pause(): what the player chooses.
Pause ==
    /\ mode = "pause" /\ job = <<>>
    /\ \/ mode' = "run" /\ job' \in {<<>>, <<SaveState>>, <<LoadState>>}
       \/ mode' \in {"settings", "leave"} /\ UNCHANGED job
    /\ Forget
    /\ UNCHANGED <<card, unit, game, sync, buffer, faults>>

\* menu_settings_for_rom() and apply_vmu_settings().
Settings ==
    /\ mode = "settings" /\ job = <<>>
    /\ \E on \in BOOLEAN : sync' = [chosen |-> on, enabled |-> on]
    /\ mode' = "run"
    /\ Forget
    /\ UNCHANGED <<card, unit, game, job, buffer, faults>>

\* Fault: the game is not unloaded.
LeaveLoaded ==
    /\ mode = "leave" /\ job = <<>>
    /\ mode' = "closing"
    /\ job' = IF sync.chosen THEN <<Mirror>> ELSE <<>>
    /\ UNCHANGED <<card, unit, game, sync, buffer, faults, previous, triggers, pad>>

\* After the loop: retro_unload_game(), then the copy to the units.
Leave ==
    /\ mode = "leave" /\ job = <<>>
    /\ mode' = "closing"
    /\ job' = <<Commit>> \o (IF sync.chosen THEN <<Mirror>> ELSE <<>>)
    /\ UNCHANGED <<card, unit, game, sync, buffer, faults, previous, triggers, pad>>

Off ==
    /\ mode' = "off" /\ game' = 0 /\ job' = <<>> /\ buffer' = Missing
    /\ Forget
    /\ UNCHANGED sync

Close ==
    /\ mode = "closing" /\ job = <<>>
    /\ Off
    /\ UNCHANGED <<card, unit, faults>>

Work == Operate /\ UNCHANGED <<mode, previous, triggers, pad>>

PowerCut ==
    /\ mode # "off" /\ Fails
    /\ card' \in CutCard /\ unit' \in CutUnit
    /\ Off

Next == Boot \/ Frame \/ Run \/ Pause \/ Settings \/ Leave \/ Close \/ Work \/ PowerCut

Spec == Init /\ [][Next]_vars /\ WF_vars(Run \/ Leave \/ Close \/ Work)

-------------------------------------------------------------------------------
(* Properties. *)

Good(file) == file.part = "whole" /\ file.v # Junk

\* write_file_atomic(): once a state is on the card there stays one, under its own
\* name or that of the copy.  It is lost in three ways only: the copy is opened
\* again when it is the only one, after a power cut between remove() and rename() of
\* an earlier save; the bytes of the new one were lost in fclose(); rename() fails.
HasState == card.state.part = "whole" \/ card.temp.part = "whole"

StateSurvives ==
    [][HasState /\ ~HasState' =>
         \/ At("open") /\ card.state \in {Missing, Torn}
         \/ At("remove") /\ card.temp = Torn
         \/ At("rename") /\ Fails]_vars

\* A battery save that is complete anywhere, on the card or on a unit, stays complete
\* somewhere, in every order of commits, copies, restores and power cuts.  It is
\* lost in two ways only: the file that is the only copy is emptied to be written
\* again, or a torn file is copied over the last good one.
Copies == {f \in {card.flash} \cup {unit[i] : i \in 1 .. Slots} : Good(f)}

BackupSurvives ==
    [][Copies # {} /\ Copies' = {} =>
         \/ At("truncate") /\ unit' = unit
         \/ At("erase") /\ buffer \in {Torn, Whole(Junk)}]_vars

\* handle_hotkeys(): a button or trigger acts once each time it goes down while Start
\* is held; one that was down in the frame before does not act, however long it is
\* held and whenever Start joins it.  A menu makes it forget what was held.
Triggering == [Y |-> SaveState, X |-> LoadState, L |-> SaveBattery, R |-> ReloadBattery]

OncePerPress ==
    [][mode = "frame" /\ mode' # "off" =>
         \A b \in DOMAIN Triggering :
            b \in pad => \A i \in DOMAIN job' : job'[i] # Triggering[b]]_vars

\* "Start + X | Load state" (BUILDING.md:125): a state that is whole on the card is
\* what the game goes on with when it is loaded.
LoadStateLoads ==
    [][At("load") /\ card.state.part = "whole" /\ mode' # "off" => game' = card.state.v]_vars

\* Leaving the game ends, and what the game had saved when the last hotkey's file work
\* was done is then on the card, unless a power cut or a failing call came in between.
QuitSaves ==
    \A v \in 1 .. MaxVersion, n \in 0 .. MaxFaults :
       (mode = "leave" /\ job = <<>> /\ game = v /\ faults = n)
          ~> (mode = "off" /\ (card.flash = Whole(v) \/ faults > n))

===============================================================================
