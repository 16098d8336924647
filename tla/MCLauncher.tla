------------------------------- MODULE MCLauncher -------------------------------
EXTENDS Launcher, TLC

\* Versions 1 and 2 have states of one length, a game without a save a shorter one.
MCLength == <<1, 1, 2>> @@ (0 :> 0)

\* Each hotkey, a trigger held before Start, two hotkeys in one frame, file work and
\* leaving in one frame.
MCPads == {{}, {"Start"}, {"Start", "Y"}, {"Start", "X", "R"}, {"L"}, {"Start", "L"},
           {"Start", "A"}, {"Start", "B"}, {"Start", "B", "L", "R"}}

===============================================================================
