----------------------------- MODULE LauncherProofs -----------------------------
(***************************************************************************)
(* Theorems about the launcher and its files, for any sets of buttons, any *)
(* number of memory units and any bounds on versions and faults.           *)
(***************************************************************************)
EXTENDS Launcher, SequenceTheorems, NaturalsInduction, WellFoundedInduction, TLAPS

-------------------------------------------------------------------------------
(* The operations as sequences of calls.  Which call comes before another is *)
(* the same in every operation, so what a call may rely on follows from the  *)
(* call before it.                                                          *)

Plain == {"serialize", "open", "write", "remove", "rename", "load", "truncate", "fill", "check",
          "collect", "reload", "restore", "unpack", "start"}
Calls == {<<name>> : name \in Plain} \cup ({"erase", "copy"} \X (1 .. Slots))

First == {"serialize", "load", "truncate", "collect", "reload", "restore", "start"}

Follows(b, c) ==
    /\ c[1] = "open" => b[1] = "serialize"
    /\ c[1] = "write" => b[1] = "open"
    /\ c[1] = "remove" => b[1] = "write"
    /\ c[1] = "rename" => b[1] = "remove"
    /\ c[1] = "fill" => b[1] = "truncate"
    /\ c[1] = "unpack" => b[1] = "restore"
    /\ c[1] = "erase" => b[1] \in {"collect", "copy"}
    /\ c[1] = "copy" => b[1] = "erase" /\ b[2] = c[2]

\* What is left of an operation, and a whole one.
Rest(s) ==
    /\ s \in Seq(Calls) /\ Len(s) > 0
    /\ \A i \in 1 .. Len(s) - 1 : Follows(s[i], s[i + 1])
Operation(s) == Rest(s) /\ s[1][1] \in First

LEMMA RestsJoin ==
  ASSUME NEW s, NEW t, Rest(s), Rest(t), Follows(s[Len(s)], t[1])
  PROVE  Rest(s \o t) /\ (s \o t)[1] = s[1]
<1>1. s \in Seq(Calls) /\ t \in Seq(Calls) /\ Len(s) > 0 /\ Len(t) > 0
  BY DEF Rest
<1>2. /\ s \o t \in Seq(Calls) /\ Len(s \o t) = Len(s) + Len(t)
      /\ \A i \in 1 .. Len(s) + Len(t) : (s \o t)[i] = IF i <= Len(s) THEN s[i] ELSE t[i - Len(s)]
  BY <1>1, ConcatProperties
<1>3. ASSUME NEW i \in 1 .. Len(s \o t) - 1
      PROVE  Follows((s \o t)[i], (s \o t)[i + 1])
  <2>1. CASE i < Len(s)
    <3>1. i \in 1 .. Len(s) - 1 /\ (s \o t)[i] = s[i] /\ (s \o t)[i + 1] = s[i + 1]
      BY <1>1, <1>2, <2>1
    <3> QED BY <3>1 DEF Rest
  <2>2. CASE i = Len(s)
    <3>1. (s \o t)[i] = s[Len(s)] /\ (s \o t)[i + 1] = t[1]
      BY <1>1, <1>2, <2>2
    <3> QED BY <3>1
  <2>3. CASE i > Len(s)
    <3> DEFINE j == i - Len(s)
    <3>1. j \in 1 .. Len(t) - 1 /\ (s \o t)[i] = t[j] /\ (s \o t)[i + 1] = t[j + 1]
      BY <1>1, <1>2, <2>3
    <3> QED BY <3>1 DEF Rest
  <2> QED BY <1>1, <2>1, <2>2, <2>3
<1> QED BY <1>1, <1>2, <1>3 DEF Rest

UnitCalls ==
  [i \in 1 .. 2 * Slots |-> << IF i % 2 = 1 THEN "erase" ELSE "copy", (i + 1) \div 2 >>]

LEMMA UnitCallsRest ==
  /\ UnitCalls \in Seq(Calls) /\ Len(UnitCalls) = 2 * Slots
  /\ \A i \in 1 .. 2 * Slots - 1 : Follows(UnitCalls[i], UnitCalls[i + 1])
  /\ Slots # 0 => UnitCalls[1][1] = "erase"
<1>1. Slots \in Nat /\ 2 * Slots \in Nat
  BY SaveFilesAssumption
<1>2. ASSUME NEW i \in 1 .. 2 * Slots
      PROVE  /\ UnitCalls[i] \in Calls
             /\ UnitCalls[i][1] = (IF i % 2 = 1 THEN "erase" ELSE "copy")
             /\ UnitCalls[i][2] = (i + 1) \div 2
  <2>1. (i + 1) \div 2 \in 1 .. Slots
    BY <1>1
  <2>2. (IF i % 2 = 1 THEN "erase" ELSE "copy") \in {"erase", "copy"}
    OBVIOUS
  <2>3. << IF i % 2 = 1 THEN "erase" ELSE "copy", (i + 1) \div 2 >> \in {"erase", "copy"} \X (1 .. Slots)
    BY <2>1, <2>2
  <2> QED BY <2>3 DEF Calls, UnitCalls
<1>3. UnitCalls \in [1 .. 2 * Slots -> Calls]
  BY <1>2, Zenon DEF UnitCalls
<1>4. UnitCalls \in Seq(Calls) /\ Len(UnitCalls) = 2 * Slots
  BY <1>1, <1>3
<1>5. ASSUME NEW i \in 1 .. 2 * Slots - 1
      PROVE  Follows(UnitCalls[i], UnitCalls[i + 1])
  <2>1. i \in 1 .. 2 * Slots /\ i + 1 \in 1 .. 2 * Slots
    BY <1>1
  <2>2. CASE i % 2 = 1
    <3>1. (i + 1) % 2 = 0 /\ (i + 2) \div 2 = (i + 1) \div 2
      BY <2>1, <2>2
    <3> QED BY <1>2, <2>1, <2>2, <3>1 DEF Follows
  <2>3. CASE i % 2 # 1
    <3>1. (i + 1) % 2 = 1
      BY <2>1, <2>3
    <3> QED BY <1>2, <2>1, <2>3, <3>1 DEF Follows
  <2> QED BY <2>2, <2>3
<1>6. ASSUME Slots # 0 PROVE UnitCalls[1][1] = "erase"
  <2>1. 1 \in 1 .. 2 * Slots /\ 1 % 2 = 1
    BY <1>1, <1>6
  <2> QED BY <1>2, <2>1
<1> QED BY <1>4, <1>5, <1>6

LEMMA MirrorWhole == Operation(Mirror) /\ Mirror[1] = <<"collect">>
<1> DEFINE one == << <<"collect">> >>
<1>1. Mirror = one \o UnitCalls
  BY Zenon DEF Mirror, UnitCalls
<1>2. one \in Seq(Calls) /\ Len(one) = 1 /\ one[1] = <<"collect">> /\ one[1][1] = "collect"
  BY DEF Calls, Plain
<1> HIDE DEF one
<1>3. Rest(one)
  BY <1>2 DEF Rest
<1>4. CASE Slots = 0
  <2>1. UnitCalls = <<>>
    BY <1>4, UnitCallsRest, EmptySeq
  <2>2. Mirror = one
    BY <1>1, <1>2, <2>1, ConcatEmptySeq
  <2> QED BY <1>2, <1>3, <2>2 DEF Operation, First
<1>5. CASE Slots # 0
  <2>1. Slots \in Nat
    BY SaveFilesAssumption
  <2>2. Rest(UnitCalls)
    BY <1>5, <2>1, UnitCallsRest DEF Rest
  <2>3. Follows(one[Len(one)], UnitCalls[1])
    BY <1>2, <1>5, UnitCallsRest DEF Follows
  <2>4. Rest(Mirror) /\ Mirror[1] = one[1]
    BY <1>1, <1>3, <2>2, <2>3, RestsJoin
  <2> QED BY <1>2, <2>4 DEF Operation, First
<1> QED BY <1>4, <1>5

LEMMA CommitWhole == Operation(Commit)
<1>1. Commit \in Seq(Calls) /\ Len(Commit) = 2
  BY DEF Commit, Calls, Plain
<1>2. Commit[1][1] = "truncate" /\ Commit[2][1] = "fill"
  BY DEF Commit
<1> QED BY <1>1, <1>2 DEF Operation, Rest, First, Follows

LEMMA BatteryWhole == Operation(SaveBattery) /\ SaveBattery[1] = <<"truncate">>
<1> DEFINE check == << <<"check">> >>
           first == Commit \o check
<1>1. check \in Seq(Calls) /\ Len(check) = 1 /\ check[1][1] = "check"
  BY DEF Calls, Plain
<1>2. Rest(check)
  BY <1>1 DEF Rest
<1>3. /\ Commit[Len(Commit)][1] = "fill" /\ Commit[1] = <<"truncate">>
      /\ Rest(Commit)
  BY CommitWhole DEF Commit, Operation
<1> HIDE DEF check
<1>4. Follows(Commit[Len(Commit)], check[1])
  BY <1>1, <1>3 DEF Follows
<1>5. Rest(first) /\ first[1] = Commit[1]
  BY <1>2, <1>3, <1>4, RestsJoin
<1>6. Len(first) = 3 /\ first[3] = check[1]
  <2>1. Commit \in Seq(Calls) /\ Len(Commit) = 2
    BY CommitWhole DEF Operation, Rest, Commit
  <2>2. /\ Len(first) = Len(Commit) + Len(check)
        /\ \A i \in 1 .. Len(Commit) + Len(check) :
             first[i] = IF i <= Len(Commit) THEN Commit[i] ELSE check[i - Len(Commit)]
    BY <1>1, <2>1, ConcatProperties
  <2>3. first[3] = check[3 - 2]
    BY <1>1, <2>1, <2>2
  <2> QED BY <1>1, <2>1, <2>2, <2>3
<1> HIDE DEF first
<1>7. Rest(Mirror) /\ Mirror[1][1] = "collect"
  BY MirrorWhole DEF Operation
<1>8. Follows(first[Len(first)], Mirror[1])
  BY <1>1, <1>6, <1>7 DEF Follows
<1>9. SaveBattery = first \o Mirror
  BY Zenon DEF SaveBattery, first, check
<1>10. Rest(SaveBattery) /\ SaveBattery[1] = <<"truncate">>
  BY <1>3, <1>5, <1>7, <1>8, <1>9, RestsJoin
<1> QED BY <1>10 DEF Operation, First

LEMMA OperationsWhole ==
  /\ Operation(SaveState) /\ Operation(LoadState) /\ Operation(Commit) /\ Operation(Mirror)
  /\ Operation(SaveBattery) /\ Operation(ReloadBattery) /\ Operation(LoadGame) /\ Operation(FlashRead)
<1>1. Operation(SaveState)
  <2>1. SaveState \in Seq(Calls) /\ Len(SaveState) = 5
    BY DEF SaveState, Calls, Plain
  <2>2. /\ SaveState[1][1] = "serialize" /\ SaveState[2][1] = "open" /\ SaveState[3][1] = "write"
        /\ SaveState[4][1] = "remove" /\ SaveState[5][1] = "rename"
    BY DEF SaveState
  <2> QED BY <2>1, <2>2 DEF Operation, Rest, First, Follows
<1>2. Operation(LoadGame)
  <2>1. LoadGame \in Seq(Calls) /\ Len(LoadGame) = 2
    BY DEF LoadGame, Calls, Plain
  <2>2. LoadGame[1][1] = "restore" /\ LoadGame[2][1] = "unpack"
    BY DEF LoadGame
  <2> QED BY <2>1, <2>2 DEF Operation, Rest, First, Follows
<1>3. Operation(LoadState)
  BY DEF LoadState, Calls, Plain, Operation, Rest, First
<1>4. Operation(ReloadBattery)
  BY DEF ReloadBattery, Calls, Plain, Operation, Rest, First
<1>5. Operation(FlashRead)
  BY DEF FlashRead, Calls, Plain, Operation, Rest, First
<1> QED BY <1>1, <1>2, <1>3, <1>4, <1>5, CommitWhole, MirrorWhole, BatteryWhole

LEMMA OperationsDiffer ==
  /\ SaveState # LoadState /\ SaveState # SaveBattery /\ SaveState # ReloadBattery
  /\ LoadState # SaveBattery /\ LoadState # ReloadBattery /\ SaveBattery # ReloadBattery
<1>1. SaveState[1] = <<"serialize">> /\ LoadState[1] = <<"load">> /\ ReloadBattery[1] = <<"reload">>
  BY DEF SaveState, LoadState, ReloadBattery
<1>2. SaveBattery[1] = <<"truncate">>
  BY BatteryWhole
<1>3. /\ <<"serialize">>[1] = "serialize" /\ <<"load">>[1] = "load"
      /\ <<"reload">>[1] = "reload" /\ <<"truncate">>[1] = "truncate"
  OBVIOUS
<1> QED BY <1>1, <1>2, <1>3

LEMMA When ==
  ASSUME NEW condition, NEW S, NEW operation \in S, NEW when,
         when = IF condition THEN <<operation>> ELSE <<>>
  PROVE  when \in Seq(S) /\ \A j \in DOMAIN when : when[j] = operation /\ condition
<1>1. CASE condition
  <2>1. when = <<operation>> /\ DOMAIN when = {1} /\ when[1] = operation
    BY <1>1
  <2>2. when \in Seq(S)
    BY <2>1
  <2> QED BY <1>1, <2>1, <2>2
<1>2. CASE ~condition
  <2>1. when = <<>>
    BY <1>2
  <2>2. when \in Seq(S) /\ DOMAIN when = {}
    BY <2>1
  <2> QED BY <2>2
<1> QED BY <1>1, <1>2

\* An operation in the list was asked for by its own button or trigger.
LEMMA HotkeysAsked ==
  ASSUME NEW buttons, NEW i \in DOMAIN Hotkeys(buttons)
  PROVE  \/ Hotkeys(buttons)[i] = SaveState /\ "Y" \in Pressed(buttons)
         \/ Hotkeys(buttons)[i] = LoadState /\ "X" \in Pressed(buttons)
         \/ Hotkeys(buttons)[i] = SaveBattery /\ Edge(buttons, "L")
         \/ Hotkeys(buttons)[i] = ReloadBattery /\ Edge(buttons, "R")
<1> DEFINE when(condition, operation) == IF condition THEN <<operation>> ELSE <<>>
           Y == when("Y" \in Pressed(buttons), SaveState)
           X == when("X" \in Pressed(buttons), LoadState)
           L == when(Edge(buttons, "L"), SaveBattery)
           R == when(Edge(buttons, "R"), ReloadBattery)
           Op == {SaveState, LoadState, SaveBattery, ReloadBattery}
<1>1. Hotkeys(buttons) = IF "Start" \notin buttons THEN <<>> ELSE Y \o X \o L \o R
  BY DEF Hotkeys
<1>2. /\ Y \in Seq(Op) /\ \A j \in DOMAIN Y : Y[j] = SaveState /\ "Y" \in Pressed(buttons)
      /\ X \in Seq(Op) /\ \A j \in DOMAIN X : X[j] = LoadState /\ "X" \in Pressed(buttons)
      /\ L \in Seq(Op) /\ \A j \in DOMAIN L : L[j] = SaveBattery /\ Edge(buttons, "L")
      /\ R \in Seq(Op) /\ \A j \in DOMAIN R : R[j] = ReloadBattery /\ Edge(buttons, "R")
  <2> HIDE DEF Y, X, L, R
  <2>0. /\ SaveState \in Op /\ LoadState \in Op /\ SaveBattery \in Op /\ ReloadBattery \in Op
    OBVIOUS
  <2> HIDE DEF Op
  <2>1. Y \in Seq(Op) /\ \A j \in DOMAIN Y : Y[j] = SaveState /\ "Y" \in Pressed(buttons)
    BY <2>0, When DEF Y
  <2>2. X \in Seq(Op) /\ \A j \in DOMAIN X : X[j] = LoadState /\ "X" \in Pressed(buttons)
    BY <2>0, When DEF X
  <2>3. L \in Seq(Op) /\ \A j \in DOMAIN L : L[j] = SaveBattery /\ Edge(buttons, "L")
    BY <2>0, When DEF L
  <2>4. R \in Seq(Op) /\ \A j \in DOMAIN R : R[j] = ReloadBattery /\ Edge(buttons, "R")
    BY <2>0, When DEF R
  <2> QED BY <2>1, <2>2, <2>3, <2>4
<1> HIDE DEF Y, X, L, R
<1>3. Hotkeys(buttons) = Y \o X \o L \o R
  BY <1>1
<1>4. i \in 1 .. Len(Y) + Len(X) + Len(L) + Len(R)
  <2>1. Y \o X \o L \o R \in Seq(Op) /\ Len(Y \o X \o L \o R) = Len(Y) + Len(X) + Len(L) + Len(R)
    BY <1>2, ConcatProperties
  <2> QED BY <1>3, <2>1
<1>5. CASE i \in 1 .. Len(Y)
  <2>1. Hotkeys(buttons)[i] = Y[i] /\ i \in DOMAIN Y
    BY <1>2, <1>3, <1>5
  <2> QED BY <1>2, <2>1
<1>6. CASE i \in Len(Y) + 1 .. Len(Y) + Len(X)
  <2>1. Hotkeys(buttons)[i] = X[i - Len(Y)] /\ i - Len(Y) \in DOMAIN X
    BY <1>2, <1>3, <1>6
  <2> QED BY <1>2, <2>1
<1>7. CASE i \in Len(Y) + Len(X) + 1 .. Len(Y) + Len(X) + Len(L)
  <2> DEFINE j == i - (Len(Y) + Len(X))
  <2>1. Hotkeys(buttons)[i] = L[j] /\ j \in DOMAIN L
    BY <1>2, <1>3, <1>7
  <2> QED BY <1>2, <2>1
<1>8. CASE i > Len(Y) + Len(X) + Len(L)
  <2> DEFINE j == i - (Len(Y) + Len(X) + Len(L))
  <2>1. Hotkeys(buttons)[i] = R[j] /\ j \in DOMAIN R
    BY <1>2, <1>3, <1>4, <1>8
  <2> QED BY <1>2, <2>1
<1>9. /\ Len(Y) \in Nat /\ Len(X) \in Nat /\ Len(L) \in Nat /\ Len(R) \in Nat
  BY <1>2
<1> QED BY <1>4, <1>5, <1>6, <1>7, <1>8, <1>9

-------------------------------------------------------------------------------
(* What the loop remembers covers what was held, and nothing is left to do *)
(* when it polls.                                                          *)
Held ==
    /\ mode = "frame" => job = <<>>
    /\ pad \ Triggers \subseteq previous
    /\ pad \cap Triggers \subseteq triggers

LEMMA HeldInit == Init => Held
BY DEF Init, Held

LEMMA WorkHasJob == Work => job # <<>>
BY DEF Work, Operate, At, Serialize, OpenTemp, WriteTemp, RemoveOld, Rename, Load, Truncate,
       Fill, Start, Reload, Check, Collect, Erase, Copy, Restore, Unpack

LEMMA HeldStep == Held /\ [Next]_vars => Held'
<1> SUFFICES ASSUME Held, [Next]_vars PROVE Held'
  OBVIOUS
<1>1. CASE Boot
  BY <1>1 DEF Boot, Forget, Held
<1>2. CASE Frame
  <2>1. PICK buttons \in Pads :
          /\ mode' = Decision(buttons) /\ pad' = buttons
          /\ previous' = buttons \ Triggers /\ triggers' = Remembered(buttons)
    BY <1>2 DEF Frame
  <2>2. mode' # "frame"
    BY <2>1 DEF Decision
  <2> QED BY <2>1, <2>2 DEF Held, Remembered
<1>3. CASE Run
  BY <1>3 DEF Run, Held
<1>4. CASE Pause
  BY <1>4 DEF Pause, Forget, Held
<1>5. CASE Settings
  BY <1>5 DEF Settings, Forget, Held
<1>6. CASE Leave
  BY <1>6 DEF Leave, Held
<1>7. CASE Close
  BY <1>7 DEF Close, Off, Forget, Held
<1>8. CASE Work
  <2>1. UNCHANGED <<mode, previous, triggers, pad>>
    BY <1>8 DEF Work
  <2> QED BY <1>8, <2>1, WorkHasJob DEF Held
<1>9. CASE PowerCut
  BY <1>9 DEF PowerCut, Off, Forget, Held
<1>10. CASE UNCHANGED vars
  BY <1>10 DEF vars, filevars, Held
<1> QED BY <1>1, <1>2, <1>3, <1>4, <1>5, <1>6, <1>7, <1>8, <1>9, <1>10 DEF Next

\* A button or trigger that is down acts no second time, whatever is held with it.
LEMMA FrameActsOnce ==
  ASSUME Held, Frame, NEW b \in DOMAIN Triggering, b \in pad, NEW i \in DOMAIN job'
  PROVE  job'[i] # Triggering[b]
<1>1. PICK buttons \in Pads : job' = Hotkeys(buttons)
  BY DEF Frame
<1>2. \/ job'[i] = SaveState /\ "Y" \in Pressed(buttons)
      \/ job'[i] = LoadState /\ "X" \in Pressed(buttons)
      \/ job'[i] = SaveBattery /\ Edge(buttons, "L")
      \/ job'[i] = ReloadBattery /\ Edge(buttons, "R")
  BY <1>1, HotkeysAsked
<1>3. /\ "Y" \in pad => "Y" \notin Pressed(buttons)
      /\ "X" \in pad => "X" \notin Pressed(buttons)
      /\ "L" \in pad => ~Edge(buttons, "L")
      /\ "R" \in pad => ~Edge(buttons, "R")
  BY DEF Held, Pressed, Edge, Triggers
<1>4. /\ b \in {"Y", "X", "L", "R"}
      /\ Triggering["Y"] = SaveState /\ Triggering["X"] = LoadState
      /\ Triggering["L"] = SaveBattery /\ Triggering["R"] = ReloadBattery
  BY DEF Triggering
<1> QED BY <1>2, <1>3, <1>4, OperationsDiffer

\* handle_hotkeys(): a button or trigger acts once each time it goes down, for any
\* buttons held together in any order, through menus, sessions and power cuts.
THEOREM PressesActOnce == Spec => OncePerPress
<1>1. ASSUME Held, [Next]_vars
      PROVE  [mode = "frame" /\ mode' # "off" =>
               \A b \in DOMAIN Triggering :
                 b \in pad => \A i \in DOMAIN job' : job'[i] # Triggering[b]]_vars
  <2> SUFFICES ASSUME mode = "frame", mode' # "off", Next
               PROVE  \A b \in DOMAIN Triggering :
                        b \in pad => \A i \in DOMAIN job' : job'[i] # Triggering[b]
    BY <1>1
  <2>1. Frame
    <3>1. ~Boot /\ ~Run /\ ~Pause /\ ~Settings /\ ~Leave /\ ~Close
      BY DEF Boot, Run, Pause, Settings, Leave, Close
    <3>2. ~Work
      BY <1>1, WorkHasJob DEF Held
    <3>3. ~PowerCut
      BY DEF PowerCut, Off
    <3> QED BY <3>1, <3>2, <3>3 DEF Next
  <2> QED BY <1>1, <2>1, FrameActsOnce
<1> QED BY <1>1, HeldInit, HeldStep, PTL DEF Spec, OncePerPress

-------------------------------------------------------------------------------
(* The calls under way.  The files are as the call before the next one left   *)
(* them, whatever was cut off or failed before.                              *)
JobOK ==
    /\ job \in Seq(Seq(Calls))
    /\ \A i \in 1 .. Len(job) : Rest(job[i])
    /\ \A i \in 2 .. Len(job) : Operation(job[i])

FilesTyped ==
    /\ card \in [state : File \ {Empty}, temp : File, flash : File]
    /\ unit \in [1 .. Slots -> File]
    /\ buffer \in File /\ game \in Version

Phase ==
    /\ At("open") \/ At("write") => buffer.part = "whole"
    /\ At("write") => card.temp = Empty
    /\ At("remove") \/ At("rename") => card.temp = Torn \/ card.temp.part = "whole"
    /\ At("rename") => card.state = Missing
    /\ At("fill") /\ buffer # Missing => card.flash = Empty
    /\ At("unpack") => card.flash = Empty
    /\ At("erase") \/ At("copy") => buffer = card.flash /\ Collects(card.flash)
    /\ At("copy") => unit[Slot] = Missing

Filed == JobOK /\ FilesTyped /\ Phase

LEMMA Kinds ==
  /\ Missing \in File \ {Empty} /\ Torn \in File \ {Empty} /\ Empty \in File
  /\ \A v \in Version : Whole(v) \in File \ {Empty} /\ Whole(v).part = "whole" /\ Whole(v).v = v
  /\ Missing.part = "missing" /\ Empty.part = "empty" /\ Torn.part = "torn"
  /\ \A f \in File : f.v \in Version /\ (f.part = "whole" => f = Whole(f.v) /\ f # Empty)
  /\ Junk \in Version /\ 0 \in Version
<1>1. /\ Missing.part = "missing" /\ Empty.part = "empty" /\ Torn.part = "torn"
      /\ Missing.v = 0 /\ Empty.v = 0 /\ Torn.v = 0
      /\ \A v \in Version : Whole(v).part = "whole" /\ Whole(v).v = v
  BY DEF Missing, Empty, Torn, Whole
<1>2. Junk \in Version /\ 0 \in Version
  BY SaveFilesAssumption DEF Version, Junk
<1>3. Missing \in File /\ Torn \in File /\ Empty \in File /\ \A v \in Version : Whole(v) \in File
  BY DEF File
<1>4. ASSUME NEW f \in File
      PROVE  f.v \in Version /\ (f.part = "whole" => f = Whole(f.v) /\ f # Empty)
  <2>1. CASE f \in {Missing, Empty, Torn}
    BY <1>1, <1>2, <2>1
  <2>2. CASE \E v \in Version : f = Whole(v)
    BY <1>1, <2>2
  <2> QED BY <2>1, <2>2 DEF File
<1>5. Missing # Empty /\ Torn # Empty /\ \A v \in Version : Whole(v) # Empty
  <2>1. "missing" # "empty" /\ "torn" # "empty" /\ "whole" # "empty"
    OBVIOUS
  <2> QED BY <1>1, <2>1
<1> QED BY <1>1, <1>2, <1>3, <1>4, <1>5

LEMMA HeadCall ==
  ASSUME JobOK, job # <<>>
  PROVE  /\ Len(job) \in Nat /\ Len(job) > 0 /\ Head(job) = job[1]
         /\ Head(job) \in Seq(Calls) /\ Len(Head(job)) > 0 /\ Head(job) # <<>>
         /\ Head(Head(job)) = job[1][1] /\ Head(Head(job)) \in Calls
<1>1. job \in Seq(Seq(Calls)) /\ Len(job) \in Nat /\ Len(job) > 0
  BY EmptySeq DEF JobOK
<1>2. Head(job) = job[1] /\ 1 \in 1 .. Len(job)
  BY <1>1
<1>3. Rest(job[1])
  BY <1>2 DEF JobOK
<1>4. Head(job) \in Seq(Calls) /\ Len(Head(job)) > 0
  BY <1>2, <1>3 DEF Rest
<1>5. Head(Head(job)) = job[1][1] /\ Head(job) # <<>> /\ job[1][1] \in Calls
  BY <1>2, <1>4, ElementOfSeq
<1> QED BY <1>1, <1>2, <1>4, <1>5

LEMMA CallSlot ==
  ASSUME JobOK, At("erase") \/ At("copy")
  PROVE  Slot \in 1 .. Slots
<1>1. Head(Head(job)) \in Calls
  BY HeadCall DEF At
<1>2. \A name \in Plain : <<name>>[1] = name /\ name # "erase" /\ name # "copy"
  BY DEF Plain
<1>3. Head(Head(job)) \in {"erase", "copy"} \X (1 .. Slots)
  BY <1>1, <1>2 DEF Calls, At
<1> QED BY <1>3 DEF Slot

\* A call that is done or given up is followed by the next of its operation or by the
\* first of another.
LEMMA AbandonStep ==
  ASSUME JobOK, job # <<>>, Abandon
  PROVE  JobOK' /\ (job' # <<>> => Head(Head(job'))[1] \in First)
<1>1. /\ job \in Seq(Seq(Calls)) /\ job' \in Seq(Seq(Calls)) /\ Len(job') = Len(job) - 1
      /\ \A i \in 1 .. Len(job') : job'[i] = job[i + 1]
  BY HeadTailProperties DEF JobOK, Abandon
<1>2. Len(job) \in Nat /\ Len(job) > 0
  BY HeadCall
<1>3. ASSUME NEW i \in 1 .. Len(job') PROVE Operation(job'[i])
  <2>1. i + 1 \in 2 .. Len(job) /\ job'[i] = job[i + 1]
    BY <1>1, <1>2
  <2> QED BY <2>1 DEF JobOK
<1>4. JobOK'
  <2>1. \A i \in 1 .. Len(job') : Rest(job'[i])
    BY <1>3 DEF Operation
  <2>2. \A i \in 2 .. Len(job') : Operation(job'[i])
    BY <1>1, <1>2, <1>3
  <2> QED BY <1>1, <2>1, <2>2 DEF JobOK
<1>5. ASSUME job' # <<>> PROVE Head(Head(job'))[1] \in First
  <2>1. 1 \in 1 .. Len(job') /\ Head(job') = job'[1]
    BY <1>1, <1>5, EmptySeq
  <2>2. Operation(job'[1])
    BY <1>3, <2>1
  <2>3. Head(Head(job')) = job'[1][1]
    BY <2>1, <2>2 DEF Operation, Rest
  <2> QED BY <2>2, <2>3 DEF Operation
<1> QED BY <1>4, <1>5

LEMMA FinishStep ==
  ASSUME JobOK, job # <<>>, Finish
  PROVE  /\ JobOK'
         /\ job' # <<>> => \/ Head(Head(job'))[1] \in First
                           \/ Follows(Head(Head(job)), Head(Head(job')))
<1> DEFINE first == Head(job)
           left == Tail(first)
<1>0. /\ first = job[1] /\ first \in Seq(Calls) /\ Len(first) > 0 /\ first # <<>>
      /\ Head(first) = first[1] /\ Rest(first)
  <2>1. 1 \in 1 .. Len(job)
    BY HeadCall
  <2> QED BY <2>1, HeadCall DEF JobOK
<1>1. CASE Len(first) = 1
  BY <1>1, AbandonStep DEF Abandon, Finish
<1>2. CASE Len(first) # 1
  <2>1. /\ left \in Seq(Calls) /\ Len(left) = Len(first) - 1 /\ Len(left) > 0
        /\ \A i \in 1 .. Len(left) : left[i] = first[i + 1]
    <3>1. /\ Len(first) \in Nat /\ left \in Seq(Calls) /\ Len(left) = Len(first) - 1
          /\ \A i \in 1 .. Len(left) : left[i] = first[i + 1]
      BY <1>0, HeadTailProperties
    <3>2. Len(first) - 1 > 0
      <4>1. Len(first) \in Nat /\ Len(first) # 1 /\ Len(first) > 0
        BY <1>0, <1>2, <3>1, Zenon
      <4> HIDE DEF first
      <4> QED BY <4>1
    <3> HIDE DEF left
    <3> QED BY <3>1, <3>2
  <2>2. Rest(left)
    <3>1. ASSUME NEW i \in 1 .. Len(left) - 1 PROVE Follows(left[i], left[i + 1])
      <4>1. /\ i + 1 \in 1 .. Len(first) - 1
            /\ left[i] = first[i + 1] /\ left[i + 1] = first[(i + 1) + 1]
        BY <1>0, <2>1
      <4> QED BY <1>0, <4>1 DEF Rest
    <3> QED BY <2>1, <3>1 DEF Rest
  <2>3. Follows(first[1], left[1]) /\ Head(left) = left[1]
    <3>1. 1 \in 1 .. Len(first) - 1 /\ left[1] = first[1 + 1] /\ Head(left) = left[1]
      BY <1>0, <2>1
    <3> QED BY <1>0, <3>1 DEF Rest
  <2> HIDE DEF left
  <2> DEFINE one == <<left>>
             others == Tail(job)
  <2>4. /\ one \in Seq(Seq(Calls)) /\ Len(one) = 1 /\ one[1] = left
    BY <2>1
  <2>5. /\ others \in Seq(Seq(Calls)) /\ Len(others) = Len(job) - 1
        /\ \A i \in 1 .. Len(others) : others[i] = job[i + 1]
    BY HeadTailProperties DEF JobOK
  <2>6. job' = one \o others
    BY <1>2 DEF Finish, left
  <2> HIDE DEF one, others
  <2>7. /\ job' \in Seq(Seq(Calls)) /\ Len(job') = Len(job)
        /\ \A i \in 1 .. Len(job) : job'[i] = IF i = 1 THEN left ELSE job[i]
    <3>1. Len(job) \in Nat /\ Len(job) > 0
      BY HeadCall
    <3>2. /\ job' \in Seq(Seq(Calls)) /\ Len(job') = Len(one) + Len(others)
          /\ \A i \in 1 .. Len(one) + Len(others) :
               job'[i] = IF i <= Len(one) THEN one[i] ELSE others[i - Len(one)]
      <4>1. one \in Seq(Seq(Calls)) /\ others \in Seq(Seq(Calls))
        BY <2>4, <2>5, Zenon
      <4>2. /\ one \o others \in Seq(Seq(Calls)) /\ Len(one \o others) = Len(one) + Len(others)
            /\ \A i \in 1 .. Len(one) + Len(others) :
                 (one \o others)[i] = IF i <= Len(one) THEN one[i] ELSE others[i - Len(one)]
        BY <4>1, ConcatProperties
      <4> QED BY <2>6, <4>2, Zenon
    <3>3. ASSUME NEW i \in 1 .. Len(job), i # 1 PROVE others[i - 1] = job[i]
      <4>1. i - 1 \in 1 .. Len(others) /\ (i - 1) + 1 = i
        BY <3>1, <3>3, <2>5
      <4> QED BY <4>1, <2>5
    <3>4. Len(one) + Len(others) = Len(job)
      BY <2>4, <2>5, <3>1
    <3>5. ASSUME NEW i \in 1 .. Len(job)
          PROVE  job'[i] = IF i = 1 THEN left ELSE job[i]
      <4>1. job'[i] = IF i <= 1 THEN one[i] ELSE others[i - 1]
        BY <2>4, <3>2, <3>4
      <4>2. i <= 1 <=> i = 1
        BY <3>1
      <4> QED BY <2>4, <3>3, <4>1, <4>2, Zenon
    <3> QED BY <3>2, <3>4, <3>5, Zenon
  <2>8. JobOK'
    <3>1. \A i \in 1 .. Len(job') : Rest(job'[i])
      BY <2>2, <2>7 DEF JobOK
    <3>2. \A i \in 2 .. Len(job') : Operation(job'[i])
      BY <2>7 DEF JobOK
    <3> QED BY <2>7, <3>1, <3>2 DEF JobOK
  <2>9. Head(Head(job')) = left[1]
    <3>1. Len(job) \in Nat /\ Len(job) > 0
      BY HeadCall
    <3>2. Head(job') = left
      BY <2>7, <3>1
    <3> QED BY <2>3, <3>2
  <2> QED BY <1>0, <2>3, <2>8, <2>9
<1> QED BY <1>1, <1>2

LEMMA OperateMoves == Operate => job # <<>> /\ (Finish \/ Abandon)
BY DEF Operate, At, Serialize, OpenTemp, WriteTemp, RemoveOld, Rename, Load, Truncate,
       Fill, Start, Reload, Check, Collect, Erase, Copy, Restore, Unpack

LEMMA FirstPhase ==
  ASSUME job' # <<>> => Head(Head(job'))[1] \in First
  PROVE  Phase'
BY DEF Phase, At, First

\* What the next call may be after one that is done.
LEMMA Ahead ==
  ASSUME JobOK, NEW b, At(b), Finish, ~(job' # <<>> => Head(Head(job'))[1] \in First)
  PROVE  /\ At("open")' => b = "serialize"
         /\ At("write")' => b = "open"
         /\ At("remove")' => b = "write"
         /\ At("rename")' => b = "remove"
         /\ At("fill")' => b = "truncate"
         /\ At("unpack")' => b = "restore"
         /\ At("erase")' => b \in {"collect", "copy"}
         /\ At("copy")' => b = "erase" /\ Slot' = Slot
<1>1. Follows(Head(Head(job)), Head(Head(job'))) /\ Head(Head(job))[1] = b
  BY FinishStep DEF At
<1> QED BY <1>1 DEF Follows, At, Slot

LEMMA SaveStateSteps ==
  ASSUME Filed, Serialize \/ OpenTemp \/ WriteTemp \/ RemoveOld \/ Rename \/ Load
  PROVE  FilesTyped' /\ Phase'
<1>0. /\ JobOK /\ Phase /\ card \in [state : File \ {Empty}, temp : File, flash : File]
      /\ unit \in [1 .. Slots -> File] /\ buffer \in File /\ game \in Version
  BY DEF Filed, FilesTyped
<1>1. CASE Serialize
  <2>1. /\ At("serialize") /\ Finish /\ buffer' = Whole(game)
        /\ UNCHANGED <<card, unit, game>>
    BY <1>1 DEF Serialize
  <2>2. FilesTyped'
    BY <1>0, <2>1, Kinds DEF FilesTyped
  <2>3. ASSUME ~(job' # <<>> => Head(Head(job'))[1] \in First) PROVE Phase'
    BY <1>0, <2>1, <2>3, Ahead, Kinds DEF Phase
  <2> QED BY <2>2, <2>3, FirstPhase
<1>2. CASE OpenTemp
  <2>1. At("open") /\ UNCHANGED <<unit, game, buffer>>
    BY <1>2 DEF OpenTemp
  <2>2. CASE Finish /\ card' = [card EXCEPT !.temp = Empty]
    <3>1. FilesTyped'
      BY <1>0, <2>1, <2>2, Kinds DEF FilesTyped
    <3>2. ASSUME ~(job' # <<>> => Head(Head(job'))[1] \in First) PROVE Phase'
      <4>1. card'.temp = Empty /\ buffer'.part = "whole"
        BY <1>0, <2>1, <2>2 DEF Phase
      <4> QED BY <1>0, <2>1, <2>2, <3>2, <4>1, Ahead DEF Phase
    <3> QED BY <3>1, <3>2, FirstPhase
  <2>3. CASE Abandon /\ UNCHANGED card
    BY <1>0, <2>1, <2>3, AbandonStep, FirstPhase DEF FilesTyped, At
  <2> QED BY <1>2, <2>2, <2>3 DEF OpenTemp
<1>3. CASE WriteTemp
  <2>1. At("write") /\ UNCHANGED <<unit, game, buffer>> /\ buffer.part = "whole"
    BY <1>0, <1>3 DEF WriteTemp, Phase
  <2>2. CASE Finish /\ (card' = [card EXCEPT !.temp = buffer] \/ card' = [card EXCEPT !.temp = Torn])
    <3>1. FilesTyped'
      BY <1>0, <2>1, <2>2, Kinds DEF FilesTyped
    <3>2. ASSUME ~(job' # <<>> => Head(Head(job'))[1] \in First) PROVE Phase'
      <4>1. card'.temp = Torn \/ card'.temp.part = "whole"
        BY <1>0, <2>1, <2>2
      <4> QED BY <1>0, <2>1, <2>2, <3>2, <4>1, Ahead DEF Phase
    <3> QED BY <3>1, <3>2, FirstPhase
  <2>3. CASE Abandon /\ card' = [card EXCEPT !.temp = Missing]
    BY <1>0, <2>1, <2>3, AbandonStep, FirstPhase, Kinds DEF FilesTyped, At
  <2> QED BY <1>3, <2>2, <2>3 DEF WriteTemp
<1>4. CASE RemoveOld
  <2>1. /\ At("remove") /\ Finish /\ UNCHANGED <<unit, game, buffer>>
        /\ card' = [card EXCEPT !.state = Missing]
    BY <1>4 DEF RemoveOld
  <2>2. FilesTyped'
    BY <1>0, <2>1, Kinds DEF FilesTyped
  <2>3. ASSUME ~(job' # <<>> => Head(Head(job'))[1] \in First) PROVE Phase'
    <3>1. card'.state = Missing /\ (card'.temp = Torn \/ card'.temp.part = "whole")
      BY <1>0, <2>1 DEF Phase
    <3> QED BY <1>0, <2>1, <2>3, <3>1, Ahead DEF Phase
  <2> QED BY <2>2, <2>3, FirstPhase
<1>5. CASE Rename
  <2>1. /\ At("rename") /\ Finish /\ UNCHANGED <<unit, game, buffer>>
        /\ \/ card' = [card EXCEPT !.state = card.temp, !.temp = Missing]
           \/ card' = [card EXCEPT !.temp = Missing]
    BY <1>5 DEF Rename
  <2>2. card.temp \in File \ {Empty}
    BY <1>0, <2>1, Kinds DEF Phase
  <2>3. FilesTyped'
    <3>1. CASE card' = [card EXCEPT !.state = card.temp, !.temp = Missing]
      <4>1. card' \in [state : File \ {Empty}, temp : File, flash : File]
        BY <1>0, <2>2, <3>1, Kinds
      <4> QED BY <1>0, <2>1, <4>1 DEF FilesTyped
    <3>2. CASE card' = [card EXCEPT !.temp = Missing]
      BY <1>0, <2>1, <3>2, Kinds DEF FilesTyped
    <3> QED BY <2>1, <3>1, <3>2
  <2>4. ASSUME ~(job' # <<>> => Head(Head(job'))[1] \in First) PROVE Phase'
    BY <1>0, <2>1, <2>4, Ahead DEF Phase
  <2> QED BY <2>3, <2>4, FirstPhase
<1>6. CASE Load
  <2>1. /\ At("load") /\ Finish /\ UNCHANGED <<card, unit, buffer>>
        /\ game' = IF Loads(card.state) THEN card.state.v ELSE game
    BY <1>6 DEF Load
  <2>2. FilesTyped'
    BY <1>0, <2>1, Kinds DEF FilesTyped
  <2>3. ASSUME ~(job' # <<>> => Head(Head(job'))[1] \in First) PROVE Phase'
    BY <1>0, <2>1, <2>3, Ahead DEF Phase
  <2> QED BY <2>2, <2>3, FirstPhase
<1> QED BY <1>1, <1>2, <1>3, <1>4, <1>5, <1>6

LEMMA Read == \A f \in File : Contents(f) \subseteq Version
BY Kinds DEF Contents

LEMMA FlashSteps ==
  ASSUME Filed, Truncate \/ Fill \/ Start \/ Reload \/ Check
  PROVE  FilesTyped' /\ Phase'
<1>0. /\ JobOK /\ Phase /\ card \in [state : File \ {Empty}, temp : File, flash : File]
      /\ unit \in [1 .. Slots -> File] /\ buffer \in File /\ game \in Version
  BY DEF Filed, FilesTyped
<1>1. CASE Truncate
  <2>1. /\ At("truncate") /\ Finish /\ UNCHANGED <<unit, game>>
        /\ \/ buffer' = Missing /\ UNCHANGED card
           \/ buffer' = Whole(game) /\ card' = [card EXCEPT !.flash = Empty]
    BY <1>1 DEF Truncate
  <2>2. FilesTyped'
    BY <1>0, <2>1, Kinds DEF FilesTyped
  <2>3. ASSUME ~(job' # <<>> => Head(Head(job'))[1] \in First) PROVE Phase'
    <3>1. buffer' = Missing \/ card'.flash = Empty
      BY <1>0, <2>1
    <3> QED BY <1>0, <2>1, <2>3, <3>1, Ahead DEF Phase
  <2> QED BY <2>2, <2>3, FirstPhase
<1>2. CASE Fill
  <2>1. /\ At("fill") /\ Finish /\ UNCHANGED <<unit, game, buffer>>
        /\ \/ UNCHANGED card
           \/ card' = [card EXCEPT !.flash = buffer]
           \/ card' = [card EXCEPT !.flash = Torn]
    BY <1>2 DEF Fill
  <2>2. FilesTyped'
    BY <1>0, <2>1, Kinds DEF FilesTyped
  <2>3. ASSUME ~(job' # <<>> => Head(Head(job'))[1] \in First) PROVE Phase'
    BY <1>0, <2>1, <2>3, Ahead DEF Phase
  <2> QED BY <2>2, <2>3, FirstPhase
<1>3. CASE Start \/ Reload
  <2>1. /\ (At("start") \/ At("reload")) /\ Finish /\ UNCHANGED <<card, unit, buffer>>
        /\ game' \in {game} \cup Contents(card.flash)
    BY <1>3 DEF Start, Reload
  <2>2. FilesTyped'
    BY <1>0, <2>1, Read DEF FilesTyped
  <2>3. ASSUME ~(job' # <<>> => Head(Head(job'))[1] \in First) PROVE Phase'
    BY <1>0, <2>1, <2>3, Ahead DEF Phase
  <2> QED BY <2>2, <2>3, FirstPhase
<1>4. CASE Check
  <2>1. At("check") /\ UNCHANGED <<card, unit, game, buffer>>
    BY <1>4 DEF Check
  <2>2. FilesTyped'
    BY <1>0, <2>1 DEF FilesTyped
  <2>3. ASSUME Finish, ~(job' # <<>> => Head(Head(job'))[1] \in First) PROVE Phase'
    BY <1>0, <2>1, <2>3, Ahead DEF Phase
  <2>4. ASSUME Abandon PROVE Phase'
    BY <1>0, <2>1, <2>4, AbandonStep, FirstPhase DEF At
  <2> QED BY <1>4, <2>2, <2>3, <2>4, FirstPhase DEF Check
<1> QED BY <1>1, <1>2, <1>3, <1>4

\* A nonempty set of slots has a first one.
LEMMA FirstSlot ==
  ASSUME NEW S, S \subseteq 1 .. Slots, S # {}
  PROVE  (CHOOSE i \in S : \A j \in S : i =< j) \in S
<1>1. S \subseteq Nat
  OBVIOUS
<1>2. PICK x \in S : \A y \in S : ~(<<y, x>> \in OpToRel(<, Nat))
  <2>1. IsWellFoundedOn(OpToRel(<, Nat), Nat)
    BY NatLessThanWellFounded
  <2> QED BY <1>1, <2>1, WFMin, Zenon
<1>3. \A y \in S : x =< y
  <2> SUFFICES ASSUME NEW y \in S, ~(x =< y) PROVE FALSE
    OBVIOUS
  <2>1. x \in Nat /\ y \in Nat /\ y < x
    BY <1>1
  <2>2. <<y, x>> \in OpToRel(<, Nat)
    BY <2>1 DEF OpToRel
  <2> QED BY <2>2, <1>2
<1> QED BY <1>2, <1>3

LEMMA UnitSteps ==
  ASSUME Filed, Collect \/ Erase \/ Copy \/ Restore \/ Unpack
  PROVE  FilesTyped' /\ Phase'
<1>0. /\ JobOK /\ Phase /\ card \in [state : File \ {Empty}, temp : File, flash : File]
      /\ unit \in [1 .. Slots -> File] /\ buffer \in File /\ game \in Version
  BY DEF Filed, FilesTyped
<1>1. CASE Collect
  <2>1. At("collect") /\ UNCHANGED <<card, unit, game>>
    BY <1>1 DEF Collect
  <2>2. CASE Finish /\ buffer' = card.flash /\ Collects(card.flash)
    <3>1. FilesTyped'
      BY <1>0, <2>1, <2>2 DEF FilesTyped
    <3>2. ASSUME ~(job' # <<>> => Head(Head(job'))[1] \in First) PROVE Phase'
      BY <1>0, <2>1, <2>2, <3>2, Ahead DEF Phase
    <3> QED BY <3>1, <3>2, FirstPhase
  <2>3. CASE Abandon /\ UNCHANGED buffer
    BY <1>0, <2>1, <2>3, AbandonStep, FirstPhase DEF FilesTyped, At
  <2> QED BY <1>1, <2>2, <2>3 DEF Collect
<1>2. CASE Erase
  <2>1. /\ At("erase") /\ Finish /\ UNCHANGED <<card, game, buffer>>
        /\ unit' = [unit EXCEPT ![Slot] = Missing]
    BY <1>2 DEF Erase
  <2>2. FilesTyped'
    BY <1>0, <2>1, Kinds DEF FilesTyped
  <2>3. ASSUME ~(job' # <<>> => Head(Head(job'))[1] \in First) PROVE Phase'
    <3>1. Slot \in 1 .. Slots /\ unit'[Slot] = Missing
      BY <1>0, <2>1, CallSlot
    <3>2. buffer' = card'.flash /\ Collects(card'.flash)
      BY <1>0, <2>1 DEF Phase
    <3> QED BY <1>0, <2>1, <2>3, <3>1, <3>2, Ahead DEF Phase
  <2> QED BY <2>2, <2>3, FirstPhase
<1>3. CASE Copy
  <2>1. /\ At("copy") /\ Finish /\ UNCHANGED <<card, game, buffer>>
        /\ unit' \in {unit, [unit EXCEPT ![Slot] = buffer], [unit EXCEPT ![Slot] = Torn]}
    BY <1>3 DEF Copy
  <2>2. FilesTyped'
    BY <1>0, <2>1, Kinds DEF FilesTyped
  <2>3. ASSUME ~(job' # <<>> => Head(Head(job'))[1] \in First) PROVE Phase'
    <3>1. buffer' = card'.flash /\ Collects(card'.flash)
      BY <1>0, <2>1 DEF Phase
    <3> QED BY <1>0, <2>1, <2>3, <3>1, Ahead DEF Phase
  <2> QED BY <2>2, <2>3, FirstPhase
<1>4. CASE Restore
  <2>1. At("restore") /\ UNCHANGED <<unit, game>>
    BY <1>4 DEF Restore
  <2>2. CASE Finish /\ buffer' \in File /\ card' = [card EXCEPT !.flash = Empty]
    <3>1. FilesTyped'
      BY <1>0, <2>1, <2>2, Kinds DEF FilesTyped
    <3>2. ASSUME ~(job' # <<>> => Head(Head(job'))[1] \in First) PROVE Phase'
      <4>1. card'.flash = Empty
        BY <1>0, <2>2
      <4> QED BY <1>0, <2>1, <2>2, <3>2, <4>1, Ahead DEF Phase
    <3> QED BY <3>1, <3>2, FirstPhase
  <2>3. CASE Abandon /\ UNCHANGED <<buffer, card>>
    BY <1>0, <2>1, <2>3, AbandonStep, FirstPhase DEF FilesTyped, At
  <2>4. \/ Finish /\ buffer' \in File /\ card' = [card EXCEPT !.flash = Empty]
        \/ Abandon /\ UNCHANGED <<buffer, card>>
    <3> DEFINE usable(short) == {i \in 1 .. Slots : Usable(unit[i], short)}
               taken(short) == CHOOSE i \in usable(short) : \A j \in usable(short) : i =< j
    <3>1. PICK short \in BOOLEAN :
            \/ usable(short) # {} /\ Finish /\ buffer' = unit[taken(short)]
               /\ card' = [card EXCEPT !.flash = Empty]
            \/ Abandon /\ UNCHANGED <<buffer, card>>
      BY <1>4, Zenon DEF Restore
    <3>2. usable(short) # {} => taken(short) \in 1 .. Slots
      <4>1. usable(short) \subseteq 1 .. Slots
        OBVIOUS
      <4> HIDE DEF usable
      <4>2. usable(short) # {} => taken(short) \in usable(short)
        BY <4>1, FirstSlot
      <4> QED BY <4>1, <4>2
    <3> HIDE DEF taken, usable
    <3> QED BY <1>0, <3>1, <3>2
  <2> QED BY <2>2, <2>3, <2>4
<1>5. CASE Unpack
  <2>1. /\ At("unpack") /\ Finish /\ UNCHANGED <<unit, game, buffer>>
        /\ card' = [card EXCEPT !.flash = buffer] \/ card' = [card EXCEPT !.flash = Torn]
    BY <1>5 DEF Unpack
  <2>2. FilesTyped'
    BY <1>0, <2>1, Kinds DEF FilesTyped
  <2>3. ASSUME ~(job' # <<>> => Head(Head(job'))[1] \in First) PROVE Phase'
    BY <1>0, <2>1, <2>3, Ahead DEF Phase
  <2> QED BY <2>2, <2>3, FirstPhase
<1> QED BY <1>1, <1>2, <1>3, <1>4, <1>5

LEMMA OperateFiled == Filed /\ Operate => Filed'
<1> SUFFICES ASSUME Filed, Operate PROVE Filed'
  OBVIOUS
<1>1. JobOK'
  BY OperateMoves, FinishStep, AbandonStep DEF Filed
<1>2. FilesTyped' /\ Phase'
  BY SaveStateSteps, FlashSteps, UnitSteps DEF Operate
<1> QED BY <1>1, <1>2 DEF Filed

\* Whatever the loop starts is a whole operation.
LEMMA HotkeysOperations ==
  ASSUME NEW buttons
  PROVE  /\ Hotkeys(buttons) \in Seq(Seq(Calls))
         /\ \A i \in 1 .. Len(Hotkeys(buttons)) : Operation(Hotkeys(buttons)[i])
<1> DEFINE when(condition, operation) == IF condition THEN <<operation>> ELSE <<>>
           Y == when("Y" \in Pressed(buttons), SaveState)
           X == when("X" \in Pressed(buttons), LoadState)
           L == when(Edge(buttons, "L"), SaveBattery)
           R == when(Edge(buttons, "R"), ReloadBattery)
<1>1. /\ SaveState \in Seq(Calls) /\ LoadState \in Seq(Calls)
      /\ SaveBattery \in Seq(Calls) /\ ReloadBattery \in Seq(Calls)
  BY OperationsWhole DEF Operation, Rest
<1>2. Hotkeys(buttons) = IF "Start" \notin buttons THEN <<>> ELSE Y \o X \o L \o R
  BY DEF Hotkeys
<1>3. /\ Y \in Seq(Seq(Calls)) /\ X \in Seq(Seq(Calls))
      /\ L \in Seq(Seq(Calls)) /\ R \in Seq(Seq(Calls))
  <2> HIDE DEF Y, X, L, R
  <2>1. Y \in Seq(Seq(Calls))
    BY <1>1, When DEF Y
  <2>2. X \in Seq(Seq(Calls))
    BY <1>1, When DEF X
  <2>3. L \in Seq(Seq(Calls))
    BY <1>1, When DEF L
  <2>4. R \in Seq(Seq(Calls))
    BY <1>1, When DEF R
  <2> QED BY <2>1, <2>2, <2>3, <2>4
<1> HIDE DEF Y, X, L, R
<1>4. Hotkeys(buttons) \in Seq(Seq(Calls))
  BY <1>2, <1>3, ConcatProperties
<1>5. ASSUME NEW i \in 1 .. Len(Hotkeys(buttons)) PROVE Operation(Hotkeys(buttons)[i])
  <2>1. i \in DOMAIN Hotkeys(buttons)
    BY <1>4, LenProperties
  <2>2. Hotkeys(buttons)[i] \in {SaveState, LoadState, SaveBattery, ReloadBattery}
    BY <2>1, HotkeysAsked
  <2> QED BY <2>2, OperationsWhole
<1> QED BY <1>4, <1>5

LEMMA Started ==
  ASSUME NEW operations \in Seq(Seq(Calls)), job' = operations,
         \A i \in 1 .. Len(operations) : Operation(operations[i])
  PROVE  JobOK' /\ Phase'
<1>1. JobOK'
  <2>1. Len(operations) \in Nat
    OBVIOUS
  <2>2. \A i \in 2 .. Len(operations) : i \in 1 .. Len(operations)
    BY <2>1
  <2>3. \A i \in 1 .. Len(operations) : Rest(operations[i])
    BY DEF Operation
  <2> QED BY <2>2, <2>3 DEF JobOK
<1>2. ASSUME job' # <<>> PROVE Head(Head(job'))[1] \in First
  <2>1. 1 \in 1 .. Len(job') /\ Head(job') = job'[1]
    BY <1>2, EmptySeq
  <2>2. Operation(job'[1])
    BY <2>1
  <2>3. Head(Head(job')) = job'[1][1]
    BY <2>1, <2>2 DEF Operation, Rest
  <2> QED BY <2>2, <2>3 DEF Operation
<1> QED BY <1>1, <1>2, FirstPhase

\* A list of whole operations.
Operations(list) ==
    list \in Seq(Seq(Calls)) /\ \A i \in 1 .. Len(list) : Operation(list[i])

LEMMA Lists ==
  /\ Operations(<<>>)
  /\ \A a : Operation(a) => Operations(<<a>>)
  /\ \A a, b : Operation(a) /\ Operation(b) => Operations(<<a, b>>)
  /\ \A p, q : Operations(p) /\ Operations(q) => Operations(p \o q)
  /\ \A p : Operations(p) /\ job' = p => JobOK' /\ Phase'
<1>1. Operations(<<>>)
  <2>1. <<>> \in Seq(Seq(Calls)) /\ Len(<<>>) = 0 /\ 1 .. 0 = {}
    BY EmptySeq
  <2> QED BY <2>1, Zenon DEF Operations
<1>2. ASSUME NEW a, Operation(a) PROVE Operations(<<a>>)
  <2>1. a \in Seq(Calls)
    BY <1>2 DEF Operation, Rest
  <2>2. <<a>> \in Seq(Seq(Calls)) /\ Len(<<a>>) = 1 /\ <<a>>[1] = a
    BY <2>1
  <2>3. \A i \in 1 .. Len(<<a>>) : <<a>>[i] = a
    BY <2>2
  <2> QED BY <1>2, <2>2, <2>3, Zenon DEF Operations
<1>3. ASSUME NEW a, NEW b, Operation(a), Operation(b) PROVE Operations(<<a, b>>)
  <2>1. a \in Seq(Calls) /\ b \in Seq(Calls)
    BY <1>3 DEF Operation, Rest
  <2>2. /\ <<a, b>> \in Seq(Seq(Calls)) /\ Len(<<a, b>>) = 2
        /\ <<a, b>>[1] = a /\ <<a, b>>[2] = b
    BY <2>1
  <2>3. \A i \in 1 .. Len(<<a, b>>) : <<a, b>>[i] \in {a, b}
    BY <2>2
  <2> QED BY <1>3, <2>2, <2>3, Zenon DEF Operations
<1>4. ASSUME NEW p, NEW q, Operations(p), Operations(q) PROVE Operations(p \o q)
  <2>1. p \in Seq(Seq(Calls)) /\ q \in Seq(Seq(Calls)) /\ Len(p) \in Nat /\ Len(q) \in Nat
    BY <1>4 DEF Operations
  <2>2. /\ p \o q \in Seq(Seq(Calls)) /\ Len(p \o q) = Len(p) + Len(q)
        /\ \A i \in 1 .. Len(p) + Len(q) : (p \o q)[i] = IF i <= Len(p) THEN p[i] ELSE q[i - Len(p)]
    BY <2>1, ConcatProperties
  <2>3. ASSUME NEW i \in 1 .. Len(p) + Len(q) PROVE Operation((p \o q)[i])
    <3>1. CASE i <= Len(p)
      <4>1. i \in 1 .. Len(p) /\ (p \o q)[i] = p[i]
        BY <2>1, <2>2, <3>1
      <4> QED BY <1>4, <4>1 DEF Operations
    <3>2. CASE ~(i <= Len(p))
      <4>1. i - Len(p) \in 1 .. Len(q) /\ (p \o q)[i] = q[i - Len(p)]
        BY <2>1, <2>2, <3>2
      <4> QED BY <1>4, <4>1 DEF Operations
    <3> QED BY <3>1, <3>2
  <2> QED BY <2>2, <2>3 DEF Operations
<1>5. ASSUME NEW p, Operations(p), job' = p PROVE JobOK' /\ Phase'
  BY <1>5, Started DEF Operations
<1> QED BY <1>1, <1>2, <1>3, <1>4, <1>5

LEMMA Nothing ==
  ASSUME job' = <<>>
  PROVE  JobOK' /\ Phase'
BY Lists

LEMMA LoopOperations ==
  /\ Boot => JobOK' /\ Phase'
  /\ Pause => JobOK' /\ Phase'
  /\ Leave => JobOK' /\ Phase'
<1> USE OperationsWhole
<1>1. ASSUME Boot PROVE JobOK' /\ Phase'
  <2>1. PICK last \in {<<>>, <<LoadState>>} : job' = <<LoadGame, FlashRead>> \o last
    BY <1>1 DEF Boot
  <2>2. Operations(last) /\ Operations(<<LoadGame, FlashRead>>)
    BY Lists
  <2>3. Operations(<<LoadGame, FlashRead>> \o last)
    BY <2>2, Lists
  <2> QED BY <2>1, <2>3, Lists
<1>2. ASSUME Pause PROVE JobOK' /\ Phase'
  <2>1. job' \in {<<>>, <<SaveState>>, <<LoadState>>}
    BY <1>2 DEF Pause
  <2>2. Operations(job')
    BY <2>1, Lists
  <2> QED BY <2>2, Lists
<1>3. ASSUME Leave PROVE JobOK' /\ Phase'
  <2>1. PICK last \in {<<>>, <<Mirror>>} : job' = <<Commit>> \o last
    BY <1>3 DEF Leave
  <2>2. Operations(last) /\ Operations(<<Commit>>)
    BY Lists
  <2>3. Operations(<<Commit>> \o last)
    BY <2>2, Lists
  <2> QED BY <2>1, <2>3, Lists
<1> QED BY <1>1, <1>2, <1>3

LEMMA FiledInit == Init => Filed
<1> SUFFICES ASSUME Init PROVE Filed
  OBVIOUS
<1>1. FilesTyped
  BY Kinds DEF Init, FilesInit, FilesTyped
<1>2. job = <<>> /\ <<>> \in Seq(Seq(Calls)) /\ Len(<<>>) = 0
  BY EmptySeq DEF Init, FilesInit
<1>3. JobOK
  BY <1>2 DEF JobOK
<1>4. Phase
  BY <1>2 DEF Phase, At
<1> QED BY <1>1, <1>3, <1>4 DEF Filed

\* A power cut leaves files of the kinds there are.
LEMMA CutTyped ==
  ASSUME Filed
  PROVE  /\ CutCard \subseteq [state : File \ {Empty}, temp : File, flash : File]
         /\ CutUnit \subseteq [1 .. Slots -> File]
<1>1. /\ card \in [state : File \ {Empty}, temp : File, flash : File]
      /\ unit \in [1 .. Slots -> File] /\ Torn \in File
  BY Kinds DEF Filed, FilesTyped
<1>2. /\ [card EXCEPT !.temp = Torn] \in [state : File \ {Empty}, temp : File, flash : File]
      /\ [card EXCEPT !.flash = Torn] \in [state : File \ {Empty}, temp : File, flash : File]
      /\ [unit EXCEPT ![Slot] = Torn] \in [1 .. Slots -> File]
  BY <1>1
<1> QED BY <1>1, <1>2 DEF CutCard, CutUnit

LEMMA FiledStep == Filed /\ [Next]_vars => Filed'
<1> SUFFICES ASSUME Filed, [Next]_vars PROVE Filed'
  OBVIOUS
<1>0. /\ card \in [state : File \ {Empty}, temp : File, flash : File]
      /\ unit \in [1 .. Slots -> File] /\ buffer \in File /\ game \in Version
      /\ Missing \in File /\ 0 \in Version
  BY Kinds DEF Filed, FilesTyped
<1>1. CASE Boot
  <2>1. FilesTyped'
    BY <1>0, <1>1 DEF Boot, FilesTyped
  <2> QED BY <1>1, <2>1, LoopOperations DEF Filed
<1>2. CASE Frame
  <2>1. FilesTyped'
    BY <1>0, <1>2 DEF Frame, FilesTyped
  <2>2. PICK buttons \in Pads : job' = Hotkeys(buttons)
    BY <1>2 DEF Frame
  <2>3. JobOK' /\ Phase'
    BY <2>2, HotkeysOperations, Started
  <2> QED BY <2>1, <2>3 DEF Filed
<1>3. CASE Run
  <2>1. job' = <<>> /\ buffer' = Missing /\ UNCHANGED <<card, unit>>
        /\ (game' = game \/ (game < MaxVersion /\ game' = game + 1))
    BY <1>3 DEF Run
  <2>2. game' \in Version
    BY <1>0, <2>1, SaveFilesAssumption DEF Version, Junk
  <2> QED BY <1>0, <2>1, <2>2, Nothing DEF FilesTyped, Filed
<1>4. CASE Pause
  <2>1. FilesTyped'
    BY <1>0, <1>4 DEF Pause, FilesTyped
  <2> QED BY <1>4, <2>1, LoopOperations DEF Filed
<1>5. CASE Settings
  BY <1>0, <1>5, Nothing DEF Settings, FilesTyped, Filed
<1>6. CASE Leave
  <2>1. FilesTyped'
    BY <1>0, <1>6 DEF Leave, FilesTyped
  <2> QED BY <1>6, <2>1, LoopOperations DEF Filed
<1>7. CASE Close
  BY <1>0, <1>7, Nothing DEF Close, Off, FilesTyped, Filed
<1>8. CASE Work
  BY <1>8, OperateFiled DEF Work
<1>9. CASE PowerCut
  BY <1>0, <1>9, Nothing, CutTyped DEF PowerCut, Off, FilesTyped, Filed
<1>10. CASE UNCHANGED vars
  <2>1. UNCHANGED <<card, unit, game, job, buffer>>
    BY <1>10 DEF vars, filevars
  <2> QED BY <2>1 DEF Filed, JobOK, FilesTyped, Phase, At, Slot
<1> QED BY <1>1, <1>2, <1>3, <1>4, <1>5, <1>6, <1>7, <1>8, <1>9, <1>10 DEF Next

\* The files, the running operation and the game's version keep their types, and what
\* each call of an operation relies on holds when it is made, whatever was cut off or
\* failed before (write_file_atomic(), flash_commit(), dc_vmu.c).
THEOREM FilesKept == Spec => []Filed
BY FiledInit, FiledStep, PTL DEF Spec

-------------------------------------------------------------------------------
(* What an operation can lose. *)

\* Only the calls on the copy and its target touch them.
LEMMA StateStep ==
  ASSUME Filed, Next, HasState, ~HasState'
  PROVE  \/ At("open") /\ card.state \in {Missing, Torn}
         \/ At("remove") /\ card.temp = Torn
         \/ At("rename") /\ Fails
<1>0. /\ Phase /\ card \in [state : File \ {Empty}, temp : File, flash : File]
      /\ buffer \in File
  BY DEF Filed, FilesTyped
<1>1. CASE UNCHANGED <<card.state, card.temp>>
  BY <1>1 DEF HasState
<1>2. CASE OpenTemp
  <2>1. card.state.part # "whole"
    BY <1>0, <1>2 DEF OpenTemp, HasState
  <2>2. \A f \in File \ {Empty} : f.part # "whole" => f \in {Missing, Torn}
    BY Kinds DEF File
  <2> QED BY <1>0, <1>2, <2>1, <2>2 DEF OpenTemp
<1>3. CASE WriteTemp
  <2>1. card.temp = Empty /\ buffer.part = "whole" /\ card.state.part = "whole"
    BY <1>0, <1>3, Kinds DEF WriteTemp, Phase, HasState
  <2> QED BY <1>0, <1>3, <2>1 DEF WriteTemp, HasState
<1>4. CASE RemoveOld
  <2>1. At("remove") /\ card'.temp = card.temp
    BY <1>0, <1>4 DEF RemoveOld
  <2> QED BY <1>0, <2>1 DEF Phase, HasState
<1>5. CASE Rename
  <2>1. At("rename") /\ card.temp.part = "whole"
    BY <1>0, <1>5, Kinds DEF Rename, Phase, HasState
  <2>2. CASE card' = [card EXCEPT !.state = card.temp, !.temp = Missing]
    BY <1>0, <2>1, <2>2 DEF HasState
  <2> QED BY <1>5, <2>1, <2>2 DEF Rename
<1>6. CASE PowerCut
  <2>1. card' \in CutCard
    BY <1>6 DEF PowerCut
  <2>2. CASE At("write") /\ card' = [card EXCEPT !.temp = Torn]
    <3>1. card.state.part = "whole" /\ card'.state = card.state
      BY <1>0, <2>2, Kinds DEF Phase, HasState
    <3> QED BY <3>1 DEF HasState
  <2>3. CASE card' = card \/ card' = [card EXCEPT !.flash = Torn]
    BY <1>0, <1>1, <2>3
  <2> QED BY <2>1, <2>2, <2>3 DEF CutCard
<1>7. CASE Boot \/ Frame \/ Run \/ Pause \/ Settings \/ Leave \/ Close
  BY <1>1, <1>7 DEF Boot, Frame, Run, Pause, Settings, Leave, Close
<1>8. CASE Serialize \/ Load \/ Start \/ Reload \/ Check \/ Collect \/ Erase \/ Copy
  BY <1>1, <1>8 DEF Serialize, Load, Start, Reload, Check, Collect, Erase, Copy
<1>9. CASE Truncate \/ Fill \/ Restore \/ Unpack
  <2>1. card' = card \/ \E f \in File : card' = [card EXCEPT !.flash = f]
    BY <1>0, <1>9, Kinds DEF Truncate, Fill, Restore, Unpack
  <2> QED BY <1>0, <1>1, <2>1
<1> QED BY <1>2, <1>3, <1>4, <1>5, <1>6, <1>7, <1>8, <1>9 DEF Next, Work, Operate

\* write_file_atomic(): for any game, any lengths of states and any number of failures,
\* the last state of a game is lost in the three ways of StateSurvives only.
THEOREM StatesSurvive == Spec => StateSurvives
<1>1. ASSUME Filed, [Next]_vars
      PROVE  [HasState /\ ~HasState' =>
                \/ At("open") /\ card.state \in {Missing, Torn}
                \/ At("remove") /\ card.temp = Torn
                \/ At("rename") /\ Fails]_vars
  BY <1>1, StateStep
<1> QED BY <1>1, FiledInit, FiledStep, PTL DEF Spec, StateSurvives

LEMMA BackupStep ==
  ASSUME Filed, Next, Copies # {}, Copies' = {}
  PROVE  \/ At("truncate") /\ unit' = unit
         \/ At("erase") /\ buffer \in {Torn, Whole(Junk)}
<1>0. /\ Phase /\ JobOK /\ card \in [state : File \ {Empty}, temp : File, flash : File]
      /\ unit \in [1 .. Slots -> File] /\ buffer \in File
  BY DEF Filed, FilesTyped
<1>1. \A f : f \in Copies <=> Good(f) /\ (f = card.flash \/ \E i \in 1 .. Slots : f = unit[i])
  BY DEF Copies
<1>2. /\ ~Good(card'.flash)
      /\ \A i \in 1 .. Slots : ~Good(unit'[i])
  BY DEF Copies
<1>3. ~Good(Empty) /\ ~Good(Missing) /\ ~Good(Torn)
  BY Kinds DEF Good
<1>4. PICK good \in Copies : TRUE
  OBVIOUS
\* A step that overwrites bad files only loses nothing.
<1>5. CASE /\ card'.flash = card.flash \/ ~Good(card.flash)
           /\ \A i \in 1 .. Slots : unit'[i] = unit[i] \/ ~Good(unit[i])
  BY <1>1, <1>2, <1>4, <1>5
<1>6. CASE Truncate
  BY <1>6 DEF Truncate
<1>7. CASE Fill
  <2>1. card' = card \/ card.flash = Empty
    BY <1>0, <1>7 DEF Fill, Phase
  <2>2. unit' = unit
    BY <1>7 DEF Fill
  <2> QED BY <1>3, <1>5, <2>1, <2>2
<1>8. CASE Erase
  <2>1. At("erase") /\ buffer = card.flash /\ Collects(buffer) /\ card' = card
    BY <1>0, <1>8 DEF Erase, Phase
  <2>2. ~Good(buffer)
    BY <1>2, <2>1
  <2>3. \A f \in File : Collects(f) /\ ~Good(f) => f \in {Torn, Whole(Junk)}
    BY Kinds DEF Collects, Good, File
  <2> QED BY <1>0, <2>1, <2>2, <2>3
<1>9. CASE Copy
  <2>1. At("copy") /\ card' = card
        /\ unit' \in {unit, [unit EXCEPT ![Slot] = buffer], [unit EXCEPT ![Slot] = Torn]}
    BY <1>9 DEF Copy
  <2>2. unit[Slot] = Missing
    BY <1>0, <2>1 DEF Phase
  <2>3. \A i \in 1 .. Slots : unit'[i] = unit[i] \/ i = Slot
    BY <1>0, <2>1
  <2> QED BY <1>3, <1>5, <2>1, <2>2, <2>3
<1>10. CASE Restore
  <2>1. unit' = unit /\ (card' = card \/ card.flash = Missing)
    BY <1>10 DEF Restore
  <2> QED BY <1>3, <1>5, <2>1
<1>11. CASE Unpack
  <2>1. unit' = unit /\ card.flash = Empty
    BY <1>0, <1>11 DEF Unpack, Phase
  <2> QED BY <1>3, <1>5, <2>1
<1>12. CASE OpenTemp \/ WriteTemp \/ RemoveOld \/ Rename
  <2>1. unit' = unit
    BY <1>12 DEF OpenTemp, WriteTemp, RemoveOld, Rename
  <2>2. card'.flash = card.flash
    BY <1>0, <1>12 DEF OpenTemp, WriteTemp, RemoveOld, Rename
  <2> QED BY <1>5, <2>1, <2>2
<1>13. CASE PowerCut
  <2>1. card' \in CutCard /\ unit' \in CutUnit
    BY <1>13 DEF PowerCut
  <2>2. card'.flash = card.flash \/ ~Good(card.flash)
    <3>1. CASE card' = [card EXCEPT !.temp = Torn]
      BY <1>0, <3>1
    <3>2. CASE (At("fill") /\ buffer # Missing) \/ At("unpack")
      BY <1>0, <1>3, <3>2 DEF Phase
    <3> QED BY <2>1, <3>1, <3>2 DEF CutCard
  <2>3. \A i \in 1 .. Slots : unit'[i] = unit[i] \/ ~Good(unit[i])
    <3>1. CASE At("copy") /\ unit' = [unit EXCEPT ![Slot] = Torn]
      <4>1. unit[Slot] = Missing
        BY <1>0, <3>1 DEF Phase
      <4> QED BY <1>0, <1>3, <3>1, <4>1
    <3> QED BY <2>1, <3>1 DEF CutUnit
  <2> QED BY <1>5, <2>2, <2>3
<1>14. CASE Boot \/ Frame \/ Run \/ Pause \/ Settings \/ Leave \/ Close
  <2>1. unit' = unit /\ card' = card
    BY <1>14 DEF Boot, Frame, Run, Pause, Settings, Leave, Close
  <2> QED BY <1>5, <2>1
<1>15. CASE Serialize \/ Load \/ Start \/ Reload \/ Check \/ Collect
  <2>1. unit' = unit /\ card' = card
    BY <1>15 DEF Serialize, Load, Start, Reload, Check, Collect
  <2> QED BY <1>5, <2>1
<1> QED BY <1>6, <1>7, <1>8, <1>9, <1>10, <1>11, <1>12, <1>13, <1>14, <1>15 DEF Next, Work, Operate

\* flash_commit(), dc_vmu.c: for any number of memory units, versions and failures, the
\* last complete battery save is lost in the two ways of BackupSurvives only.
THEOREM BackupsSurvive == Spec => BackupSurvives
<1>1. ASSUME Filed, [Next]_vars
      PROVE  [Copies # {} /\ Copies' = {} =>
                \/ At("truncate") /\ unit' = unit
                \/ At("erase") /\ buffer \in {Torn, Whole(Junk)}]_vars
  BY <1>1, BackupStep
<1> QED BY <1>1, FiledInit, FiledStep, PTL DEF Spec, BackupSurvives
===============================================================================
