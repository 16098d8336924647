------------------------------ MODULE Drawing ------------------------------
(***************************************************************************)
(* What ngpgfx_draw() (mednafen/ngp/gfx.c) puts on the surface: at the end *)
(* of each visible line of Raster a line is composed of the window colour, *)
(* the background, two scroll planes and the sprites, for each column by a *)
(* depth.  The code has two copies of it, for the colour and for the mono  *)
(* mode, that find the columns of a tile in different ways.                *)
(*                                                                         *)
(* A colour is the place of the palette it is taken from, and not its      *)
(* value.  Coordinates are bytes like line numbers, so LineLimit is also   *)
(* the width and height of a scroll plane.                                 *)
(***************************************************************************)
EXTENDS Raster, Sequences

CONSTANTS
  Side,          \* rows and columns of a tile (8)
  SCREEN_WIDTH,  \* visible columns
  Programs       \* programs: the video memories and registers they write

ASSUME DrawingAssumption ==
  /\ Side \in Nat \ {0} /\ LineLimit % Side = 0
  /\ SCREEN_WIDTH \in 1..(LineLimit - Side) /\ SCREEN_HEIGHT <= LineLimit - Side

Coordinate == 0..(LineLimit - 1)
Places == {"WBA_H", "WBA_V", "WSI_H", "WSI_V", "S1SO_H", "S1SO_V", "S2SO_H", "S2SO_V", "PO_H", "PO_V"}
SpriteCells == [tile : Nat, hflip : BOOLEAN, vflip : BOOLEAN, pal : Nat, hi : BOOLEAN,
                x : Coordinate, y : Coordinate, priority : 0..3, xchain : BOOLEAN, ychain : BOOLEAN]

\* What a program writes is what the registers and the sprites can hold.
ASSUME ProgramsAssumption ==
  \A p \in Programs :
    /\ p.first.sprites \in Seq(SpriteCells)
    /\ \A w \in p.writes : "video" \in DOMAIN w => w.video.sprites \in Seq(SpriteCells)
    /\ \A w \in p.writes \cup {p.regs} :
         /\ \A r \in Places \cap DOMAIN w : w[r] \in Coordinate
         /\ "P_F" \in DOMAIN w => w.P_F \in BOOLEAN

VARIABLES
  regs,     \* the registers as written
  shown,    \* the copy the lines are drawn with
  video,    \* tiles, the cells of both planes, sprites
  surface,  \* the picture, a sequence of colours for each line
  program,  \* the program that runs (never changes)
  todo,     \* the writes it has still to do
  calm      \* history: frames completed since something was written, up to 2

drawingVars == <<regs, shown, video, surface, program, todo, calm>>

Sets == INSTANCE FiniteSetsExt

Columns == 0..(SCREEN_WIDTH - 1)
Visible == 0..(SCREEN_HEIGHT - 1)

-----------------------------------------------------------------------------

(* Fault: the second plane keeps its place. *)
Scroll2Kept == <<shown.scrollx[2], shown.scrolly[2]>>
Scroll2 == <<regs.S2SO_H, regs.S2SO_V>>
(* ngpgfx_delayed_settings() *)
DelayedSettings == [winx |-> regs.WBA_H, winy |-> regs.WBA_V, winw |-> regs.WSI_H, winh |-> regs.WSI_V,
                    scrollx |-> <<regs.S1SO_H, Scroll2[1]>>, scrolly |-> <<regs.S1SO_V, Scroll2[2]>>,
                    scrollsprx |-> regs.PO_H, scrollspry |-> regs.PO_V, planeSwap |-> regs.P_F,
                    bgc |-> regs.BG_COL, oowc |-> regs.OOWC, negative |-> regs.NEG]

(* Index in its palette of a place of a tile; the flips read it backwards. *)
Index(cell, row, column) ==
  LET Flipped(yes, n) == IF yes THEN Side - 1 - n ELSE n
  IN  video.tiles[cell.tile][Flipped(cell.vflip, row)][Flipped(cell.hflip, column)]

WindowEnd(s) == Sets!Min({s.winx + s.winw, SCREEN_WIDTH})
InWindow(s, n) == s.winy <= n /\ n < s.winy + s.winh

(* Fault: equal depths go before. *)
PlotLast(pixel, s, layer, palette, index, depth) ==
  IF index # 0 /\ depth >= pixel.depth THEN [colour |-> <<<<layer, palette, index>>, s.negative>>, depth |-> depth]
  ELSE pixel

(* The columns of a line do not disturb each other: a pixel is composed on  *)
(* its own, from its colour and its place in the zbuffer.  Equal depths     *)
(* stay behind, and the first colour of a palette is transparent.          *)
Plot(pixel, s, layer, palette, index, depth) ==
  IF index # 0 /\ depth > pixel.depth THEN [colour |-> <<<<layer, palette, index>>, s.negative>>, depth |-> depth]
  ELSE pixel

(* A layer has 16 palettes in colour and two in mono mode. *)
drawColourPattern(pixel, x, s, screenx, cell, row, layer, depth) ==
  LET first == IF screenx > LineLimit - Side THEN screenx - LineLimit ELSE screenx
      left  == Sets!Max({first, s.winx, 0})
      right == Sets!Min({first + Side - 1, WindowEnd(s) - 1})
  IN  IF x \in left..right THEN Plot(pixel, s, layer, cell.pal, Index(cell, row, x - first), depth) ELSE pixel
drawMonoPattern(pixel, x, s, screenx, cell, row, layer, depth) ==
  LET MonoPlot == {k \in 0..(Side - 1) : x = (screenx + k) % LineLimit /\ x >= s.winx /\ x < s.winx + s.winw}
  IN  IF MonoPlot # {} THEN Plot(pixel, s, layer, cell.hi, Index(cell, row, Sets!Max(MonoPlot)), depth) ELSE pixel
drawPattern(pixel, x, s, screenx, cell, row, layer, depth) ==
  IF regs.K2GE_MODE THEN drawMonoPattern(pixel, x, s, screenx, cell, row, layer, depth)
  ELSE drawColourPattern(pixel, x, s, screenx, cell, row, layer, depth)

(* draw_colour_scroll1() and its three copies. *)
Tile(pixel, x, s, p, depth, line, i) ==
  drawPattern(pixel, x, s, (i * Side - s.scrollx[p]) % LineLimit, video.planes[p][line \div Side][i], line % Side, p, depth)
draw_scroll(pixel, x, s, p, depth, n) ==
  LET drawn[i \in 0..(LineLimit \div Side)] ==
        IF i = 0 THEN pixel ELSE Tile(drawn[i - 1], x, s, p, depth, (n + s.scrolly[p]) % LineLimit, i - 1)
  IN  drawn[LineLimit \div Side]

(* A coordinate in the last tile's length before the border is negative.   *)
OffScreen(v) == IF v > LineLimit - Side /\ v < LineLimit THEN v - LineLimit ELSE v % LineLimit
(* A chained sprite is placed relative to the one before, drawn or not.    *)
Sprite(last, cell, x, s, n) ==
  LET sx  == cell.x + (IF cell.xchain THEN last.x ELSE 0)
      sy  == cell.y + (IF cell.ychain THEN last.y ELSE 0)
      top == OffScreen(sy + s.scrollspry)
  IN  [x |-> sx, y |-> sy,
       pixel |-> IF cell.priority # 0 /\ n \in top..(top + Side - 1)
                 THEN drawPattern(last.pixel, x, s, OffScreen(sx + s.scrollsprx) % LineLimit, cell, n - top,
                                  0, 2 * cell.priority)
                 ELSE last.pixel]
draw_sprites(pixel, x, s, n) ==
  LET drawn[k \in 0..Len(video.sprites)] ==
        IF k = 0 THEN [x |-> 0, y |-> 0, pixel |-> pixel] ELSE Sprite(drawn[k - 1], video.sprites[k], x, s, n)
  IN  drawn[Len(video.sprites)].pixel

(* Where the border of a line ends.  The mono copy counts the columns to   *)
(* the right of the window, but puts them down from where the left border  *)
(* ended: the background then covers some of them, and as many columns at  *)
(* the right keep whatever the buffer on the stack holds.                  *)
BorderEnd(s) == IF regs.K2GE_MODE THEN Sets!Min({s.winx, SCREEN_WIDTH}) + SCREEN_WIDTH - WindowEnd(s) ELSE SCREEN_WIDTH

(* A line before anything is drawn on it. *)
Ground(s, n, x) ==
  LET outside == <<<<"window", s.oowc>>, s.negative>>
      back    == IF regs.K2GE_MODE /\ ~s.bgc.on THEN "white" ELSE <<"back", s.bgc.colour>>
  IN  IF InWindow(s, n) /\ s.winx <= x /\ x < WindowEnd(s) THEN <<back, s.negative>>
      ELSE IF InWindow(s, n) /\ x >= BorderEnd(s) THEN "unwritten" ELSE outside

(* draw_scanline_colour() and draw_scanline_mono(): planes at depths 3 and *)
(* 5, sprites at 2, 4 and 6.                                               *)
draw_scanline(s, n) ==
  LET Pixel(x) ==
        LET ground == [colour |-> Ground(s, n, x), depth |-> 0]
            behind == draw_scroll(ground, x, s, IF s.planeSwap THEN 1 ELSE 2, 3, n)
            front  == draw_scroll(behind, x, s, IF s.planeSwap THEN 2 ELSE 1, 5, n)
        IN  draw_sprites(front, x, s, n).colour
  IN  [x \in Columns |-> IF InWindow(s, n) THEN Pixel(x) ELSE Ground(s, n, x)]

-----------------------------------------------------------------------------
Written == calm' = 0
Same == UNCHANGED <<regs, shown, video, surface, program, todo, calm>>

ResetRegs == [WBA_H |-> 0, WBA_V |-> 0, WSI_H |-> LineLimit - 1, WSI_V |-> LineLimit - 1, S1SO_H |-> 0, S1SO_V |-> 0,
              S2SO_H |-> 0, S2SO_V |-> 0, PO_H |-> 0, PO_V |-> 0, P_F |-> FALSE, BG_COL |-> [on |-> FALSE, colour |-> 7],
              OOWC |-> 0, NEG |-> FALSE, K2GE_MODE |-> FALSE]
(* The settings ngpgfx_reset() takes over, before reset_memory() turns the *)
(* background on and sets the mode of the game's header.                   *)
ResetSettings == [winx |-> 0, winy |-> 0, winw |-> LineLimit - 1, winh |-> LineLimit - 1, scrollx |-> <<0, 0>>,
                  scrolly |-> <<0, 0>>, scrollsprx |-> 0, scrollspry |-> 0, planeSwap |-> FALSE,
                  bgc |-> [on |-> FALSE, colour |-> 7], oowc |-> 0, negative |-> FALSE]
Started(mono) == [ResetRegs EXCEPT !.BG_COL = [on |-> TRUE, colour |-> 0], !.K2GE_MODE = mono]

(* A program is found with its first memory and registers written. *)
DrawingInit ==
  /\ Init
  /\ program \in Programs
  /\ video = program.first
  /\ regs = [r \in DOMAIN ResetRegs |-> IF r \in DOMAIN program.regs THEN program.regs[r] ELSE Started(program.mono)[r]]
  /\ shown = ResetSettings
  /\ surface = [n \in Visible |-> [x \in Columns |-> "unwritten"]]
  /\ todo = program.writes
  /\ calm = 0

(* ngpgfx_hint() and ngpgfx_draw(): the settings are taken over before the *)
(* line is drawn.                                                          *)
DrawEndOfLine(t) ==
  /\ EndOfLine(t)
  /\ shown' = IF TakesSettings THEN DelayedSettings ELSE shown
  /\ surface' = IF raster_line \in Visible THEN [surface EXCEPT ![raster_line] = draw_scanline(shown', raster_line)]
                ELSE surface
  /\ calm' = IF Blanks /\ calm < 2 THEN calm + 1 ELSE calm
  /\ UNCHANGED <<regs, video, program, todo>>

(* ngpgfx_write8(): of a register, and of the video memory as a whole. *)
Write(w) ==
  /\ emulating
  /\ todo' = todo \ {w} /\ Written
  /\ regs' = [r \in DOMAIN regs |-> IF r \in DOMAIN w THEN w[r] ELSE regs[r]]
  /\ video' = IF "video" \in DOMAIN w THEN w.video ELSE video
  /\ hint' = {}
  /\ UNCHANGED <<timer_hint, raster_line, SCREEN_PERIOD, BLNK, CONTROL_INT, emulating, copies, astray, shown, surface, program>>

(* ngpgfx_power() clears the video memory, reset_memory() then stores four *)
(* tiles that one game wants, left out here.                               *)
Cleared(v) ==
  LET cell == [tile |-> 0, hflip |-> FALSE, vflip |-> FALSE, pal |-> 0, hi |-> FALSE]
      sprite == [tile |-> 0, hflip |-> FALSE, vflip |-> FALSE, pal |-> 0, hi |-> FALSE,
                 x |-> 0, y |-> 0, priority |-> 0, xchain |-> FALSE, ychain |-> FALSE]
  IN  [tiles |-> [k \in DOMAIN v.tiles |-> [r \in 0..(Side - 1) |-> [c \in 0..(Side - 1) |-> 0]]],
       planes |-> [p \in 1..2 |-> [row \in DOMAIN v.planes[p] |-> [i \in DOMAIN v.planes[p][row] |-> cell]]],
       sprites |-> [k \in DOMAIN v.sprites |-> sprite]]
DrawReset ==
  /\ Reset
  /\ regs' = Started(program.mono) /\ shown' = ResetSettings
  /\ video' = Cleared(video)
  /\ Written
  /\ UNCHANGED <<surface, program, todo>>

DrawTick == \E t \in 1..MaxTick : (WithinLine(t) /\ Same) \/ DrawEndOfLine(t)
DrawingNext ==
  \/ DrawTick
  \/ StartFrame /\ Same
  \/ /\ program.busy
     /\ \/ \E p \in Periods : WritePeriod(p) /\ Same
        \/ \E S \in SUBSET {"vblank", "hblank"} : WriteControl(S) /\ Same
        \/ DrawReset
  \/ \E w \in todo : Write(w)

DrawingSpec == DrawingInit /\ [][DrawingNext]_<<vars, drawingVars>> /\ WF_vars(Tick)

-----------------------------------------------------------------------------
(* What a line should show, told for each column and not for each tile.    *)

(* Where the sprites are: chains add up from the first sprite or the last  *)
(* one that is not chained.                                                *)
Position(k, Chained(_), Of(_)) ==
  LET links == {j \in 1..k : \A i \in (j + 1)..k : Chained(video.sprites[i])}
  IN  Sets!SumFunctionOnSet([j \in 1..k |-> Of(video.sprites[j])], links)

(* A candidate is its depth, its rank among equal depths and its colour.   *)
Candidate(depth, rank, layer, cell, row, column) ==
  {c \in {<<depth, rank, <<layer, IF regs.K2GE_MODE THEN cell.hi ELSE cell.pal, Index(cell, row, column)>>>>} :
     c[3][3] # 0}
OfPlane(s, p, x, n) ==
  LET across == (x + s.scrollx[p]) % LineLimit
      down   == (n + s.scrolly[p]) % LineLimit
  IN  Candidate(IF (p = 1) = s.planeSwap THEN 3 ELSE 5, 0, p,
                video.planes[p][down \div Side][across \div Side], down % Side, across % Side)
(* A sprite that a chain carries over the lower border does not come back  *)
(* with its last rows above the upper one.                                 *)
OfSprite(s, k, x, n) ==
  LET cell == video.sprites[k]
      y    == Position(k, LAMBDA c : c.ychain, LAMBDA c : c.y) + s.scrollspry
      column == (x - Position(k, LAMBDA c : c.xchain, LAMBDA c : c.x) - s.scrollsprx) % LineLimit
      row  == (n - y) % LineLimit
      lost == y >= LineLimit /\ y % LineLimit > LineLimit - Side
  IN  IF cell.priority # 0 /\ column < Side /\ row < Side /\ ~lost
      THEN Candidate(2 * cell.priority, k, 0, cell, row, column) ELSE {}
Candidates(s, x, n) ==
  OfPlane(s, 1, x, n) \cup OfPlane(s, 2, x, n) \cup UNION {OfSprite(s, k, x, n) : k \in DOMAIN video.sprites}
Shown(s, n) ==
  [x \in Columns |->
     LET all == Candidates(s, x, n)
         front == {c \in all : \A d \in all : c[1] > d[1] \/ (c[1] = d[1] /\ c[2] <= d[2])}
         inside == InWindow(s, n) /\ x \in s.winx..(s.winx + s.winw - 1)
     IN  IF inside /\ front # {} THEN <<(CHOOSE c \in front : TRUE)[3], s.negative>> ELSE Ground(s, n, x)]

(* A line that is drawn shows in each column of the window the frontmost   *)
(* opaque pixel: planes and sprites in the order of their depths, the      *)
(* first sprite before later ones, whatever the scrolling, chains, flips   *)
(* and borders, in both modes (drawColourPattern, MonoPlot, the sprite     *)
(* loops of draw_scanline_colour and draw_scanline_mono).                  *)
FrontmostWins ==
  [][raster_line' # raster_line /\ raster_line \in Visible /\ ~Reset =>
       surface' = [surface EXCEPT ![raster_line] = Shown(shown', raster_line)]]_<<vars, drawingVars>>

(* The registers as settings. *)
AsWritten == [winx |-> regs.WBA_H, winy |-> regs.WBA_V, winw |-> regs.WSI_H, winh |-> regs.WSI_V,
              scrollx |-> <<regs.S1SO_H, regs.S2SO_H>>, scrolly |-> <<regs.S1SO_V, regs.S2SO_V>>,
              scrollsprx |-> regs.PO_H, scrollspry |-> regs.PO_V, planeSwap |-> regs.P_F,
              bgc |-> regs.BG_COL, oowc |-> regs.OOWC, negative |-> regs.NEG]

(* Once a second frame is complete since a program wrote the last of the   *)
(* registers and memory that pictures are made of, the screen shows what   *)
(* they say: no setting is left behind by the delayed copy, for every line *)
(* and wherever in a field it was written, also by fields of changing      *)
(* length, too short for the screen or run on past their end (ngpgfx_hint, *)
(* ngpgfx_draw, ngpgfx_delayed_settings).                                  *)
WrittenIsShown == calm = 2 => \A n \in Visible : surface[n] = Shown(AsWritten, n)
=============================================================================
