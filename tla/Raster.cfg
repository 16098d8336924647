SPECIFICATION PictureAndSound
CONSTANTS
  HINT_RATE = 3
  MaxTick = 2
  SCREEN_HEIGHT = 4
  LineLimit = 8
  Periods <- MCPeriods
  ResetPeriod = 4
  Side = 2
  SCREEN_WIDTH = 5
  Programs <- MCPrograms
  LowUnit = 1
  HighUnit = 2
  Audible = 1
  NoisePeriods <- MCNoisePeriods
  ZeroPeriod = 3
  ShifterBits = 4
  MaxFrame = 6
  MaxTicks = 3
  Squares = {0, 1}
  Tunes <- MCTunes
INVARIANTS
  BlankMatchesLine
  WrittenIsShown
  EdgesInTime
PROPERTIES
  SettingsOncePerLine
  FrameEnds
  FrontmostWins
  RunsClockByClock
