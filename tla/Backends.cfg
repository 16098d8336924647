SPECIFICATION Backends
CONSTANTS
  RING = 3
  Frames = {a, b}
  Silence = a
  Requests <- MCRequests
  MaxWrite = 3
  MaxWait = 2
  Blank = Blank
  Torn = Torn
  Pictures = {Blank, f1, f2, f3}
  Reverts = FALSE
INVARIANTS
  PvrTypeOK
  LatestIsComing
PROPERTIES
  StillFrameShows
  PlaysInOrder
  WriteReturns
  LosesOnlyAfterWait
  RepeatsNewest
