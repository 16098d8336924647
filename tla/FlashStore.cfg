\* Three one-byte pages, the list and the block length never at their limit.
SPECIFICATION Saves
CONSTANTS
  Pristine = "o"
  Erased = "n"
  N = 3
  PageSize = 1
  LenMod = 4
  FLASH_MAX_BLOCKS = 3
  MaxPages = 2
  SectorStart = 1
  SectorLen = 2
  StatusAddrs <- MCStatus
  Values = {"o", "n"}
  Written = {"n"}
  Layouts <- MCLayouts
  Patterns = {1, 2}
  MaxFlash = 2
INVARIANTS
  TypeOK
  Covered
PROPERTIES
  FlashPersists
  StateRestoresFlash
  ReloadRestoresFile
  LoadRestores
  CutLoadsWholeVariables
  LoadEnds
