\* BIOS writes as long as the 16-bit block length.
SPECIFICATION Spec
CONSTANTS
  Pristine = "o"
  Erased = "n"
  N = 4
  PageSize = 1
  LenMod = 4
  FLASH_MAX_BLOCKS = 4
  MaxPages = 4
  SectorStart = 1
  SectorLen = 2
  StatusAddrs <- MCStatus
  Values = {"o", "n"}
  Written = {"n"}
PROPERTIES
  FlashPersists
