\* Programs that write the priority registers themselves and re-enable
\* interrupts inside handlers; one register, one channel.
SPECIFICATION Spec
CONSTANTS
  Sources <- MCDirectSources
  SwiLatches = {0}
  Channels = {0}
  Levels <- MCDirectLevels
  Masks <- MCDirectMasks
  MaxCount = 1
  MaxFrames = 2
  HandlersMayEI = TRUE
  DirectWrites = TRUE
INVARIANTS
  MainlineServed
PROPERTIES
  LatchLeavesOnlyByService
