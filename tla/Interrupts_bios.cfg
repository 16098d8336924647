\* Programs that follow the BIOS conventions: levels through INTLVSET, no
\* handler lowers its own mask; four sources sharing two registers, one channel.
SPECIFICATION Spec
CONSTANTS
  Sources <- MCBiosSources
  SwiLatches = {}
  Channels = {0}
  Levels <- MCBiosLevels
  Masks <- MCBiosMasks
  MaxCount = 2
  MaxFrames = 2
  HandlersMayEI = FALSE
  DirectWrites = FALSE
INVARIANTS
  TypeOK
  PreemptionByPriority
  CacheMirrorsPriority
  ArmedMeansCounting
PROPERTIES
  NoRequestSwallowed
