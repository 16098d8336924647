SPECIFICATION Spec
CONSTANTS
  LongHigh = 8192
  Fill = 118
  Scenes <- MCScenes
INVARIANTS
  TypeOK
  SoundProgramsSurvive
  MainProgramsSurvive
  IndexedLikePlain
PROPERTIES
  HandshakeDelivers
  ComparisonsDecide
