SPECIFICATION Spec
CONSTANTS
  LongHigh = 8192
  Fill = 118
  Scenes <- ParityScenes
PROPERTY
  WordParity
