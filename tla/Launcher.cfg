SPECIFICATION Spec
CONSTANTS
  MaxVersion = 2
  Length <- MCLength
  Slots = 1
  MaxFaults = 2
  Pads <- MCPads
PROPERTIES StateSurvives BackupSurvives OncePerPress QuitSaves
