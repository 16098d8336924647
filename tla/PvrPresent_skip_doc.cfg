SPECIFICATION PvrSpec
CONSTANTS
  Blank = Blank
  Torn = Torn
  Pictures = {Blank, f1, f2, f3}
  Reverts = TRUE
PROPERTIES
  SkipsOnlyRepeats
