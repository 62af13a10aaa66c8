CONSTANTS
  Chars = {a}
  Blank = Blank
  Size = 3
  MaxLen = 2
  Reordering = FALSE
SPECIFICATION FairBootSpec
INVARIANTS
  BootTypeOK
  RecognisedIsFormed
PROPERTIES
  HealedIsChannel
  PauseHeals
