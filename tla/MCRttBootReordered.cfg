CONSTANTS
  Chars = {a}
  Blank = Blank
  Size = 3
  MaxLen = 2
  Reordering = TRUE
SPECIFICATION BootSpec
INVARIANT
  RecognisedIsFormed
