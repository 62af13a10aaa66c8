CONSTANTS
  Chars = {a, b}
  Blank = Blank
  Size = 3
  MaxLen = 3
SPECIFICATION FairSpec
INVARIANTS
  NoOverlap
PROPERTIES
  ImplementsChannel
  NeverStalls
