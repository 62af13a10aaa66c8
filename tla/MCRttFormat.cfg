CONSTANTS
  Chars <- Letters
  Calls <- DocumentedCalls
  IntMin = 128
  DecTmp = 3
  HexTmp = 2
  Capacity = 4
SPECIFICATION Spec
INVARIANTS
  StaysInBounds
  TrimsTheEnd
PROPERTIES
  DocumentedOutput
