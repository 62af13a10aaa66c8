CONSTANTS
  DataSize = 6
  BssSize = 5
  LENGTH = 20
  Words = {0, 1}
  Strong <- MCStrong
SPECIFICATION Spec
INVARIANTS
  TypeOK
  StaticsInitialised
  NeverParked
PROPERTY
  StackKept
