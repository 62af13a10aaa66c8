CONSTANTS
  Devices = {d1, d2}
  Keys = {k1, k2}
  KEY = k1
  None = None
  MaxCounter = 2
  MaxHeard = 1
SPECIFICATION Spec
SYMMETRY Alike
INVARIANTS
  ValidIsGenuine
PROPERTIES
  ValidCountersGrow
  OnlyReplaysRejected
