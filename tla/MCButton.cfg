CONSTANTS
  CtrMod = 2
  LfHz = 1000
  ADV_INTERVAL_MS = 3
  ADV_INTERVAL_LOST_MS = 2
  ADV_JITTER_MAX_MS = 0
  RngBytes = {2, 7}
  CounterMod = 8
  MaxWork = 1
  MaxLag = 1
SPECIFICATION OwedSpec
PROPERTY
  EveryPressToggles
