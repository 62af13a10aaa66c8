CONSTANTS
  CtrMod = 4
  LfHz = 1500
  ADV_INTERVAL_MS = 3
  ADV_INTERVAL_LOST_MS = 2
  ADV_JITTER_MAX_MS = 1
  RngBytes = {2, 7}
  CounterMod = 16
  MaxWork = 2
  MaxLag = 2
SPECIFICATION FairSpec
INVARIANTS
  TypeOK
  ClocksBeforeUse
  PollIsFresh
  IntervalMatchesLed
  HeartbeatCounts
PROPERTIES
  UsesRadio
  UsesRtc
  KeepsSchedule
  KeepsAdvertising
  ModeSettles
