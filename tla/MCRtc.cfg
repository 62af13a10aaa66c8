CONSTANTS
  CounterMod = 16
  MinTicks = 4
  MaxTicks = 6
  MaxWork = 2
  MaxLag = 2
SPECIFICATION FairSpec
INVARIANTS
  TypeOK
  IntervalKept
  NoLostWakeup
  CompareNotMissed
PROPERTY
  SleepEnds
