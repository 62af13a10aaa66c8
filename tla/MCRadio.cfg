CONSTANTS
  Pdus = {p1, p2}
SPECIFICATION FairSpec
INVARIANTS
  DisabledOnEntry
  OnAirIntact
PROPERTIES
  SentOnce
  SendReturns
