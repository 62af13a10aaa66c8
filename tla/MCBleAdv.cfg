CONSTANTS
  Names <- MCNames
  DeviceAddrs <- MCDeviceAddrs
  Counters <- MCCounters
  hash <- Hash
SPECIFICATION Spec
INVARIANTS
  TypeOK
  ScannerReads
  ScriptAccepts
  HashesAgree
