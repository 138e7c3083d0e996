SPECIFICATION BridgeSpec
CONSTANTS
  p1 = p1  c1 = c1  c2 = c2  a1 = a1  a2 = a2
  o1 = o1  o2 = o2  o3 = o3  u1 = u1
  NoObservation = NoObservation  NoRequest = NoRequest  NoCommand = NoCommand
  Devices <- OnePhone
  Commands <- TwoCommands
  ActionIds <- TwoActions
  Observations <- OneScreen
  Unsafe <- NoneUnsafe
  MaxQueue = 2
  MaxRetries = 1
  ReportLifecycles <- NoLifecycle
  Durable = TRUE
  Phone = p1
  Retries = 1
  Capacity = 2
SYMMETRY Symmetry
INVARIANTS
  BridgeTypeOK
  PerformedAtMostOnce
  RecordedHonestly
