SPECIFICATION BridgeFairSpec
CONSTANTS
  p1 = p1  c1 = c1  c2 = c2  a1 = a1  a2 = a2
  o1 = o1  o2 = o2  o3 = o3  u1 = u1
  NoObservation = NoObservation  NoRequest = NoRequest  NoCommand = NoCommand
  Devices <- OnePhone
  Commands <- OneCommand
  ActionIds <- OneAction
  Observations <- ThreeScreens
  Unsafe <- OnlyUnsafe
  MaxQueue = 1
  MaxRetries = 0
  ReportLifecycles <- NoLifecycle
  Durable = FALSE
  Phone = p1
  Retries = 0
  Capacity = 1
PROPERTIES
  PerformsApproved
  SlotIsEmptied
INVARIANTS
  DrainHandedOver
