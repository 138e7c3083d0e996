SPECIFICATION FairSpec
CONSTANTS
  d1 = d1   c1 = c1  c2 = c2  c3 = c3
  a1 = a1  a2 = a2  a3 = a3  o1 = o1  o2 = o2  u1 = u1
  NoObservation = NoObservation  NoRequest = NoRequest
  Devices <- OneDevice
  Commands <- TwoCommands
  ActionIds <- TwoActions
  Observations <- TwoScreens
  Unsafe <- NoneUnsafe
  MaxQueue = 2
  MaxRetries = 1
  ReportLifecycles <- NoLifecycle
  Durable = TRUE
PROPERTIES
  ImplementsDelivery
  EverySettles
