SPECIFICATION Spec
CONSTANTS
  d1 = d1   c1 = c1  c2 = c2  c3 = c3
  a1 = a1  a2 = a2  a3 = a3  o1 = o1  o2 = o2  u1 = u1
  NoObservation = NoObservation  NoRequest = NoRequest
  Devices <- OneDevice
  Commands <- OneCommand
  ActionIds <- OneAction
  Observations <- OneScreen
  Unsafe <- NoneUnsafe
  MaxQueue = 1
  MaxRetries = 1
  ReportLifecycles <- AnyLifecycle
  Durable = TRUE
PROPERTIES
  SettledNeverDispatched
