CONSTANTS
  Period = 3
  EventLimit = 4
  SlowTick = 7
  SlowEvent = 5
  Capacity = 1
  MaxEvents = 3
  a = a
  b = b
SPECIFICATION RunnerSpec
INVARIANT StopLatency
PROPERTIES DeliveredIsHandled ShutdownTerminates ModeInEffect EngineStops KeepsPolling
CHECK_DEADLOCK FALSE
