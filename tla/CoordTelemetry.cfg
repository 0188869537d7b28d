SPECIFICATION Spec
CONSTANTS
  Capacity <- CapacityMixed
  MaxFrames = 1
  SourceItems <- Items003
  MaxInterrupts = 1
INVARIANTS PublishedClean TelemetryLossless
PROPERTIES ImplementsSession
