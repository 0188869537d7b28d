SPECIFICATION Spec
CONSTANTS
  Capacity <- CapacityOne
  MaxFrames = 1
  SourceItems <- Items002
  MaxInterrupts = 0
INVARIANT OverloadFaults
