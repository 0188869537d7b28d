SPECIFICATION Spec
CONSTANTS
  Capacity <- CapacityOne
  MaxFrames = 1
  SourceItems <- Items220
  MaxInterrupts = 0
INVARIANT NoDropUncounted
