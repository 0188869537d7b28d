SPECIFICATION FairSpec
CONSTANTS
  Capacity <- CapacityTwo
  MaxFrames = 1
  SourceItems <- Items300
  MaxInterrupts = 0
INVARIANTS OldestDropped Conserved EvictionsRecorded RequeueHasRoom
PROPERTY StopEndsSession
