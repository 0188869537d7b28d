SPECIFICATION SourcesSpec
CONSTANTS
  MaxFrames = 3
  Depth = 2
  Workers = 2
INVARIANTS
  ReleasedByOwner
  FramesDelivered
  StopIsPrompt
  OneSocket
  NothingLeftOpen
PROPERTY ClosingIsNoFault
