SPECIFICATION Spec
CONSTANTS
  MaxAppends = 4
  MaxFailures = 1
  MaxCrashes = 2
INVARIANT RecoversEveryStream
