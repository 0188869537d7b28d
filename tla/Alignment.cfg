SPECIFICATION Spec
CONSTANTS
  Align = 1
  MinPercent = 67
  TolerancePercent = 34
  MaxSegments = 2
  MaxTime = 3
  MaxPackets = 4
  MaxSamples = 2
  MaxFrames = 2
INVARIANTS
  NearestIsClosest
  NoRaceFrameLost
  TailsExcluded
  GapsOfRaceOnly
  DamageFound
