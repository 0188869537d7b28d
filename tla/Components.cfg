SPECIFICATION PartsSpec
CONSTANTS
  Modulus = 32
  Interval = 4
  Tolerance = 1
  Jitter = 1
  Phase = 22
  MaxTicks = 6
  MaxPackets = 5
  Neutral = neutral
  Controls = {throttle}
  Reasons = {text, blank}
  Blank = {blank}
  FileRecords = 3
  FileBytes = 4
  FileTime = 2
  FileAppends = 4
  Callers = {caller1, caller2, caller3}
  MaxFrames = 2
  MaxFailures = 1
  ReplayTime = 1
  ReplayRecords = 2
  LapModulus = 4
  MaxLap = 3
  MaxRace = 1
  GameSteps = {1, 3}
  MaxFalls = 1
  LapPackets = 5
SYMMETRY CallerSymmetry
INVARIANTS
  WrapsCounted
  LossEstimated
  NeutralUnlessArmed
  AckedRecovered
  BytesRespected
  TornNeverExtended
  ClosedReadable
  FramesBounded
  ManifestKept
  ReplayFaithful
  StartJustified
  CandidatesAreWholeLaps
CHECK_DEADLOCK FALSE
