SPECIFICATION Spec
CONSTANTS
  MaxAppends = 4
  MaxFailures = 1
  MaxCrashes = 2
INVARIANTS ManifestTrue StreamsAgree KillLosesNothing
  SidecarBehindBinary RecoveredReadable
