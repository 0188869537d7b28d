SPECIFICATION Spec
CONSTANTS
  Builders = {b1, b2}
  Directories <- MCDirectories
  MaxPerShard = 2
INVARIANTS OneWriter DatasetComplete NoLeakage OneConfiguration
