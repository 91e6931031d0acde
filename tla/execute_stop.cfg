CONSTANTS
  Permit = {p1, p2, p3}
  Caller = {c1, c2}
  Time <- MCInstants
  PermitTTL = 1
  HalfOpenWait = TRUE
  MaxWait = 1
  Observed = FALSE
  TimeWindowed = FALSE
  WindowSize = 1
  BucketDuration = 1
  BucketCount = 2
  MinimumThroughput = 1
  Opening <- MCOpening
  HalfOpen <- MCHalfOpen
  OpenDuration <- MCOpenDuration
  Jitter = 0
  JitterSamples <- MCSamples
  MaxGeneration = 4
  MaxRejected = 100
  SlowCallDuration = 1
VIEW MCView
SYMMETRY MCSymmetry
SPECIFICATION ExecuteSpec
INVARIANT
  ProbesHeld
