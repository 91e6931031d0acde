CONSTANTS
  Permit = {p1, p2, p3}
  Caller = {c1}
  Time <- MCTwoInstants
  PermitTTL = 1
  HalfOpenWait = FALSE
  MaxWait = 1
  Observed = FALSE
  TimeWindowed = FALSE
  WindowSize = 2
  BucketDuration = 1
  BucketCount = 2
  MinimumThroughput = 1
  Opening <- MCOpenOnFailure
  HalfOpen <- MCRequireBoth
  OpenDuration <- MCFixed
  Jitter = 0
  JitterSamples <- MCZeroSample
  MaxGeneration = 5
  MaxRejected = 1
VIEW MCTotalsView
SYMMETRY MCSymmetry
SPECIFICATION Spec
INVARIANTS
  TypeOK
  EpochDeterminesState
  ProbeAccounting
  ClosedBelowThreshold
  LifetimeAccounting
PROPERTIES
  HealthIsolation
  EpochStep
