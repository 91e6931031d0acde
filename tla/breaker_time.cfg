CONSTANTS
  Permit = {p1, p2}
  Caller = {c1}
  Time <- MCThreeInstants
  PermitTTL = 1
  HalfOpenWait = FALSE
  MaxWait = 1
  Observed = TRUE
  TimeWindowed = TRUE
  WindowSize = 2
  BucketDuration = 1
  BucketCount = 2
  MinimumThroughput = 1
  Opening <- MCOpenOnSlowStreak
  HalfOpen <- MCOneProbe
  OpenDuration <- MCExponential
  Jitter = 50
  JitterSamples <- MCJitterSamples
  MaxGeneration = 5
  MaxRejected = 100
VIEW MCRejectionView
SYMMETRY MCSymmetry
SPECIFICATION RSpec
INVARIANTS
  OpenTiming
  GenerationFences
PROPERTIES
  RetryAtKept
