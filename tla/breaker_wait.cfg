CONSTANTS
  Permit = {p1, p2, p3, p4}
  Caller = {c1, c2}
  Time <- MCTwoInstants
  PermitTTL = 1
  HalfOpenWait = TRUE
  MaxWait = 1
  Observed = FALSE
  TimeWindowed = FALSE
  WindowSize = 1
  BucketDuration = 1
  BucketCount = 2
  MinimumThroughput = 1
  Opening <- MCOpenOnFailure
  HalfOpen <- MCSampleTwo
  OpenDuration <- MCFixed
  Jitter = 0
  JitterSamples <- MCZeroSample
  MaxGeneration = 5
  MaxRejected = 100
VIEW MCWaitView
SYMMETRY MCSymmetry
SPECIFICATION Spec
INVARIANTS
  ProbeQuota
  NoProbeWedge
  NoLostWakeup
PROPERTY
  ImplementsCircuit
