CONSTANTS
  Permit <- MCPermits
  Caller = {c1, c2}
  Time <- MCFourInstants
  PermitTTL = 2
  HalfOpenWait = TRUE
  MaxWait = 2
  Observed = FALSE
  TimeWindowed = FALSE
  WindowSize = 1
  BucketDuration = 1
  BucketCount = 2
  MinimumThroughput = 1
  Opening <- MCOpening
  HalfOpen <- MCOneProbe
  OpenDuration <- MCOpenDuration
  Jitter = 0
  JitterSamples <- MCSamples
  MaxGeneration = 5
  MaxRejected = 4
  Outcomes <- MCOutcomes
  Modes <- MCModes
CHECK_DEADLOCK FALSE
SPECIFICATION AdmissionSpec
PROPERTIES
  WaitEnds
  NoEarlyTimeout
  AbsoluteDeadline
  Recovery
