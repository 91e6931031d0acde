CONSTANTS
  WindowSize = 3
  MaxIgnored = 2
  BucketDuration = 2
  BucketCount = 2
  Instants <- MCInstants
  MaxAdds = 3
  DefaultCountWindowSize = 3
  DefaultMinimumThroughput = 2
  DefaultHalfOpenProbeCount = 2
  DefaultDuration = 2
  DefaultEventBuffer = 1
  MaxCountSize = 3
  MaxBucketCount = 2
  MaxHalfOpenProbes = 2
  MaxEventBuffer = 2
  MaxDuration = 7
  MaxNameBytes = 2
  MaxEdits = 3
SPECIFICATION PartsSpec
INVARIANTS
  AggregateMatchesRecount
  SnapshotMatchesHistory
  Buildable
  NamedFieldRepairs
PROPERTIES
  ImplementsSlidingWindow
  EveryConfigWorks
CHECK_DEADLOCK FALSE
