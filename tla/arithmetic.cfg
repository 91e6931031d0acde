CONSTANTS
  DurationBits = 7
  MantissaBits = 4
  Durations <- MCDurations
  Multipliers <- MCMultipliers
  Jitters <- MCJitters
  MaxOpenings = 6
  WordBits = 5
  NanosecondsPerSecond = 7
SPECIFICATION ArithmeticSpec
INVARIANTS
  FloorExact
  IdentitiesExact
PROPERTY
  ScheduleGrows
