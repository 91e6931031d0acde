CONSTANTS
  DurationBits = 7
  MantissaBits = 4
  Durations <- MCDurations
  Multipliers <- MCMultipliers
  Jitters <- MCJitters
  MaxOpenings = 6
SPECIFICATION Spec
INVARIANT
  JitterOnlyShortens
