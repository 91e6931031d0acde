CONSTANTS
  Client = {a, b}
  Instant = {0, 1, 2}
  MaxDuration = 2
  MaxTimers = 3
  Capacity = 3
  MaxEvents = 8
SPECIFICATION BreakertestSpec
INVARIANTS
  TimersExact
  NotifiesInOrder
  RecorderExact
