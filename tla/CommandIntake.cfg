\* Two students, two commands in a window of two ticks, three latencies kept.
CONSTANTS
  Keys = {k1, k2}
  MaxEvents = 2
  Window = 2
  MaxTime = 3
  MaxRequests = 4
  MaxSamples = 3
SPECIFICATION IntakeSpec
SYMMETRY SameKeys
CHECK_DEADLOCK FALSE
INVARIANTS WindowLimit SnapshotIsOfRuns
PROPERTIES RefusedWhenFull
