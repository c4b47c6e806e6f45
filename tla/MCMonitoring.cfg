CONSTANTS
  Procs = {c1, c2}
  Watched = {c1}
  MaxEntries = 5
  MaxLost = 2
  Scale = 10
  Warmup = 3
  Rates = {1, 4, 20, 60}
  MaxSamples = 5
SPECIFICATION Spec
INVARIANTS TypeOK LinkedRunIsComplete SteadyTrafficIsQuiet SpikeIsFlagged RepeatIsQuiet
CHECK_DEADLOCK FALSE
