CONSTANTS
  Writers = {w1, w2}
  Simulators = {w2}
  Cap = 2
  MaxAlerts = 3
  MaxResets = 1
SPECIFICATION FairSpec
INVARIANTS TypeOK ShownOnce CalmFileIsComplete
PROPERTY RecordedIsShown
