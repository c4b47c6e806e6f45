CONSTANTS
  Peers = {p1, p2}
  TrustMax = 5
  Gain = 1
  Penalty = 2
  Low = 2
  MaxCrashes = 2
  MaxGlitches = 1
SPECIFICATION FairSpec
INVARIANTS TypeOK RecordFollowsKeys RoundsSeldomFail
PROPERTIES SuspectsAreReported KeysDecideTrust
CHECK_DEADLOCK FALSE
