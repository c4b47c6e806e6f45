CONSTANTS
  Peers = {p1}
  Slots = {a}
  Prompt = TRUE
  Ttl = 1
  Window = 2
  Grace = 2
  TrustMax = 2
  Gain = 1
  SigPenalty = 2
  MaxIdx = 4
  MaxGen = 1
  MaxReboots = 1
SPECIFICATION FairSpec
INVARIANT TypeOK
PROPERTIES NeverRollsBack ReplayMeansFell OfflineMeansSilent OfflineDetected RestartedPeerAccepted
