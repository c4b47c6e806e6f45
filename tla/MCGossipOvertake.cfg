CONSTANTS
  Peers = {p1}
  Slots = {a, b}
  Prompt = FALSE
  Ttl = 1
  Window = 2
  Grace = 2
  TrustMax = 2
  Gain = 1
  SigPenalty = 2
  MaxIdx = 2
  MaxGen = 0
  MaxReboots = 0
SPECIFICATION Spec
PROPERTY NeverRollsBack
