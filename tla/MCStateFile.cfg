CONSTANTS
  c1 = c1
  c2 = c2
  t1 = t1
  t2 = t2
  t3 = t3
  Writers <- MCWriters
  Threads <- MCThreads
  Owner <- MCOwner
  Heartbeats = {t1}
  Targets = {c1}
  Together <- MCTogether
  MaxSeq = 1
  MaxRewrites = 1
SPECIFICATION FairSpec
INVARIANTS TypeOK CalmFileIsWhole
PROPERTIES ImplementsDocument HeartbeatHeals
