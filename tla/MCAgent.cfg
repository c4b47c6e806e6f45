CONSTANTS
  Ryu = ryu
  BeatThreads = {other}
  PeerThreads = {other}
  PpsLimit = 0
  FlowLimit = 0
  PktEvery = 2
  MaxAdds = 4
  MaxBlocks = 3
SPECIFICATION FairSpec
INVARIANTS TypeOK TrimmingIsSafe HeadIsKnown NoFlushCountsTwice WindowIsChain TamperEvident
PROPERTIES CompromiseIsPublished ImplementsChain
CHECK_DEADLOCK FALSE
