CONSTANTS
  Ryu = ryu
  BeatThreads = {beat}
  PeerThreads = {}
  PpsLimit = 1
  FlowLimit = 1
  PktEvery = 2
  MaxAdds = 4
  MaxBlocks = 3
SPECIFICATION Spec
INVARIANT ChainVerifies
CHECK_DEADLOCK FALSE
