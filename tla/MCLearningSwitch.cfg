CONSTANTS
  h1 = h1
  h2 = h2
  c1 = c1
  c2 = c2
  f1 = f1
  f2 = f2
  Hosts <- MCHosts
  At <- MCAt
  Length = 2
  Controllers <- MCControllers
  Serves <- MCServes
  Frames <- MCFrames
  MaxFaults = 2
SYMMETRY Symmetry
SPECIFICATION Spec
INVARIANTS TypeOK TablesAreTrue NoFrameIsLost
CHECK_DEADLOCK FALSE
