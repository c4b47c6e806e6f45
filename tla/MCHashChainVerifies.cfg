CONSTANTS
  Snapshots = {s1, s2}
  MaxBlocks = 3
  MaxHeight = 7
SPECIFICATION Spec
INVARIANT UntouchedVerifies
