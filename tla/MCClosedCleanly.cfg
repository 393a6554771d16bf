\* A client that breaks while others are sent to.
SPECIFICATION Spec
CONSTANTS
  Fds = {4, 5, 6}
  MaxName = 2
  MaxDepth = 2
  Writes = 2
INVARIANT
  ClosedCleanly
