\* A transaction after a committed one, without faults.
SPECIFICATION Spec
CONSTANTS
  alice = alice
  bob = bob
  x = x
  y = y
  Client <- MCClient
  Managed <- MCManaged
  Op <- MCOp
  MaxBegins = 2
  MaxOps <- TwoEach
  MaxCuts = 0
INVARIANT
  StagedIsReplayable
CHECK_DEADLOCK FALSE
