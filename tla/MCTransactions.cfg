\* Two transactions, of three operations and of one, one interrupted write.
SPECIFICATION Spec
CONSTANTS
  alice = alice
  bob = bob
  x = x
  y = y
  Client <- MCClient
  Managed <- MCManaged
  Op <- MCOp
  MaxBegins = 2
  MaxOps <- MCMaxOps
  MaxCuts = 1
SYMMETRY Symmetry
INVARIANTS
  TypeOK
  ReplayReadsTheBatch
PROPERTIES
  StagingLocksOthersOut
  WriteAhead
CHECK_DEADLOCK FALSE
