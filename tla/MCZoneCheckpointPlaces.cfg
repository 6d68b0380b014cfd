\* Three commands, two edits and a crash in any order.
SPECIFICATION Spec
CONSTANTS
  aa = aa  bb = bb  cc = cc  dd = dd  ss = ss  zero = zero
  Rec <- MCRec
  Text <- MCText
  Value <- MCValue
  FingerprintLines = 2
  Layouts <- MCLayouts
  Edits <- MCEdits
  HandPairs <- MCHandPairs
  MaxCommands = 3
  MaxEdits = 2
  MaxCrashes = 1
INVARIANT
  SeveralPlacesAreRefused
CHECK_DEADLOCK FALSE
