\* Sessions of three operations; the session is over at the bound.
SPECIFICATION Spec
CONSTANTS
  Rec <- MCRec
  Text <- MCText
  Value <- MCValue
  Zero <- MCZero
  Layouts <- MCLayouts
  SlotInputs <- MCSlotInputs
  Ranges <- MCRanges
  HexLines <- MCHexLines
  DbLines <- MCDbLines
  Batches <- MCBatches
  Title <- MCTitle
  MaxSteps = 3
INVARIANTS
  TypeOK
  CopiesAgree
PROPERTY
  SessionsAreCommands
CHECK_DEADLOCK FALSE
