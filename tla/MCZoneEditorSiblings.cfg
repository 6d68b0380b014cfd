\* The later zones of the edited record.
SPECIFICATION Spec
CONSTANTS
  Rec <- MCRec
  Text <- MCText
  Value <- MCValue
  Zero <- MCZero
  Layouts <- MCLayouts
  Inputs <- MCInputs
  SlotInputs <- MCSlotInputs
  Ranges <- MCRanges
  MaxCommands = 1
PROPERTY
  EveryZoneStaysConsistent
CHECK_DEADLOCK FALSE
