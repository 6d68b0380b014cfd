\* Sessions of two commands on every layout; the session is over at the bound.
SPECIFICATION Spec
CONSTANTS
  Rec <- MCRec
  Text <- MCText
  Value <- MCValue
  Zero <- MCZero
  Layouts <- MCLayouts
  Inputs <- MCInputs
  SlotInputs <- MCSlotInputs
  Ranges <- MCRanges
  MaxCommands = 2
INVARIANT
  TypeOK
PROPERTIES
  PeersKeepTheirLines
  EditedZoneReadsTheEdit
  RecordsKeepTheirValues
  SwapExchanges
CHECK_DEADLOCK FALSE
