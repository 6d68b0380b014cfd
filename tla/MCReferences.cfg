\* One command, a move or a single write, and an undo after it.
SPECIFICATION RefsSpec
CONSTANTS
  aa = aa  bb = bb  cc = cc  dd = dd  ee = ee  ss = ss  zero = zero  nine = nine
  Rec <- MCRec
  Text <- MCText
  Value <- MCValue
  Zero <- MCZero
  Numerals <- MCNumerals
  ZeroNumeral <- MCZeroNumeral
  Layouts <- MCLayouts
  Inputs <- MCInputs
  SlotInputs <- MCSlotInputs
  Ranges <- MCRanges
  Sources <- MCSources
  Targets <- MCTargets
  MaxCommands = 1
INVARIANTS
  RefsTypeOK
  ClearedTextIsInUndo
PROPERTIES
  MovesAreOneEdit
  WrittenRefsReadBack
  StateCompareNamesTheTarget
CHECK_DEADLOCK FALSE
