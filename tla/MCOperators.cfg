\* One call of every conversion and comparison.
SPECIFICATION Spec
CONSTANTS
  aa = aa  bb = bb  unity = unity  zero = zero  dot = dot
  Rec <- MCRec
  Text <- MCText
  Value <- MCValue
  Numerals <- MCNumerals
  Worth <- MCWorth
  Literals <- MCLiterals
  Words <- MCWords
  TokenLists <- MCTokenLists
  Endings <- MCEndings
  TypedValues <- MCTypedValues
  SchemaFiles <- MCSchemaFiles
  SchemaNames <- MCSchemaNames
  Tables <- MCTables
  Texts <- MCTexts
  Patterns <- MCPatterns
  Sides <- MCDocuments
  Commands <- MCCommands
  CommandWords <- MCCommandWords
  Files <- MCFiles
  LoggedOps <- MCLoggedOps
  LoggedBatches <- MCLoggedBatches
INVARIANTS
  DecimalsCompareAsNumbers
  JsonKeepsTheNumber
  HexWordsReadBack
  LoggedEntriesReadBack
  CompactRefsHaveOneReading
  TypedValuesReadBack
  SchemasReadBack
  StarterSchemaAccepts
  MatchersAgree
  ReplaceMakesThemAlike
  CommandsFindTheirFile
CHECK_DEADLOCK FALSE
