\* Two clients ask while commands rewrite the document.
SPECIFICATION ServeSpec
CONSTANTS
  aa = aa  bb = bb  unity = unity  zero = zero  dot = dot
  Rec <- MCRec
  Text <- MCText
  Value <- MCValue
  Numerals <- MCNumerals
  Worth <- MCWorth
  Client = {c1, c2}
  Documents <- MCDocuments
  Requests <- MCRequests
  Nought <- MCNought
  HexWord <- MCHexWord
  Short <- MCShort
  Numbered <- MCNumbered
  Foreign = {bb}
  Cors = TRUE
INVARIANTS
  ServeTypeOK
  ServerAnswersAsTheCommand
  EndpointsAgree
  OnlyAnInvertedZoneStopsIt
PROPERTIES
  EveryRequestIsAnswered
CHECK_DEADLOCK FALSE
