SPECIFICATION Spec
CONSTANTS
  Chars <- MCChars
  Blanks <- MCBlanks
  Words <- MCWords
  AiCommands <- MCAiCommands
  Pieces <- MCPieces
  MaxText = 5
  NullOpt = NullOpt
  CEnd = CEnd
CHECK_DEADLOCK TRUE
INVARIANTS
  TypeOK
  NothingLost
  PassToUserIsFinal
  DetectionIsGenuine
  HeldBackIsShort
PROPERTY VerdictKept
