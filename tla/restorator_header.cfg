SPECIFICATION Spec
CONSTANTS
  Chars <- MCChars
  Blanks <- MCBlanks
  Words <- MCWords
  AiCommands <- MCAiCommands
  Pieces <- MCPieces
  MaxText = 4
  NullOpt = NullOpt
  CEnd = CEnd
CHECK_DEADLOCK TRUE
PROPERTY RecognizedIsConsumed
