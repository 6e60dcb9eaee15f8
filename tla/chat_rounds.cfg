SPECIFICATION Spec
CONSTANTS
  Chars <- LoopChars
  Blanks <- TextBlanks
  Words <- LoopWords
  Pieces <- LoopPieces
  MaxText = 1
  MaxRounds = 5
  NullOpt = NullOpt
  CEnd = CEnd
  NoCommand = NoCommand
CHECK_DEADLOCK TRUE
INVARIANT RepeatsAreStopped
