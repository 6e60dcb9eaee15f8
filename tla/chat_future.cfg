SPECIFICATION Spec
CONSTANTS
  Chars <- TextChars
  Blanks <- TextBlanks
  Words <- TextWords
  Pieces <- TextPieces
  MaxText = 2
  MaxRounds = 1
  NullOpt = NullOpt
  CEnd = CEnd
  NoCommand = NoCommand
CHECK_DEADLOCK TRUE
INVARIANT ReadyMeansRequest
