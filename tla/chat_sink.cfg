SPECIFICATION FairSpec
CONSTANTS
  Chars <- LoopChars
  Blanks <- TextBlanks
  Words <- LoopWords
  Pieces <- LoopPieces
  MaxText = 1
  MaxRounds = 1
  NullOpt = NullOpt
  CEnd = CEnd
  NoCommand = NoCommand
CHECK_DEADLOCK TRUE
PROPERTY SinkStopsWhenDone
