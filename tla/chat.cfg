SPECIFICATION FairSpec
CONSTANTS
  Chars <- TextChars
  Blanks <- TextBlanks
  Words <- TextWords
  Pieces <- TextPieces
  MaxText = 3
  MaxRounds = 3
  NullOpt = NullOpt
  CEnd = CEnd
  NoCommand = NoCommand
CHECK_DEADLOCK TRUE
INVARIANTS
  TypeOK
  ShownIsReply
  CommandsStayHidden
  StreamReadable
  PlainRepliesAreSafe
PROPERTIES
  ChannelKept
  LifeKept
  ClosedIsReleased
  ReplyDelivered
