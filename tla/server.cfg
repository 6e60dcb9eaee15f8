SPECIFICATION FairSpec
CONSTANTS
  Clients = {c1, c2, c3}
  Requests <- AllRequests
  NumWorkers = 2
  System = System
  User = User
  Prompt = Prompt
  Missing = Missing
  NoChat = NoChat
CHECK_DEADLOCK FALSE
INVARIANTS
  TypeOK
  ThreadsBounded
PROPERTY RequestsServed
