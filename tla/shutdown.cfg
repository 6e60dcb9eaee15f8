SPECIFICATION FairSpec
CHECK_DEADLOCK FALSE
INVARIANTS
  TypeOK
  OrderlyExit
PROPERTIES
  FailureEndsProcess
  SignalEndsProcess
