SPECIFICATION FairSpec
CONSTANTS
  MaxCalls = 2
INVARIANTS
  TypeOK
  ArgumentsAreLive
  LeaksAreKnown
  TunnelOutlivesClients
  ReadyMeansMounted
  MountsWhenNeeded
  ClaimsHold
  ModesAgree
PROPERTIES
  UnknownMeansError
  CallsAdvance
  CallsEnd
CHECK_DEADLOCK FALSE
