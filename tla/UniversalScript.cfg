\* Every kind of call, signals between calls, no transport fault.
CONSTANTS
  JitPageSize = 2
  CommandsPerBatch = 2
  WireSpace = 64
  OK = OK
  Refused = Refused
  Nothing = Nothing
  RefusesWrites = FALSE
  MaxFaults = 0
  Gone = Gone
  Scripts = {"universal", "legacy"}
  LegacyCalls <- MCLegacyCalls
  Lookalikes <- MCLookalikes
  LegacyLookalikes = {}
  Calls <- MCCalls
  ScriptSpace = 256
  FreshAddress = 16
  BogusAddress = 20
  LegacyErrorCode = 57449
  RefusesAttach = FALSE
  RefusesMemory = FALSE
  RefusesDetach = TRUE
  MayDie = FALSE
  MaxCalls = 3
  MaxSignals = 2
SPECIFICATION FairSpec
INVARIANTS TypeOK GrantsAreBlessed GrantsAreOwn SeenSignalsDelivered RegistersAreFresh
PROPERTIES GrantsSpec Terminates
