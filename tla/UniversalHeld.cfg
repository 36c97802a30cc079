\* A debug server that refuses to let the app go.
CONSTANTS
  JitPageSize = 2
  CommandsPerBatch = 2
  WireSpace = 64
  OK = OK
  Refused = Refused
  Nothing = Nothing
  RefusesWrites = FALSE
  MaxFaults = 0
  Gone = Gone
  Scripts = {"universal", "legacy"}
  LegacyCalls <- MCLegacyCalls
  Lookalikes = {}
  LegacyLookalikes = {}
  Calls <- MCFewCalls
  ScriptSpace = 256
  FreshAddress = 16
  BogusAddress = 20
  LegacyErrorCode = 57449
  RefusesAttach = FALSE
  RefusesMemory = FALSE
  RefusesDetach = TRUE
  MayDie = FALSE
  MaxCalls = 2
  MaxSignals = 2
SPECIFICATION Spec
INVARIANTS FinishedMeansReleased
