\* One transport fault: is the recorded error ever thrown?
CONSTANTS
  JitPageSize = 2
  CommandsPerBatch = 2
  WireSpace = 64
  OK = OK
  Refused = Refused
  Nothing = Nothing
  RefusesWrites = FALSE
  MaxFaults = 1
  Gone = Gone
  Scripts = {"universal"}
  LegacyCalls <- MCLegacyCalls
  Lookalikes = {}
  LegacyLookalikes = {}
  Calls <- MCFewCalls
  ScriptSpace = 256
  FreshAddress = 16
  BogusAddress = 20
  LegacyErrorCode = 57449
  RefusesAttach = FALSE
  RefusesMemory = FALSE
  RefusesDetach = FALSE
  MayDie = FALSE
  MaxCalls = 2
  MaxSignals = 1
SPECIFICATION FairSpec
PROPERTIES ErrorsAreSurfaced
