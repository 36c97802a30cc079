\* The retired breakpoint 0x69.
CONSTANTS
  JitPageSize = 2
  CommandsPerBatch = 2
  WireSpace = 64
  OK = OK
  Refused = Refused
  Nothing = Nothing
  RefusesWrites = FALSE
  MaxFaults = 0
  Gone = Gone
  Scripts = {"universal"}
  LegacyCalls <- MCLegacyCalls
  Lookalikes = {}
  LegacyLookalikes = {}
  Calls <- MCMixedCalls
  ScriptSpace = 256
  FreshAddress = 16
  BogusAddress = 20
  LegacyErrorCode = 57449
  RefusesAttach = FALSE
  RefusesMemory = FALSE
  RefusesDetach = FALSE
  MayDie = FALSE
  MaxCalls = 2
  MaxSignals = 2
SPECIFICATION Spec
INVARIANTS LegacyErrorReturned
