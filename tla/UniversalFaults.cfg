\* One transport fault, an app that may die, an attach, writes, memory and a
\* detach that may be refused.
CONSTANTS
  JitPageSize = 2
  CommandsPerBatch = 2
  WireSpace = 64
  OK = OK
  Refused = Refused
  Nothing = Nothing
  RefusesWrites = TRUE
  MaxFaults = 1
  Gone = Gone
  Scripts = {"universal", "legacy"}
  LegacyCalls <- MCLegacyCalls
  Lookalikes <- MCLookalikes
  LegacyLookalikes <- MCLookalikes
  Calls <- MCFewCalls
  ScriptSpace = 256
  FreshAddress = 16
  BogusAddress = 20
  LegacyErrorCode = 57449
  RefusesAttach = TRUE
  RefusesMemory = TRUE
  RefusesDetach = TRUE
  MayDie = TRUE
  MaxCalls = 2
  MaxSignals = 1
SPECIFICATION Spec
INVARIANTS ReleasedUnlessRefused
PROPERTIES RunnerSpec
