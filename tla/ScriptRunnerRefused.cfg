\* The debug server refuses a write.
CONSTANTS
  JitPageSize = 2
  CommandsPerBatch = 2
  WireSpace = 16
  Commands <- MCCommands
  Bodies <- MCBodies
  OK = OK
  Refused = Refused
  Nothing = Nothing
  Regions <- MCRegions
  RefusesWrites = TRUE
  MaxFaults = 0
SPECIFICATION Spec
INVARIANTS PreparedMeansBlessed
