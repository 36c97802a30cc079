\* The two calls under any script, with two transport faults.
CONSTANTS
  JitPageSize = 2
  CommandsPerBatch = 2
  WireSpace = 16
  Commands <- MCCommands
  Bodies <- MCBodies
  OK = OK
  Refused = Refused
  Nothing = Nothing
  Regions <- MCRegions
  RefusesWrites = FALSE
  MaxFaults = 2
SPECIFICATION FairSpec
INVARIANTS TypeOK AnswersMatch PreparedIsBlessed NoReadInVain
PROPERTIES CallsReturn CallsAdvance
