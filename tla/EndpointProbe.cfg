\* Any three updates, in any order, against the timeout.
CONSTANTS
  Unset = Unset
  TimedOut = TimedOut
  InvalidEndpoint = InvalidEndpoint
  Reasons = {refused, reset}
  MaxUpdates = 3
SPECIFICATION FairSpec
INVARIANTS TypeOK FirstVerdictWins
PROPERTIES VerdictStands Returns
