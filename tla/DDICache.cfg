\* The synchronous API on its queue and two tasks inside the actor, with one failed
\* call, kill or reboot, and newly published files.
CONSTANTS
  Helpers = {h1}
  Tasks = {t1, t2}
  Nobody = Nobody
  MaxCalls = 3
  MaxVersion = 2
  MaxFaults = 1
SPECIFICATION FairSpec
INVARIANTS TypeOK NoRaces MixedMeansDisturbed MountsFreshFiles ActorIsPassedOn
PROPERTIES DoneMeansComplete CallsAdvance CallsEnd
