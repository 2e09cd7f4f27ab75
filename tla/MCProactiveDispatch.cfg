SPECIFICATION FairSpec
CONSTANTS
  scheduled = scheduled
  manual = manual
  Jobs <- MCJobs
  LastDay = 2
  MaxAttempts = 2
  Threshold = 2
  MaxFaults = 2
INVARIANTS TypeOK OneMessagePerDate ReportsAreTrue KeyStandsForMessage AlarmAtThreshold SwitchOffStops
PROPERTY EveryJobSettles
