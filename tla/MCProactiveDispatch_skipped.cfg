SPECIFICATION Spec
CONSTANTS
  scheduled = scheduled
  manual = manual
  Jobs <- MCJobs
  LastDay = 1
  MaxAttempts = 3
  Threshold = 3
  MaxFaults = 1
INVARIANT AlreadySentIsTrue
