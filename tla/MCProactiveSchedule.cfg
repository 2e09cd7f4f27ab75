SPECIFICATION FairSpec
CONSTANTS
  Invalid = Invalid
  NoConfig = NoConfig
  NotReading = NotReading
  Crons <- MCCrons
  Configs <- MCConfigs
  Polls = {p1, p2}
  Runs = {r1, r2}
  MaxEdits = 2
  MaxMishaps = 1
INVARIANTS TypeOK ScheduleHoldsConfig
PROPERTY QueueFollowsFile
CHECK_DEADLOCK FALSE
