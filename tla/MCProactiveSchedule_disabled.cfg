SPECIFICATION Spec
CONSTANTS
  Invalid = Invalid
  NoConfig = NoConfig
  NotReading = NotReading
  Crons <- MCCrons
  Configs <- MCConfigs
  Polls = {p1}
  Runs = {r1}
  MaxEdits = 1
  MaxMishaps = 0
INVARIANT DisabledIsRemoved
CHECK_DEADLOCK FALSE
