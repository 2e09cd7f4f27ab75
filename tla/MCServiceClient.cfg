SPECIFICATION FairSpec
CONSTANTS
  Subjects <- Clients
  Ops <- MCOps
  Calls = {c1, c2}
  Heals = {h1}
  NoCall = NoCall
  MaxAttempts = 2
  Volume = 1
  Threshold = 99
  MaxFires = 3
  MaxChanges = 1
INVARIANTS TypeOK WritesAreTrue RefusalsNeverTrip
PROPERTIES EveryCallEnds BreakerRecovers CredentialFollowsKey
