SPECIFICATION Spec
CONSTANTS
  Images <- MCImages
  MaxCommits = 4
  MaxTime = 3
  MaxReruns = 1
  MaxLag = 1
  MaxWalk = 3
INVARIANTS TypeOK OkIsDeployed PassIsTrue
PROPERTY LagIsSeen
CHECK_DEADLOCK FALSE
