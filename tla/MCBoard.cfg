SPECIFICATION Spec
CONSTANTS
  t1 = t1
  t2 = t2
  t3 = t3
  Tasks = {t1, t2, t3}
  Statuses <- MCStatuses
  PriorityOf <- MCTwoHigh
  Plans <- MCPlans
  PageSize = 1
  TopN = 1
  MaxListed = 1
  MaxChanges = 2
INVARIANTS TypeOK WholeUnlessLeft TopIsTop
PROPERTIES CauseTellsReason MessageComposes
CHECK_DEADLOCK FALSE
