SPECIFICATION Spec
CONSTANTS
  create = create
  query = query
  t1 = t1
  t2 = t2
  Proposals <- MCGated
  Gated <- MCGated
  Taps <- MCTaps
  NoProposal = NoProposal
  MaxFaults = 0
INVARIANT DuplicateTapToldAlready
CHECK_DEADLOCK FALSE
