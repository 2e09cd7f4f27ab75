SPECIFICATION FairSpec
CONSTANTS
  create = create
  query = query
  t1 = t1
  t2 = t2
  Proposals <- MCProposals
  Gated <- MCGated
  Taps <- MCTaps
  NoProposal = NoProposal
  MaxFaults = 2
INVARIANTS TypeOK AtMostOnce OnlyApprovedRuns OneTrueVerdict DroppedOnlyByFault
PROPERTIES DecisionIsFinal Promise EveryTapEnds ApprovedRuns
CHECK_DEADLOCK FALSE
