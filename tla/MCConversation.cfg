SPECIFICATION FairSpec
CONSTANTS
  Messages = {m1}
  MaxCrashes = 1
INVARIANTS OnlyReadableIsAsked NoExcuseWithoutFault
PROPERTY AnsweredOnce
CHECK_DEADLOCK FALSE
