SPECIFICATION FairSpec
CONSTANTS
  Branches = 2
  Leads = 1
  Length = 1
  Slots = 2
  Limit = 2
  Attempts <- MCAttempts
  Rounds = 2
  Lives = 2
  CancelIn <- MCCancelIn
INVARIANTS SlotsConserved 
PROPERTIES RunEnds 
CHECK_DEADLOCK FALSE
