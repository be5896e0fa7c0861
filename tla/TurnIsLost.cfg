SPECIFICATION FailoverSpec
CONSTANTS
  Candidates <- ThreeCandidates
  Restorable <- FirstAndLast
  FollowUps = {again}
  First = first
  NoPrompt = none
PROPERTIES TurnIsRestarted
CHECK_DEADLOCK FALSE
