SPECIFICATION FairSpec
CONSTANTS
  MaxSessions = 3
  MaxEvents = 2
  Actions = {"retry"}
  None = None
INVARIANTS AnswerIsOwn 
PROPERTIES FreshCallEnds
CHECK_DEADLOCK FALSE
