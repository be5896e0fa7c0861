SPECIFICATION FairSpec
CONSTANTS
  Workflows <- MCWorkflows
  Views <- MCViews
  Blocking = TRUE
  EditsOf <- MCEditsOf
  MaxFix = 1
  MaxVerify = 1
  MaxTree = 2
  Lives = 2
  Requests = 2
INVARIANTS  EnvironmentIsTornDown
 
CHECK_DEADLOCK FALSE
