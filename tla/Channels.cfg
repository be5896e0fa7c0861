SPECIFICATION FairSpec
CONSTANTS
  Asked = {ask}
  Control = control
  Replies = {r1, r2}
  r1 = r1
  r2 = r2
  Deliveries <- FirstTwice
  MaxAttempts = 2
  MaxFaults = 1
  None = None
 
PROPERTIES OpenIsAnswerable
CHECK_DEADLOCK FALSE
