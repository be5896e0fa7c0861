SPECIFICATION Spec
CONSTANTS
  Results <- CodeResults
  RequiredChecks = {c1}
  Policies = {TRUE}
  VerificationRequired = TRUE
  DeleteBranch = TRUE
  MaxAttempts = 2
  MaxHead = 2
  MaxPrs = 2
  MaxStarts = 2
  Pushes = TRUE
  Reviews = FALSE
  Reopens = FALSE
  Failures = FALSE
PROPERTIES
  MergeIsBound
CHECK_DEADLOCK FALSE
