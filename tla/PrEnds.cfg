SPECIFICATION FairSpec
CONSTANTS
  Results <- AllResults
  RequiredChecks = {c1}
  Policies = {TRUE}
  VerificationRequired = TRUE
  DeleteBranch = TRUE
  MaxAttempts = 3
  MaxHead = 2
  MaxPrs = 2
  MaxStarts = 2
  Pushes = TRUE
  Reviews = TRUE
  Reopens = TRUE
  Failures = TRUE
PROPERTIES ClosedIsJustified Delivers LifecycleEnds
CHECK_DEADLOCK FALSE
