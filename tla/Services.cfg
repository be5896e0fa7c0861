SPECIFICATION ServicesSpec
CONSTANTS
  p = p
  q = q
  s1 = s1
  s2 = s2
  s3 = s3
  coder = coder
  verifier = verifier
  e1 = e1
  e2 = e2
  e3 = e3
  e4 = e4
  forBrowser = forBrowser
  forDevices = forDevices
  Candidates <- ThreeCandidates
  Restorable <- FirstAndLast
  FollowUps = {p}
  First = first
  NoPrompt = none
  CliSessions = {s1, s2}
  Profiles = {p, q}
  Roles = {coder, verifier}
  DefaultRole = verifier
  Edits <- TheEdits
  EditRequests = {e1, e2, e3, e4}
  InitialFile <- File0
  Unset = Unset
  File = File
  Empty = Empty
  Mixed = Mixed
  CapPlans = {forBrowser, forDevices}
  Playwright = {forBrowser}
  Ensurers = {e1}
  NoCapPlan = NoCapPlan
  Requests = {s1, s2}
  MaxSockets = 3
  MaxRetries = 2
  Senders = {s1, s2, s3}
  MaxAdapters = 3
  MaxAttempts = 2
  Nobody = Nobody
  Issues = {1, 2, 3}
  Initial = {1, 2}
  PageSize = 3
  Calls = {s1, s2}
  Statuses = {"ready", "completed"}
  MaxEdits = 2
  Texts = {p, q}
  Polls = {s1, s2}
  Page = 1
  EchoWindow = 1
  KeptFor = 2
  MaxMessages = 2
  MaxNow = 3
  MaxLives = 2
  Testers = {s1, s2}
  Recorder = s3
  MaxRuns = 3
  MaxBreaks = 1
  Plans = {p}
  NoPlan = Nobody
  Callers = {s1, s2}
  Actions = {"approve", "retry", "free-text", "stop", "switch-harness", "dismiss"}
  Wordless = TRUE
  Reopens = TRUE
  Crashes = TRUE
INVARIANTS QuotaSurfacesLast OneEnd PromptIsRemoved SavedConfigRoutes InstalledWasApproved   OnePoller  EchoesAreNotReplies OneLeader
PROPERTIES  GateDecides
CHECK_DEADLOCK FALSE
