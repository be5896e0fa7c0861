SPECIFICATION FairSpec
CONSTANTS
  a = a
  b = b
  c = c
  Tasks = {a, b, c}
  Blocks <- ChainAB
  MaxParallel = 2
  Polls = {p1}
  Slots <- OneSlot
  GatedTasks = {c}
  AutoMerge = TRUE
  Controls = {}
  Answers = {}
  Repeats = FALSE
  Edits <- NoEdits
  Crashes = TRUE
  Outages = FALSE
PROPERTIES ClosedStaysClosed MergedIsNotRedone UnblockedIsHandled
