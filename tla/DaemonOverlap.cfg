SPECIFICATION Spec
CONSTANTS
  a = a
  b = b
  c = c
  Tasks = {a, b}
  Blocks <- ChainAB
  MaxParallel = 1
  Polls = {p1, p2}
  Slots <- TwoSlots
  GatedTasks = {b}
  AutoMerge = TRUE
  Controls = {}
  Answers = {}
  Repeats = FALSE
  Edits <- NoEdits
  Crashes = TRUE
  Outages = FALSE
INVARIANTS BlockersDone OneExecutionPerTask PausedIsAsked RunningRowsAreExecuting
PROPERTIES GatedIsNotRestarted KeepsTheBoard
