SPECIFICATION Spec
CONSTANTS
  a = a
  b = b
  c = c
  Tasks = {a}
  Blocks <- NoBlocks
  MaxParallel = 1
  Polls = {p1}
  Slots <- OneSlot
  GatedTasks = {a}
  AutoMerge = FALSE
  Controls = {"pause", "resume", "stop", "restart"}
  Answers = {"approve", "stop"}
  Repeats = TRUE
  Edits <- Reopening
  Crashes = FALSE
  Outages = TRUE
 
PROPERTIES GatesDecide
