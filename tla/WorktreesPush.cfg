SPECIFICATION Spec
CONSTANTS
  t1 = t1
  t2 = t2
  base = base
  Task = {t1, t2}
  Base = base
  ModernGit = TRUE
  World = {"push"}
  MaxAdvance = 1
  MaxCommits = 1
  MaxRetries = 0
CHECK_DEADLOCK FALSE
INVARIANTS
  PushesSpareSiblings
