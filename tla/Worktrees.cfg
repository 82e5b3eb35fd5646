SPECIFICATION Spec
CONSTANTS
  t1 = t1
  t2 = t2
  base = base
  Task = {t1, t2}
  Base = base
  ModernGit = TRUE
  World = {"network", "kill", "push", "upstream"}
  MaxAdvance = 1
  MaxCommits = 1
  MaxRetries = 1
CHECK_DEADLOCK FALSE
SYMMETRY Symmetry
INVARIANTS
  MirrorInv
  FailuresExplained
  RunsInItsOwnWorktree
PROPERTIES
  ImplementsIsolatedWorktrees
