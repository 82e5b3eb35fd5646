SPECIFICATION Spec
CONSTANTS
  t1 = t1
  t2 = t2
  t3 = t3
  Task = {t1, t2, t3}
  dev = dev
  DevUser = dev
  Reviewer = dev
  NumGates = 0
  PoolSize = 3
  MaxUSDPerRun = 5
  MaxUSDInFlight = 12
  MaxBudgetUSD = 5
  Once = TRUE
  Faults = {"crash"}
  MaxDispatch = 2
SYMMETRY Symmetry
INVARIANTS
  BudgetAdmission
  SlotsAccounted
  HoldCommentTrue
