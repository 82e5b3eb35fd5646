SPECIFICATION Spec
CONSTANTS
  t1 = t1
  Task = {t1}
  dev = dev
  reviewer = reviewer
  DevUser = dev
  Reviewer = reviewer
  NumGates = 1
  PoolSize = 1
  MaxUSDPerRun = 5
  MaxUSDInFlight = 0
  MaxBudgetUSD = 5
  Once = FALSE
  Faults = {"load"}
  MaxDispatch = 2
PROPERTIES
  RepollIdempotent
