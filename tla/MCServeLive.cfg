SPECIFICATION FairSpec
CONSTANTS
  t1 = t1
  t2 = t2
  Task = {t1, t2}
  dev = dev
  reviewer = reviewer
  DevUser = dev
  Reviewer = reviewer
  NumGates = 1
  PoolSize = 1
  MaxUSDPerRun = 5
  MaxUSDInFlight = 0
  MaxBudgetUSD = 5
  Once = FALSE
  Faults = {}
  MaxDispatch = 2
PROPERTIES
  EveryTaskSettles
