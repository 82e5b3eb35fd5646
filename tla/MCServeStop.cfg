SPECIFICATION FairSpec
CONSTANTS
  t1 = t1
  t2 = t2
  Task = {t1, t2}
  dev = dev
  DevUser = dev
  Reviewer = dev
  NumGates = 0
  PoolSize = 1
  MaxUSDPerRun = 5
  MaxUSDInFlight = 0
  MaxBudgetUSD = 5
  Once = FALSE
  Faults = {"sigterm"}
  MaxDispatch = 2
PROPERTIES
  SigtermStops
