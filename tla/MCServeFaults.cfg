SPECIFICATION Spec
CONSTANTS
  t1 = t1
  Task = {t1}
  dev = dev
  reviewer = reviewer
  DevUser = dev
  Reviewer = reviewer
  NumGates = 2
  PoolSize = 1
  MaxUSDPerRun = 5
  MaxUSDInFlight = 0
  MaxBudgetUSD = 5
  Once = FALSE
  Faults = {"store", "crash", "forge", "setup", "sigterm", "unassign"}
  MaxDispatch = 2
INVARIANTS
  TypeOK
  ReviewCertified
  AtMostOnce
  JournalReplays
  AgentAccountable
PROPERTIES
  NoAutoRetry
  ImplementsTaskRecord
