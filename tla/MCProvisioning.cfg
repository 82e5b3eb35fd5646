SPECIFICATION FairSpec
CONSTANTS
  o1 = o1
  o2 = o2
  Operator = {o1, o2}
  Runs <- MCRuns
  dev = dev
  Role = {dev}
  other = other
  Other = other
  World = {"outage", "lost", "blank", "lag", "kill", "signout"}
  PageSize = 2
  Attempts = 2
  MaxBlueprints = 2
  MaxIdentities = 3
INVARIANTS
  TypeOK
  SuccessIsProvisioned
  EnsuresAreIdempotent
PROPERTIES
  WritesAnnounced
  RetriesConverge
