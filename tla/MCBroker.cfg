SPECIFICATION Spec
CONSTANTS
  d1 = d1
  d2 = d2
  r1 = r1
  h1 = h1
  dev = dev
  reviewer = reviewer
  Daemon = {d1, d2, r1}
  Helper = {h1}
  RoleOf <- MCRoleOf
  Configured = {dev, reviewer}
  Mode = "secret"
  Secret <- MCSecret
  Skew = 1
  Lifetimes = {2, 3}
  MaxTime = 3
INVARIANTS
  BrokerInv
  TokenIsRoles
  TokenOutlivesUse
PROPERTIES
  OneMintPerMiss
