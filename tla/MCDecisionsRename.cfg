SPECIFICATION Spec
CHECK_DEADLOCK FALSE
CONSTANTS
  dev = dev
  reviewer = reviewer
  Principal = {dev, reviewer}
  AssignedTo = dev
  MaxGates = 3
  Base <- MCBase
  New <- MCNew
  Branches <- MCBranches
  Remits <- MCRemits
  Worktrees <- MCWorktrees
  Targets <- MCTargets
  PollConfigs <- MCPollConfigs
  Fold <- MCFold
  Listings <- MCListings
  PullRequests <- MCPullRequests
  Creators <- MCCreators
  PreflightConfigs <- MCPreflightConfigs
  Hosts <- MCHosts
  maxStreamTailEvents = 3
  maxStreamTailBytes = 6
  maxStreamLine = 9
  Streams <- MCStreams
  Documents <- MCDocuments
  Accounts <- MCAccounts
  LoggedIn = "a2"
  Orgs <- MCOrgs
  Directory <- MCDirectory
  RowNumber <- MCRowNumber
  Overrides = {"", "t1", "tx"}
  Picks <- MCPicks
  Projects = {"", "p", "q"}
  Broken = {"nothing", "az", "token", "profile", "accounts", "projects", "repositories", "graph"}
INVARIANTS
  RemovalsCaught
