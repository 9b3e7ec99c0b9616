CONSTANTS
  Packages <- MCPackages
  Values <- MCValues
  Keys <- MCKeys
  Requests <- MCRequests
  Published <- MCPublished
  InitialLocks <- MCInitialLocks
  Artifacts <- MCArtifacts
  Policies <- MCPolicies
  Trusts <- MCTrusts
  Channels <- MCChannels
  Plans <- MCPlans
  Budgets <- MCBudgets
  Threads = {t1, t2}
SPECIFICATION HostingSpec
CHECK_DEADLOCK FALSE
INVARIANT PluginsAreWarranted
INVARIANT RecordsAreImported
INVARIANT NoReplacementLost
PROPERTY LocksKeepProvenance
PROPERTY EveryReplacementReturns
