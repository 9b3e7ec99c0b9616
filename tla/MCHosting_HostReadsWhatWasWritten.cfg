CONSTANTS
  Packages <- MCPackages
  Values <- MCValues
  Keys <- MCKeys
  Requests <- MCRequests
  Published <- MCPublished
  InitialLocks <- MCHeaders
  Artifacts <- MCArtifacts
  Policies <- MCPolicies
  Trusts <- MCTrusts
  Channels <- MCChannels
  Plans <- MCPlans
  Budgets <- MCOneWrite
  Threads = {t1, t2}
SPECIFICATION HostingSpec
CHECK_DEADLOCK FALSE
INVARIANT HostReadsWhatWasWritten
