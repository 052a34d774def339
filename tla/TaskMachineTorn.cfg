CONSTANTS
  mail = mail
  read = read
  NoRequest = NoRequest
  MaxCents = 8
  MaxIterations = 2
  Ceiling = 5
  Requests <- MCRequests
  ToolPlans <- MCToolPlans
  ConclusionCosts <- MCConclusionCosts
  Balances <- MCBalances
  CallRules <- MCCallRules
  Torn <- MCTorn
SPECIFICATION Spec
PROPERTY IncoherenceFails
