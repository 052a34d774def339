CONSTANTS
  mail = mail
  NoRequest = NoRequest
  NoTask = NoTask
  Purger = Purger
  MaxCents = 4
  MaxIterations = 1
  Ceiling = 2
  InitialBalance = 2
  ChainRetries = 2
  Tasks = {t1}
  Workers = {w1, w2}
  Requests <- OneRequest
  ToolPlans <- OnePlan
  ConclusionCosts <- FreeConclusion
  CallRules <- MailApproved
  MaxInvocations = 3
  MaxPurges = 0
  MaxCrashes = 0
  MaxRestores = 1
SPECIFICATION Spec
INVARIANT NoDoubleClosure
CHECK_DEADLOCK FALSE
