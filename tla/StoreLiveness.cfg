CONSTANTS
  mail = mail
  NoRequest = NoRequest
  NoTask = NoTask
  Purger = Purger
  MaxCents = 4
  MaxIterations = 1
  Ceiling = 2
  InitialBalance = 1
  ChainRetries = 2
  Tasks = {t1, t2}
  Workers = {w1, w2}
  Requests <- OneRequest
  ToolPlans <- OnePlan
  ConclusionCosts <- FreeConclusion
  CallRules <- MailApproved
  MaxInvocations = 2
  MaxPurges = 2
  MaxCrashes = 0
  MaxRestores = 0

SPECIFICATION Spec
PROPERTY
  EverythingReturns
CHECK_DEADLOCK FALSE
