CONSTANTS
  mail = mail
  NoRequest = NoRequest
  NoTask = NoTask
  Purger = Purger
  MaxCents = 4
  MaxIterations = 1
  Ceiling = 2
  InitialBalance = 2
  ChainRetries = 2
  Tasks = {t1, t2}
  Workers = {w1, w2}
  Requests <- OneRequest
  ToolPlans <- OnePlan
  ConclusionCosts <- FreeConclusion
  CallRules <- AllAllowed
  MaxInvocations = 2
  MaxPurges = 1
  MaxCrashes = 0
  MaxRestores = 0
SPECIFICATION Spec
INVARIANT NoDigestWithoutOriginal
CHECK_DEADLOCK FALSE
