CONSTANTS
  mail = mail
  NoRequest = NoRequest
  NoTask = NoTask
  Purger = Purger
  MaxCents = 4
  MaxIterations = 1
  Ceiling = 2
  InitialBalance = 1
  ChainRetries = 2
  Tasks = {t1, t2}
  Workers = {w1, w2}
  Requests <- OneRequest
  ToolPlans <- OnePlan
  ConclusionCosts <- FreeConclusion
  CallRules <- MailAllowedOrApproved
  MaxInvocations = 3
  MaxPurges = 1
  MaxCrashes = 1
  MaxRestores = 0
SYMMETRY Symmetric
SPECIFICATION Spec
INVARIANTS
  TypeOK
  MoneyConserved
  ChainIsLinear
  JournalTellsTheState
  LostAttemptsAreAttested
  NothingIsMissingBeforeAPurge
PROPERTY
  LedgerSpec
CHECK_DEADLOCK FALSE
