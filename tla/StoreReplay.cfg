CONSTANTS
  mail = mail
  NoRequest = NoRequest
  NoTask = NoTask
  Purger = Purger
  MaxCents = 4
  MaxIterations = 2
  Ceiling = 2
  InitialBalance = 2
  ChainRetries = 2
  Tasks = {t1}
  Workers = {w1, w2}
  Requests <- OneRequest
  ToolPlans <- OnePlan
  ConclusionCosts <- FreeConclusion
  CallRules <- MailDisputed
  MaxInvocations = 3
  MaxPurges = 1
  MaxCrashes = 0
  MaxRestores = 1
SYMMETRY Symmetric
SPECIFICATION Spec
INVARIANTS
  VerifierAcceptsTheChain
  EffectsAreRemembered
PROPERTY
  RecordedEffectNeverReplayed
CHECK_DEADLOCK FALSE
