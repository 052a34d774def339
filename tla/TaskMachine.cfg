CONSTANTS
  mail = mail
  read = read
  NoRequest = NoRequest
  MaxCents = 8
  MaxIterations = 2
  Ceiling = 5
  Requests <- MCRequests
  ToolPlans <- MCToolPlans
  ConclusionCosts <- MCConclusionCosts
  Balances <- MCBalances
  CallRules <- MCCallRules
  Torn <- NoTorn
SPECIFICATION Spec
INVARIANTS
  TypeOK
  CallsWellFormed
  ExecutionsAuthorised
  SpendIsAttested
  WithinBounds
  SuspensionHoldsItsCall
PROPERTIES
  TerminalIsForever
  RunsOnlyWhatWasDecided
  DriveReturns
  LifecycleSpec
