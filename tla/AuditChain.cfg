CONSTANTS
  Zero = Zero
  call = call
  mail = mail
  result = result
  conclusion = conclusion
  Orgs = {o1, o2}
  Contents <- Chain
  MaxLength = 3
  MaxDamages = 2
  MaxAnchors = 2
SYMMETRY Symmetric
SPECIFICATION SpecAudit
INVARIANTS
  VerifyAcceptsExactlyTheChains
  AnchorsHoldThePast
  TailHoldsTheWholeChain
PROPERTY VerdictIsFounded
CHECK_DEADLOCK FALSE
