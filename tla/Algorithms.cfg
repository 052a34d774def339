CONSTANTS
  mail = mail
  read = read
  None = None
  Absent = Absent
  Backslash = Backslash
  Unset = Unset
  o1 = o1
  o2 = o2
  h1 = h1
  Calls = {c1, c2}
  MaxLength = 5
  MaxDocumentChars = 2
  Alphabet = {"a", "b"}
  Prose <- MCProse
  Labels = {mail, read}
  MaxSegments = 4
  Tools = {mail, read}
  Segments <- MCSegments
  Amounts <- MCAmounts
  Counts <- MCCounts
  PathLists <- MCPathLists
  MorePaths <- MCMorePaths
  AmountBounds <- MCAmountBounds
  CountBounds <- MCCountBounds
  PathBounds <- MCPathBounds
  MaxMicros = 8
  Controls <- MCControls
SPECIFICATION Spec
INVARIANTS
  OpenCallsAreInformation
  EveryFaultIsNamed
  ApprovalStaysUnderHardLimits
  ExternalContentIsConfined
  EncodingIsInjective
PROPERTY StricterIsNeverLooser
CHECK_DEADLOCK FALSE
