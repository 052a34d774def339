CONSTANTS
  None = None
  o1 = o1
  o2 = o2
  o3 = o3
  t = t
  s2 = s2
  OwnSecret = s1
  Secret <- Rotated
  Passwords <- Inherited
  Latest = 2
  Tables = 1
  Key = 2
  MaxAccidents = 2
  MaxRequests = 2
  Connections = {c1, c2}
  Tasks = {t}
  Orgs = {o1, o2, o3}
  Balances <- Credits
  Jobs <- Asked
SPECIFICATION Spec
INVARIANTS
  DeploymentIsOrderly
  RequestsStayInTheirOrganisation
  AnswersTellTheTruth
PROPERTY EverythingEnds
CHECK_DEADLOCK FALSE
