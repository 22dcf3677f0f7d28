SPECIFICATION PlatformSpec
CONSTANTS
  p1 = p1
  p2 = p2
  d1 = d1
  d2 = d2
  r1 = r1
  r2 = r2
  c1 = c1
  c2 = c2
  worker = worker
  Message = {m1}
  Pass = {p1, p2}
  Owner = {worker}
  OwnerOf <- OneOwner
  None = None
  Nothing = Nothing
  m1 = m1
  Dependency = {"ENCRYPTION_NOT_READY"}
  MaxFaults = 1
  Document = {d1, d2}
  Reader = {r1, r2}
  Cleaner = {c1, c2}
  MaxRetries = 1
  j1 = j1
  j2 = j2
  Listing = {j1, j2}
  Verdict = {"DELIVERABLE", "INPUT"}
  Enough = 2
  MaxCriteria = 2
  MaxPlans = 2
INVARIANT PlatformTypeOK
INVARIANT MailSafe
INVARIANT DocumentsSafe
INVARIANT FeasibilitySafe
INVARIANT EvaluationSound
PROPERTY FailureAlertKept
PROPERTY PlatformProgress
CHECK_DEADLOCK FALSE
