\* No step is left when the plan is applied: that is the end of Apply.
CHECK_DEADLOCK FALSE
CONSTANTS
  Tags = {t1, t2}
  Cores = {c1, c2}
  Emails = {e1, e2}
  Ids = {i1, i2}
  NoUser = NoUser
  NoInbound = NoInbound
  NoEmail = NoEmail
SPECIFICATION ApplySpec
INVARIANTS
  NoCallRejected
  PlanReachesDesired
  BystandersUndisturbed
