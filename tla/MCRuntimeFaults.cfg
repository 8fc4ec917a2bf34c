\* One of each job, every disturbance, the inbounds change once.
CONSTANTS
  t1 = t1
  t2 = t2
  t3 = t3
  c1 = c1
  c2 = c2
  e1 = e1
  i1 = i1
  i2 = i2
  Tags = {t1, t2, t3}
  Cores = {c1, c2}
  Emails = {e1}
  Ids = {i1, i2}
  NoUser = NoUser
  NoInbound = NoInbound
  NoEmail = NoEmail
  Main = main
  NoWorker = NoWorker
  NoSnapshot = NoSnapshot
  ApplyJobs = {apply1}
  CheckJobs = {check1}
  Admins = {admin1}
  Templates = {v1, v2}
  Tables <- MixedTables
  Disturbances <- AllDisturbances
  MaxDisturbances = 2
  MaxEdits = 1
SYMMETRY TemplateSymmetry
SPECIFICATION Spec
INVARIANTS
  LiveMatchesSnapshot
  PlanIsAcceptable
PROPERTIES
  CleanSyncHasDesired
