\* Two overlapping apply runs and two changes, with a failing sync.
CONSTANTS
  t1 = t1
  t2 = t2
  t3 = t3
  c1 = c1
  c2 = c2
  e1 = e1
  i1 = i1
  i2 = i2
  Tags = {t1, t2}
  Cores = {c1, c2}
  Emails = {e1}
  Ids = {i1, i2}
  NoUser = NoUser
  NoInbound = NoInbound
  NoEmail = NoEmail
  Main = main
  NoWorker = NoWorker
  NoSnapshot = NoSnapshot
  ApplyJobs = {apply1, apply2}
  CheckJobs = {check1}
  Admins = {}
  Templates = {v1}
  Tables <- SmallTables
  Disturbances <- SyncFailures
  MaxDisturbances = 1
  MaxEdits = 2
SPECIFICATION HistorySpec
SYMMETRY ApplySymmetry
INVARIANTS
  QuietMeansInSync
PROPERTIES
  ImplementsPromise
