\* Two overlapping runs, one handler, one change, a fault of any kind.
CONSTANTS
  p1 = p1
  p2 = p2
  Ports = {p1, p2}
  Limits = {1}
  Skipped = Skipped
  NoTable = NoTable
  Runs = {timer, syncnow}
  Timer = timer
  NoRun = NoRun
  Admins = {admin1}
  BanTime = 1
  Faults = {"kill", "reboot"}
  MaxFaults = 1
  MaxEdits = 1
  MaxNow = 1
SPECIFICATION FairSpec
INVARIANTS
  BlockedIsGuarded
  StateTellsRules
PROPERTIES
  RulesFollowConfiguration
  BansEndWithCause
