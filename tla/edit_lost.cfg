\* An edit that is reverted while the CronJob is rebuilt.
SPECIFICATION FairSpec
CONSTANTS
  Absent = Absent
  ns1 = ns1
  Backups = {b1}
  Workers = {w1}
  Namespaces = {ns1}
  Ns <- SameNamespace
  ClusterNames = {redis1}
  Pvcs = {pvc1, pvc2}
  Scheduled = {daily, hourly}
  OneShot = {}
  CronJobVersion = "batch/v1"
  NoInfo = NoInfo
  NoPvc = NoPvc
  NoMaster = NoMaster
  Down = Down
  NoClaim = NoClaim
  MaxEdits = 3
  MaxMoves = 0
  MaxFaults = 0
  MaxRuns = 0
  MaxLag = 2
PROPERTIES
  EditRebuilds
CHECK_DEADLOCK FALSE
