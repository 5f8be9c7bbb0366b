\* A one-time backup whose Job expires.
SPECIFICATION Spec
CONSTANTS
  Absent = Absent
  ns1 = ns1
  Backups = {b1}
  Workers = {w1}
  Namespaces = {ns1}
  Ns <- SameNamespace
  ClusterNames = {redis1}
  Pvcs = {pvc1, pvc2}
  Scheduled = {}
  OneShot = {once}
  CronJobVersion = "batch/v1"
  NoInfo = NoInfo
  NoPvc = NoPvc
  NoMaster = NoMaster
  Down = Down
  NoClaim = NoClaim
  MaxEdits = 1
  MaxMoves = 0
  MaxFaults = 0
  MaxRuns = 1
  MaxLag = 2
PROPERTIES
  OneTimeBackup
CHECK_DEADLOCK FALSE
