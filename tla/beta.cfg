\* CronJob is served as batch/v1beta1; the RedisBackup is edited from a schedule to a one-time backup or back.
SPECIFICATION Spec
CONSTANTS
  Absent = Absent
  ns1 = ns1
  Backups = {b1}
  Workers = {w1}
  Namespaces = {ns1}
  Ns <- SameNamespace
  ClusterNames = {redis1}
  Pvcs = {pvc1, pvc2}
  Scheduled = {daily}
  OneShot = {once}
  CronJobVersion = "batch/v1beta1"
  NoInfo = NoInfo
  NoPvc = NoPvc
  NoMaster = NoMaster
  Down = Down
  NoClaim = NoClaim
  MaxEdits = 2
  MaxMoves = 1
  MaxFaults = 1
  MaxRuns = 1
  MaxLag = 1
INVARIANTS
  NeverLosesChild
CHECK_DEADLOCK FALSE
