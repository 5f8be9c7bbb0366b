\* Two RedisBackups of the same Redis cluster share its result key.
SPECIFICATION Spec
CONSTANTS
  Absent = Absent
  ns1 = ns1
  Backups = {b1, b2}
  Workers = {w1}
  Namespaces = {ns1}
  Ns <- SameNamespace
  ClusterNames = {redis1}
  Pvcs = {pvc1, pvc2}
  Scheduled = {daily}
  OneShot = {}
  CronJobVersion = "batch/v1"
  NoInfo = NoInfo
  NoPvc = NoPvc
  NoMaster = NoMaster
  Down = Down
  NoClaim = NoClaim
  MaxEdits = 2
  MaxMoves = 0
  MaxFaults = 0
  MaxRuns = 1
  MaxLag = 1
INVARIANTS
  ConditionsAreOwn
CHECK_DEADLOCK FALSE
