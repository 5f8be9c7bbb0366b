\* A scheduled RedisBackup that is edited, where another namespace has a cluster of the same name; a call fails or the process crashes.
SPECIFICATION Spec
CONSTANTS
  Absent = Absent
  ns1 = ns1
  Backups = {b1}
  Workers = {w1}
  Namespaces = {ns1, ns2}
  Ns <- SameNamespace
  ClusterNames = {redis1}
  Pvcs = {pvc1, pvc2}
  Scheduled = {daily, hourly}
  OneShot = {}
  CronJobVersion = "batch/v1"
  NoInfo = NoInfo
  NoPvc = NoPvc
  NoMaster = NoMaster
  Down = Down
  NoClaim = NoClaim
  MaxEdits = 2
  MaxMoves = 0
  MaxFaults = 1
  MaxRuns = 0
  MaxLag = 2
INVARIANTS
  TypeOK
  NeverLosesChild
PROPERTIES
  RecordsCurrentSpec
  ImplementsContract
CHECK_DEADLOCK FALSE
