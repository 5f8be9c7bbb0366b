\* Two runs of the same CronJob publish their results; a call fails or the process crashes.
SPECIFICATION FairSpec
CONSTANTS
  Absent = Absent
  ns1 = ns1
  Backups = {b1}
  Workers = {w1, w2}
  Namespaces = {ns1}
  Ns <- SameNamespace
  ClusterNames = {redis1}
  Pvcs = {pvc1}
  Scheduled = {daily}
  OneShot = {}
  CronJobVersion = "batch/v1"
  NoInfo = NoInfo
  NoPvc = NoPvc
  NoMaster = NoMaster
  Down = Down
  NoClaim = NoClaim
  MaxEdits = 1
  MaxMoves = 0
  MaxFaults = 1
  MaxRuns = 2
  MaxLag = 1
INVARIANTS
  IInv
  NoDuplicateCondition
PROPERTIES
  ConditionsOnlyGrow
  LastRunRecorded
  ImplementsContract
CHECK_DEADLOCK FALSE
