\* Two RedisBackups of the same Redis cluster and two workers; a call fails, the List of pods of CycleSync too, or the process crashes.
SPECIFICATION Spec
CONSTANTS
  Absent = Absent
  ns1 = ns1
  Backups = {b1, b2}
  Workers = {w1, w2}
  Namespaces = {ns1}
  Ns <- SameNamespace
  ClusterNames = {redis1}
  Pvcs = {pvc1}
  Scheduled = {daily}
  OneShot = {}
  CronJobVersion = "batch/v1"
  NoInfo = NoInfo
  NoPvc = NoPvc
  NoMaster = NoMaster
  Down = Down
  NoClaim = NoClaim
  MaxEdits = 2
  MaxMoves = 0
  MaxFaults = 1
  MaxRuns = 0
  MaxLag = 1
SYMMETRY Symmetry
INVARIANTS
  OneWorkerPerBackup
  NeverLosesChild
CHECK_DEADLOCK FALSE
