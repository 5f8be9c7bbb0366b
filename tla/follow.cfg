\* A RedisBackup is deleted and created again under the same name, and a failover moves the master to another claim.
SPECIFICATION FairSpec
CONSTANTS
  Absent = Absent
  ns1 = ns1
  Backups = {b1}
  Workers = {w1}
  Namespaces = {ns1}
  Ns <- SameNamespace
  ClusterNames = {redis1}
  Pvcs = {pvc1, pvc2}
  Scheduled = {daily}
  OneShot = {}
  CronJobVersion = "batch/v1"
  NoInfo = NoInfo
  NoPvc = NoPvc
  NoMaster = NoMaster
  Down = Down
  NoClaim = NoClaim
  MaxEdits = 3
  MaxMoves = 1
  MaxFaults = 1
  MaxRuns = 0
  MaxLag = 1
PROPERTIES
  FollowsMaster
  OwnsItsCronJob
CHECK_DEADLOCK FALSE
