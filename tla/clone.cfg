\* A RedisClone is edited to another destination and its replication changes beside both writers of its status; a call fails or the process crashes.
SPECIFICATION FairSpec
CONSTANTS
  Absent = Absent
  Names = {n1}
  Workers = {w1}
  Offsets = {o1}
  Links = {linkUp}
  LinkDown = LinkDown
  LagUnknown = LagUnknown
  NoOffset = NoOffset
  NoReport = NoReport
  Answers <- AgreeOrDiffer
  DestClusters = {redis1, redis2}
  MaxLag = 2
  MaxEdits = 2
  MaxFaults = 1
  MaxMoves = 1
INVARIANTS
  IInv
  StatusNamesDest
PROPERTIES
  StatusTellsReplication
CHECK_DEADLOCK FALSE
