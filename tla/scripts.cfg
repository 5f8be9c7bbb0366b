\* Backup pods and restores of both deployments; commands fail, pods and restores are killed and tried again.
SPECIFICATION Spec
CONSTANTS
  Absent = Absent
  NumberOfPrimaries = 2
  MaxPods = 3
  MaxFaults = 3
INVARIANTS
  TypeOK
  SucceedIsStored
  RestoredWhole
PROPERTIES
  KeepsStored
  KeepsData
CHECK_DEADLOCK FALSE
