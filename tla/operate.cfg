\* Two requests for the one worker; a patch that fails, a crash and a cluster without sentinels.
SPECIFICATION FairSpec
CONSTANTS
  Absent = Absent
  Names = {n1, n2}
  Clusters = {redis1}
  MaxLag = 2
  MaxEdits = 3
  MaxFaults = 1
  MaxMoves = 1
INVARIANTS
  IInv
  NeverForgetsRequest
PROPERTIES
  NoFailoverStorm
CHECK_DEADLOCK FALSE
