--------------------------- MODULE MCRedisBackup ---------------------------
(***************************************************************************)
(* Instances of RedisBackup for TLC.                                       *)
(***************************************************************************)
EXTENDS BackupRefinement, TLC

CONSTANT ns1

SameNamespace == [b \in Backups |-> ns1]

\* RedisBackups of one namespace, workers and claims can be told apart by
\* nothing but what happens to them.  Used for invariants only.
Symmetry == Permutations(Backups) \cup Permutations(Workers) \cup Permutations(Pvcs)
============================================================================
