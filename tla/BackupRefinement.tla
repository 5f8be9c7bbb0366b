-------------------------- MODULE BackupRefinement --------------------------
(***************************************************************************)
(* The refinement mapping under which the operator implements              *)
(* BackupContract.                                                         *)
(***************************************************************************)
EXTENDS BackupProperties

\* The versions of RedisBackup b that the operator may yet act on.
VersionsOf(b) ==
  ({store[BackupOf(b)], cache[BackupOf(b)]}
     \cup {watch[BackupOf(b)][i] : i \in DOMAIN watch[BackupOf(b)]}
     \cup {worker[w].inst : w \in {w \in Workers : worker[w].key = b}}) \ {Absent}

Seen(v) == [uid |-> v.uid, spec |-> v.spec, last |-> v.last, conditions |-> v.conditions]

\* What the contract tells of a RedisBackup and of a child.
SeenBackup == [uid : Nat, spec : BackupSpec, last : Infos \cup {NoInfo}, conditions : Seq(Condition)]
SeenChild == [uid : Nat, spec : BackupSpec]

ASSUME AbsentUnseen == Absent \notin SeenBackup \cup SeenChild

object ==
  [b \in Backups |-> LET v == store[BackupOf(b)] IN IF v = Absent THEN Absent ELSE Seen(v)]

asked ==
  UNION {{[backup |-> b, uid |-> v.uid, spec |-> v.spec] : v \in VersionsOf(b)} : b \in Backups}

\* The claim of a child and its progress are not part of the contract.
child ==
  [k \in Children |->
     LET v == store[k] IN
     IF v = Absent THEN Absent
     ELSE [uid |-> v.owner, spec |-> [cluster |-> v.cluster, info |-> v.info]]]

\* The values of the keys, and those that a call of Reconcile has read.
results ==
  ({redis[c][k] : c \in Clusters, k \in RedisKeys} \cup {worker[w].cond : w \in Workers}) \ {Absent}

Contract == INSTANCE BackupContract WITH Specs <- BackupSpec

(***************************************************************************)
(* Whatever the caches, the queue, the workers, CycleSync, failed calls    *)
(* and crashes do, the users see what BackupContract allows.               *)
(***************************************************************************)
ImplementsContract == Contract!Spec
============================================================================
