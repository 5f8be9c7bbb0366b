---------------------------- MODULE BackupState ----------------------------
(***************************************************************************)
(* The state shared by the parts of the operator that look after           *)
(* RedisBackup objects: the objects themselves, what the reconcilers and   *)
(* the periodic CycleSync hold between two calls, and what the operator    *)
(* reads from the Redis clusters.                                          *)
(***************************************************************************)
EXTENDS ApiServer, WorkQueue

CONSTANTS
  Workers,        \* the goroutines that run Reconcile
  Namespaces,     \* namespaces with Redis clusters
  Ns,             \* Ns[b]: the namespace of RedisBackup b
  ClusterNames,   \* names of Redis clusters
  Pvcs,           \* claims of Redis pods
  Scheduled,      \* <<secret, URL, schedule>> triples with a schedule
  OneShot,        \* triples whose schedule is empty
  CronJobVersion, \* the group version that serves CronJob
  NoInfo,         \* the zero LastBackupInfo
  NoPvc,          \* the empty claim name
  NoMaster,       \* no pod of the cluster has the master label
  Down,           \* the master pod is not Running
  NoClaim,        \* the master pod is Running and mounts no claim
  MaxEdits, MaxMoves, MaxFaults, MaxRuns   \* bounds on the environment

Infos == Scheduled \cup OneShot

ASSUME BackupAssumption ==
  /\ Ns \in [Backups -> Namespaces]
  /\ Scheduled \cap OneShot = {}
  /\ NoInfo \notin Infos
  /\ NoPvc \notin Pvcs
  /\ Pvcs \cap {NoMaster, Down, NoClaim} = {}
  /\ CronJobVersion \in {"batch/v1", "batch/v1beta1"}
  /\ {MaxEdits, MaxMoves, MaxFaults, MaxRuns, MaxLag} \subseteq Nat

CronKey == "backupCronjob"
RedisKeys == Backups \cup {CronKey}
Clusters == Namespaces \X ClusterNames
Masters == Pvcs \cup {NoMaster, Down, NoClaim}

(***************************************************************************)
(* A BackupCondition keeps of its fields the file, which names the run     *)
(* that wrote it, and the RedisBackup the run worked for.                  *)
(***************************************************************************)
Condition == [file : Nat, object : Backups]
BackupSpec == [cluster : ClusterNames, info : Infos]
RedisBackup == [uid : Nat, rv : Nat, spec : BackupSpec,
                last : Infos \cup {NoInfo}, conditions : Seq(Condition)]

(***************************************************************************)
(* A CronJob or a Job.  The owner is the uid of the RedisBackup it was     *)
(* built for, active the file of the run in progress or 0; a Job is done   *)
(* after its only run.                                                     *)
(***************************************************************************)
Child == [owner : Nat, cluster : ClusterNames, info : Infos, pvc : Pvcs,
          active : Nat, done : BOOLEAN]
Object == RedisBackup \cup Child \cup {Absent}

\* What the API server and the caches may hold of the object k.
Versions(k) == (IF k[1] = "RedisBackup" THEN RedisBackup ELSE Child) \cup {Absent}

ASSUME AbsentAssumption ==
  /\ Absent \notin RedisBackup \cup Child \cup Condition
  /\ Absent \notin Backups \cup Pvcs

VARIABLES
  worker,      \* worker[w]: the call of Reconcile that w runs
  cycle,       \* the call of CycleSync in progress
  master,      \* master[c]: the claim of c's master pod, as the pod informer has it
  redis,       \* redis[c][k]: the value of key k in database 15 of cluster c
  running,     \* backup pods in progress, of deleted CronJobs and Jobs too
  budget,      \* what is left of the bounds on the environment
  gaveUp       \* history: the last Reconcile of b ended for want of a master

vars == <<apiVars, queueVars, worker, cycle, master, redis, running, budget, gaveUp>>

(***************************************************************************)
(* A call of Reconcile: pc is the next step, key the request, inst the     *)
(* backupInstance, pvc the backupPvc, cond the condition read from Redis.  *)
(***************************************************************************)
WorkerPc == {"pods", "child", "compare", "create", "delete", "read", "append", "record"}
Idle == [pc |-> "idle", key |-> Absent, inst |-> Absent, pvc |-> Absent, cond |-> Absent]
Busy == [pc : WorkerPc, key : Backups, inst : RedisBackup,
         pvc : Pvcs \cup {Absent}, cond : Condition \cup {Absent}]

IdleCycle == [pc |-> "idle", backup |-> Absent, cluster |-> Absent, pvc |-> Absent, target |-> Absent]
BusyCycle == [pc : {"pods", "list", "delete"}, backup : Backups, cluster : ClusterNames,
              pvc : Pvcs \cup {Absent, NoPvc}, target : Backups \cup {Absent}]

Budget == [edits : Nat, moves : Nat, faults : Nat, runs : Nat]

\* A backup pod: the CronJob or Job that started it, its Redis cluster and its file.
Run == [child : Children, cluster : ClusterNames, file : Nat]

ApiTypeOK ==
  /\ {store, cache} \subseteq [Objects -> Object]
  /\ watch \in [Objects -> Seq(Object)]
  /\ \A k \in Objects :
       /\ store[k] \in Versions(k)
       /\ cache[k] \in Versions(k)
       /\ watch[k] \in Seq(Versions(k))
  /\ rev \in [Backups -> Nat]

QueueTypeOK == dirty \subseteq Backups /\ processing \subseteq Backups /\ delayed \subseteq Backups

EnvTypeOK ==
  /\ master \in [Clusters -> Masters]
  /\ redis \in [Clusters -> [RedisKeys -> Condition \cup {Absent}]]
  /\ running \subseteq Run
  /\ budget \in Budget
  /\ gaveUp \in [Backups -> BOOLEAN]

TypeOK ==
  /\ ApiTypeOK
  /\ QueueTypeOK
  /\ worker \in [Workers -> Busy \cup {Idle}]
  /\ cycle \in BusyCycle \cup {IdleCycle}
  /\ EnvTypeOK

Init ==
  /\ InitApiServer
  /\ InitWorkQueue
  /\ worker = [w \in Workers |-> Idle]
  /\ cycle = IdleCycle
  /\ master \in [Clusters -> Masters]
  /\ redis = [c \in Clusters |-> [k \in RedisKeys |-> Absent]]
  /\ running = {}
  /\ budget = [edits |-> MaxEdits, moves |-> MaxMoves, faults |-> MaxFaults, runs |-> MaxRuns]
  /\ gaveUp = [b \in Backups |-> FALSE]

----------------------------------------------------------------------------
IsScheduled(v) == v.spec.info \in Scheduled

\* The object that Reconcile keeps for version v of RedisBackup b.
ChildOf(b, v) == IF IsScheduled(v) THEN CronJobOf(b) ELSE JobOf(b)

\* The key its backup pods publish under, and its Redis cluster.
KeyOf(b, v) == IF IsScheduled(v) THEN CronKey ELSE b
ClusterOf(b, v) == <<Ns[b], v.spec.cluster>>

(***************************************************************************)
(* What the walk over the listed pods can stop at.  The List has label     *)
(* selectors and no namespace, so it returns the pods of the clusters of   *)
(* that name in every namespace, in no particular order; the walk stops at *)
(* the first pod with the master label.                                    *)
(***************************************************************************)
MasterFound(name) ==
  LET labelled == {master[<<n, name>>] : n \in Namespaces} \ {NoMaster}
  IN  IF labelled = {} THEN {NoMaster} ELSE labelled

\* One call fails, out of the bounded number of calls that may.
Fault ==
  /\ budget.faults > 0
  /\ budget' = [budget EXCEPT !.faults = @ - 1]
============================================================================
