-------------------------- MODULE BackupProperties --------------------------
(***************************************************************************)
(* What the operator keeps true of RedisBackup objects, and the inductive  *)
(* invariant the safety proofs rest on.                                    *)
(***************************************************************************)
EXTENDS RedisBackup

----------------------------------------------------------------------------
\* Safety.

(***************************************************************************)
(* Two workers never reconcile the same RedisBackup at the same time,      *)
(* although events and retries of it keep arriving while it is reconciled. *)
(***************************************************************************)
OneWorkerPerBackup ==
  \A v, w \in Workers :
    v # w /\ worker[v].pc # "idle" /\ worker[w].pc # "idle" => worker[v].key # worker[w].key

\* Nothing about b is on its way, queued, delayed or being worked on.
Settled(b) ==
  /\ b \notin dirty \cup processing \cup delayed
  /\ \A kind \in Kinds : watch[<<kind, b>>] = <<>>

(***************************************************************************)
(* Once the operator is at rest, a RedisBackup has its CronJob (or its     *)
(* Job), unless the last Reconcile ended for want of a master: neither a   *)
(* failed call, a refused update, a crash, a concurrent CycleSync nor a    *)
(* rebuild that was cut short loses it.                                    *)
(***************************************************************************)
NeverLosesChild ==
  \A b \in Backups :
    LET v == store[BackupOf(b)] IN
    Settled(b) /\ v # Absent /\ ~gaveUp[b] => store[ChildOf(b, v)] # Absent

(***************************************************************************)
(* LastBackupInfo is only ever set to the triple that the spec has at that *)
(* very moment, however old the version that Reconcile read.               *)
(***************************************************************************)
RecordsCurrentSpec ==
  [][\A b \in Backups :
       LET old == store[BackupOf(b)]
           new == store'[BackupOf(b)]
       IN  old # Absent /\ new # Absent /\ new.last # old.last => new.last = old.spec.info]_vars

(***************************************************************************)
(* The list of conditions of a scheduled RedisBackup only grows, by one at *)
(* its end: a writer that holds an old version never drops what another    *)
(* call appended.                                                          *)
(***************************************************************************)
ConditionsOnlyGrow ==
  [][\A b \in Backups :
       LET old == store[BackupOf(b)]
           new == store'[BackupOf(b)]
       IN  old # Absent /\ new # Absent /\ IsScheduled(old) =>
             \/ new.conditions = old.conditions
             \/ \E i \in DOMAIN new.conditions :
                  new.conditions = Append(old.conditions, new.conditions[i])]_vars

(***************************************************************************)
(* A run of a backup is recorded at most once in the status, whatever is   *)
(* retried, as long as the RedisBackup stays with one cluster: only the    *)
(* last condition is looked at, and another cluster has a key of its own.  *)
(***************************************************************************)
NoDuplicateCondition ==
  \A b \in Backups :
    LET v == store[BackupOf(b)] IN
    v # Absent => \A i, j \in DOMAIN v.conditions :
                    v.conditions[i].file = v.conditions[j].file => i = j

----------------------------------------------------------------------------
\* Liveness.

\* b has a schedule and its cluster a running master whose claim is p.
Attended(b, p) ==
  LET v == store[BackupOf(b)] IN
  v # Absent /\ IsScheduled(v) /\ master[ClusterOf(b, v)] = p

(***************************************************************************)
(* When the cluster of a scheduled RedisBackup keeps its running master,   *)
(* its CronJob ends up mounting the claim of that master, whatever         *)
(* failovers, deletions and failed calls came before.                      *)
(***************************************************************************)
FollowsMaster ==
  \A b \in Backups, p \in Pvcs :
    <>[]Attended(b, p) =>
      <>[](store[CronJobOf(b)] # Absent /\ store[CronJobOf(b)].pvc = p)

(***************************************************************************)
(* The last run that published its result ends up as the last condition of *)
(* the RedisBackup.                                                        *)
(***************************************************************************)
LastRunRecorded ==
  \A b \in Backups, p \in Pvcs :
    <>[]Attended(b, p) =>
      <>[](LET v == store[BackupOf(b)] IN
           v # Absent /\ redis[ClusterOf(b, v)][CronKey] # Absent =>
             /\ v.conditions # <<>>
             /\ v.conditions[Len(v.conditions)].file = redis[ClusterOf(b, v)][CronKey].file)

(***************************************************************************)
(* A RedisBackup that is deleted and created again under the same name     *)
(* ends up with a CronJob of its own, not with the one built for the first *)
(* that the garbage collector is about to remove.                          *)
(***************************************************************************)
OwnsItsCronJob ==
  \A b \in Backups, p \in Pvcs :
    <>[]Attended(b, p) =>
      <>[](/\ Absent \notin {store[BackupOf(b)], store[CronJobOf(b)]}
           /\ store[CronJobOf(b)].owner = store[BackupOf(b)].uid)

----------------------------------------------------------------------------
\* What comments of the source say and the code does not keep.

(***************************************************************************)
(* "Compare the backupInfo of the last backup with the one of this backup, *)
(* and rebuild the CronJob when they differ": an edit of the triple ends   *)
(* up in the CronJob.                                                      *)
(***************************************************************************)
EditRebuilds ==
  \A b \in Backups, p \in Pvcs :
    <>[]Attended(b, p) =>
      []<>(/\ Absent \notin {store[BackupOf(b)], store[CronJobOf(b)]}
           /\ store[CronJobOf(b)].info = store[BackupOf(b)].spec.info)

(***************************************************************************)
(* "When BackupSchedule is empty, create a one-time backup Job": no other  *)
(* Job for a RedisBackup whose backup is in its status already.            *)
(***************************************************************************)
OneTimeBackup ==
  [][\A b \in Backups :
       LET v == store[BackupOf(b)] IN
       /\ v # Absent /\ ~IsScheduled(v) /\ v.conditions # <<>>
       /\ store[JobOf(b)] = Absent
       => store'[JobOf(b)] = Absent]_vars

(***************************************************************************)
(* "Conditions represents the backup resource conditions list": every      *)
(* condition of a RedisBackup is of a run made for it.                     *)
(***************************************************************************)
ConditionsAreOwn ==
  \A b \in Backups :
    LET v == store[BackupOf(b)] IN
    v # Absent => \A i \in DOMAIN v.conditions : v.conditions[i].object = b

----------------------------------------------------------------------------
\* The inductive invariant.

(***************************************************************************)
(* What a call of Reconcile or of CycleSync has found out by each of its   *)
(* steps: the claim once the master is known, the condition to append, the *)
(* CronJob to delete.                                                      *)
(***************************************************************************)
Progress ==
  /\ \A w \in Workers :
       /\ worker[w].pc \in WorkerPc \ {"pods"} => worker[w].pvc \in Pvcs
       /\ InPc(w, "append") => worker[w].cond # Absent
       /\ InPc(w, "compare") \/ InPc(w, "delete") => IsScheduled(worker[w].inst)
  /\ cycle.pc = "delete" => cycle.target # Absent

\* The key of a working worker is marked in the queue, and is its alone.
KeysInProcess ==
  /\ \A w \in Workers : ~InPc(w, "idle") => worker[w].key \in processing
  /\ OneWorkerPerBackup

(***************************************************************************)
(* A resourceVersion names one version of a RedisBackup: a copy with the   *)
(* number of the stored version is the stored version.                     *)
(***************************************************************************)
Known(b, v) ==
  v # Absent =>
    /\ v.rv <= rev[b]
    /\ Current(b, v) => v = store[BackupOf(b)]

Coherent ==
  /\ \A b \in Backups :
       /\ Known(b, store[BackupOf(b)])
       /\ Known(b, cache[BackupOf(b)])
       /\ \A i \in DOMAIN watch[BackupOf(b)] : Known(b, watch[BackupOf(b)][i])
  /\ \A w \in Workers : ~InPc(w, "idle") => Known(worker[w].key, worker[w].inst)

IInv == TypeOK /\ Progress /\ KeysInProcess /\ Coherent
============================================================================
