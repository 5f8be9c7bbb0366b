----------------------------- MODULE CycleSync -----------------------------
(***************************************************************************)
(* CycleSync, which an informer of main.go calls for each update of a      *)
(* RedisBackup and for each RedisBackup every half hour.  The handlers of  *)
(* that informer run one after the other, so there is one call at a time,  *)
(* but it runs beside the workers of the controller.  What it reads comes  *)
(* from the caches of the manager.                                         *)
(***************************************************************************)
EXTENDS BackupState

\* A nil error: the informer goes on to the next event.
CycleReturn == cycle' = IdleCycle

\* Nothing is done for a RedisBackup that is not in the cache.
StartCycle(b) ==
  /\ cycle.pc = "idle"
  /\ cache[BackupOf(b)] # Absent
  /\ cycle' = [pc |-> "pods", backup |-> b, cluster |-> cache[BackupOf(b)].spec.cluster,
               pvc |-> Absent, target |-> Absent]
  /\ UNCHANGED <<apiVars, queueVars, worker, master, redis, running, budget, gaveUp>>

\* When the List fails the call goes on with an empty claim.
CycleFindMaster ==
  /\ cycle.pc = "pods"
  /\ \/ \E found \in MasterFound(cycle.cluster) :
          /\ \/ found \in Pvcs /\ cycle' = [cycle EXCEPT !.pc = "list", !.pvc = found]
             \/ found \in {NoMaster, Down} /\ CycleReturn
          /\ UNCHANGED budget
     \/ /\ cycle' = [cycle EXCEPT !.pc = "list", !.pvc = NoPvc]
        /\ Fault
  /\ UNCHANGED <<apiVars, queueVars, worker, master, redis, running, gaveUp>>

\* The CronJobs of the namespace that bear the label of the cluster.
Labelled(b, cluster) ==
  {t \in Backups : /\ cache[CronJobOf(t)] # Absent
                   /\ cache[CronJobOf(t)].cluster = cluster
                   /\ Ns[t] = Ns[b]}

\* Mutated form of CycleList: a CronJob that is there is good enough.
CycleListFound ==
  /\ cycle.pc = "list"
  /\ CronJobVersion = "batch/v1"
  /\ CycleReturn
  /\ UNCHANGED <<apiVars, queueVars, worker, master, redis, running, budget, gaveUp>>

(***************************************************************************)
(* Only the first of the listed CronJobs is compared, and the cache lists  *)
(* them in no particular order.                                            *)
(***************************************************************************)
CycleList ==
  LET listed == Labelled(cycle.backup, cycle.cluster) IN
  /\ cycle.pc = "list"
  /\ CronJobVersion = "batch/v1"
  /\ \/ listed = {} /\ CycleReturn
     \/ \E t \in listed :
          IF cache[CronJobOf(t)].pvc # cycle.pvc
          THEN cycle' = [cycle EXCEPT !.pc = "delete", !.target = t]
          ELSE CycleReturn
  /\ UNCHANGED <<apiVars, queueVars, worker, master, redis, running, budget, gaveUp>>

\* The deletion is by name; the event it causes starts the Reconcile that
\* builds the CronJob again.
CycleDelete ==
  LET k == CronJobOf(cycle.target) IN
  /\ cycle.pc = "delete"
  /\ store[k] # Absent
  /\ Put(k, Absent)
  /\ UNCHANGED rev
  /\ CycleReturn
  /\ UNCHANGED <<queueVars, worker, master, redis, running, budget, gaveUp>>

(***************************************************************************)
(* An error of CycleSync is fatal to the process: the List of batch/v1     *)
(* CronJobs where they are not served, or a Delete of a CronJob that has   *)
(* gone since it was listed; so is the dereference of the claim of a       *)
(* master that mounts none.  A call that fails for another reason is a     *)
(* Crash of RedisBackup.                                                   *)
(***************************************************************************)
CycleFatal ==
  \/ cycle.pc = "pods" /\ NoClaim \in MasterFound(cycle.cluster)
  \/ cycle.pc = "list" /\ CronJobVersion # "batch/v1"
  \/ cycle.pc = "delete" /\ store[CronJobOf(cycle.target)] = Absent

CycleStep == CycleFindMaster \/ CycleList \/ CycleDelete
============================================================================
