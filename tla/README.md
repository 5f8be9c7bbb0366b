# Verification of redis-backup-operator

TLA+ models of the operator, the runs that model-check them with TLC, and the
theorems that TLAPS proves about them.

The operator is a controller-runtime manager with three controllers
(RedisBackup, RedisClone, Redisoperate), two informers of its own that run
periodic checks beside the controllers, Python scripts that run in the pods it
creates and in those that restore a backup, and a client for sentinels. This
project models all of these. The core is the care of RedisBackup objects, which
is where the operator has state that several actors write: users, twenty
workers, a periodic check, the garbage collector, and backup pods that report
through Redis. What the operator promises there is stated as a specification of
its own, `BackupContract`, which the detailed model is proved to implement.

## Inventory

| Component | State it keeps | Operations | Talks to | What is hard | What makes it correct |
|---|---|---|---|---|---|
| RedisBackup reconciler (`controllers/redisbackup_controller.go`, `Reconcile`) | none between calls; within a call the version of the RedisBackup it read, the claim of the master, the condition it read | one call per request of the work queue | caches (Get, List), API server (Create, Delete, Status().Update), Redis (GET) | stale caches, conflicts, calls that fail in the middle, returns that do not requeue | a RedisBackup does not lose its CronJob; the CronJob follows spec and master; each run is recorded once |
| CycleSync (same file; informer in `main.go`) | within a call the claim and the CronJob to delete | one call per update, and per object every half hour | caches, API server (Delete) | runs beside the workers; its errors end the process | brings CronJobs to the new master after a failover, loses none |
| CronJob and Job construction (`utils/cronjob.go`) | none | `MakeCronJob` | - | - | owner, labels, claim and triple of what it is given |
| API types (`api/v1alpha1/redisbackup_types.go`) | spec; status with `LastBackupInfo` and `Conditions` | - | - | status written from old versions | see above |
| Work queue, workers and informers (vendored client-go, controller-runtime) | dirty, processing and delayed keys; caches; events on their way | Add, Get, Done, AddRateLimited, delivery of events | - | events during a call | one worker per key, no key forgotten |
| Manager wiring (`main.go`) | - | start, fatal errors | all | process ends in the middle of calls | restart recovers |
| Backup pods (`python/redis_backup.py`, `redis_cluster_backup.py`) | archives in `/tmp` or in the data directories; the bucket; the result key in Redis | archive, upload, delete on failure, SET, EXPIRE | S3, Redis | steps that fail, also unnoticed, archives of pods that died, an upload by wildcard | what a result that says Succeed names is in the bucket, and no later pod touches it |
| Redisoperate reconciler (`controllers/redisoperate_controller.go`) | the failover flag in the spec | failover, patch of the flag | sentinel, API server | failover done, patch lost | a request is carried out, not too often |
| RedisClone reconciler and CloneInfoSync (`controllers/redisclone_controller.go`) | one condition in the status | rewrite of the status | Redis INFO, API server | two writers, one of which ignores conflicts; only changes of the spec start a call | the status names the destination and follows its replication |
| Restore scripts (`python/redis_recover.py`, `redis_cluster_recover.py`) | the data directories | download, unpack, remove | S3 | a death between download and the end, the retry, statuses that are ignored | a restore that ends well has restored what was asked for; redis_recover.py writes into no data that is there |
| Sentinel client (`utils/redis/redisclient.go`) | - | sequences of sentinel and redis commands | sentinels, redises | a sequence that stops in the middle, a command carried out late | a call that ends well has done what it was asked for; not called by the operator at this commit |

`controllers/redisbackup_controller_bak.go`, `utils/cronjob_bak.go` and
`utils/job_bak.go` are commented out from end to end. `api/v1alpha1/types.go`
and the deepcopy file hold data types and generated copies.

### How the parts interact

A user writes a RedisBackup. Its event reaches the informer cache and puts its
key in the work queue. A worker takes the key, reads the RedisBackup from the
cache, looks for the pod with the master label, and creates the CronJob (or the
Job, when there is no schedule) that mounts the master's claim, or deletes it
when it must be rebuilt: the deletion event brings the next call, which creates
it again. Backup pods set a key in database 15 of their Redis cluster; the
change of the CronJob's status when the pod ends brings the next call, which
reads the key and appends it to the conditions. CycleSync compares the claim of
the CronJob with the master's every half hour and deletes the CronJob when they
differ. All reads come from caches, all writes go to the API server, and a
status update is refused when the version it was computed from is not stored
any more.

A user asks for a failover by setting `failoverFlag` of a Redisoperate to 1. The
worker sends SENTINEL FAILOVER to the first sentinel pod of the cluster and
takes the flag back with a merge patch, which is accepted for any stored
version. For a RedisClone, a creation or a change of the spec makes Reconcile
write the status anew from what the first listed pod of the destination answers to
INFO replication; every five seconds CloneInfoSync updates what it finds in the
status. Both send the version they read, so either can be refused: Reconcile
then backs off, CloneInfoSync leaves it to its next call.

A backup pod packs each directory it mounts, uploads what is there and sets the
result key; a restore downloads and unpacks the archives that a result names
before its Redis starts.

The controllers share the process and nothing else: each has its own kind of
object and its own queue. A crash, which ends all of them, is an action of each
model.

## Modules

    ApiServer    WorkQueue
         \        /
        BackupState
         /        \
    Reconcile   CycleSync
         \        /
        RedisBackup
             |
      BackupProperties        BackupContract
         |         \             /
    BackupProofs   BackupRefinement
             \       /         \
    BackupRefinementProofs   MCRedisBackup

              CustomResource    WorkQueue
                 |        \     /      \
    CustomResourceProofs  RedisOperate  RedisClone
                    \        |            /   \
                     RedisOperateProofs  /  MCRedisClone
                                RedisCloneProofs

    SentinelClient        BackupScripts
          |                    |
    SentinelProofs       RecoverScripts
                               |
                         ScriptProofs

(`RedisClone` extends `CustomResource` too, and `RedisCloneProofs` extends
`CustomResourceProofs`. `BackupSafetyProofs` extends `BackupProofs`.)

* `ApiServer`: `store` (what the API server holds), `cache` (what the manager's
  informers hold), `watch` (the events in between, in order for each object) and
  `rev` (resourceVersions). `Put` is any write; `TakeEvent` a delivery; `Relist`
  the synced caches of a new process. A RedisBackup, its CronJob and its Job
  bear the same name, so an object is a kind and a name.
* `WorkQueue`: `dirty`, `processing` and `delayed` as in client-go. The FIFO is
  `dirty \ processing`, taken in any order.
* `BackupState`: the records, the state of the operator's calls, and the
  environment. `worker[w]` is a call of Reconcile with its program counter and
  locals, `cycle` the call of CycleSync, `master[c]` what the pod informer shows
  of the master of cluster `c` (its claim, none, a master that is not Running, or
  one whose first volume is no claim), `redis[c]` the result keys, `running` the backup pods.
* `Reconcile`: one action per call that Reconcile makes.

  | `pc` | action | code |
  |---|---|---|
  | idle | `StartReconcile`, `ReconcileNothing` | the worker's Get of a key and `r.Get` (83-91) |
  | pods | `FindMaster`, `PodListFails` | secret and pods (93-132) |
  | child | `GetChild` | the Job or the CronJob (155, 222) and the comparison of triples (271) |
  | compare | `CompareClaim` | v1beta1: the second Get (247-254) |
  | create | `CreateChild` | 157-171, 225-239 |
  | delete | `DeleteCronJob` | 257-262, 274-279 |
  | read | `RedisConn` | 178, 283 and the test for a new condition (291-293) |
  | append | `AppendCondition`, `UpdateRefused` | 187-193, 295-301 |
  | record | `RecordInfo`, `UpdateRefused` | 306-312 |

  `CallFails` is any of these calls failing for a reason of its own. `Panic` (of
  `RedisBackup`) is a nil dereference: at `compare`, of a CronJob that has gone
  (253), and at `pods`, of a first volume that is no claim (116).
* `CycleSync`: the same for CycleSync (`StartCycle`, `CycleFindMaster`,
  `CycleList`, `CycleDelete`), and what ends the process (`CycleFatal`): the
  fatal errors and the nil dereference at 356.
* `RedisBackup`: both beside users, informers, crashes, the garbage collector,
  CronJobs and their pods, and failovers; `Next`, `Spec`, `Fairness`.
* `BackupProperties`: the properties and the inductive invariant.
* `BackupContract`: what the users may see, told without caches, queues, workers
  and resourceVersions. `BackupRefinement`: the mapping under which RedisBackup
  implements it (see below).
* `BackupProofs`, `BackupSafetyProofs`, `BackupRefinementProofs`: the theorems.
  `MCRedisBackup`: the instances for TLC.
* `CustomResource`: `store`, `cache` and `watch` for the objects of one kind, for
  the controllers that own no other objects.
* `RedisOperate`: `call` is the call of Reconcile, `sentinels` the clusters that
  have a sentinel pod.

  | `pc` | action | code (`controllers/redisoperate_controller.go`) |
  |---|---|---|
  | idle | `StartReconcile`, `ReconcileNothing` | 54-65 |
  | list | `ListSentinels`, `Panic` | 67-80 |
  | failover | `FailOverOperate` | 81-88, `utils/redis/client.go` 44-64 |
  | patch | `Patch`, `PatchFails` | 90-99 |

* `RedisClone`: `call[w]` is the call of Reconcile in worker `w`, `sync` the call of CloneInfoSync,
  `replication[c]` what the pods of cluster `c` may answer, as a set: the code
  asks `Items[0]` of a list that the cache gives in any order (121, 201), so each
  call may meet another of them.

  | `pc` | action | code (`controllers/redisclone_controller.go`) |
  |---|---|---|
  | idle | `StartReconcile`, `ReconcileNothing` | 75-101 |
  | pods | `ReadReplication`, `PodListFails` | 103-140 |
  | update | `UpdateConditions`, `UpdateFails` | 141-149 |
  | idle | `StartSync` | CloneInfoSync, 152-179 |
  | pods | `RefreshReplication` | 180-222 |
  | update | `RefreshConditions` | 223-235 |

  A failed List in CloneInfoSync ends the process (`main.go` 193-195): `Crash`.
  `Passes` is the filter of `SetupWithManager` (`GenerationChangedPredicate`): an
  event starts a call when the object is created or deleted or its spec changes.
* `SentinelClient`: `sentinel` and `redis` are what the servers hold, `calls[c]`
  the commands that a caller has still to send, `late` the commands that were
  given up and may yet be carried out. Each operation is its sequence of
  commands (`MonitorRedis`, `SetCustomSentinelConfig`, `SetCustomRedisConfig`,
  `MakeSlaveOf`, `MakeMaster`, `ResetSentinel`); each command is `Accepted`,
  `Refused` or `GivenUp`, and an error ends the call, unless it is `Ignored`, as
  that of REMOVE is (190-192).
* `BackupScripts`: both backup scripts, told apart by `deployment`. `lying` is
  what lies in the directories (of archives), `bucket` what is in S3, each archive by the pod
  that made it and the directory it is of.

  | `pc` | action | `redis_backup.py` | `redis_cluster_backup.py` |
  |---|---|---|---|
  | idle | `StartPod` | 84-85 | 40-46 |
  | tar | `Tar`, `TarDir` | 27-32 | 47-58 |
  | put | `Put`, `PutFails` | 34-54 | 61-67 |
  | clear | `Clear` | 56 | 79 |
  | undo | `Undo` | - | 69-74 |
  | publish | `Publish` | 72-76 | 89-102 |
  | expire | `Expire` | 77-78 | - |

* `RecoverScripts`: both restore scripts, beside the pods of `BackupScripts`.
  `volume[d]` is what directory `d` holds: the archive that was fetched, the data
  that was unpacked last, whether files of other data lie among them (`mixed`) and
  whether node.conf has the local address (`local`).

  | `pc` | action | `redis_recover.py` | `redis_cluster_recover.py` |
  |---|---|---|---|
  | ls | `Ls` | 14-25 | 14-21 |
  | get | `Get` | 27-33 | 29-35 |
  | tar | `Unpack`, `TarFails` | 36-40 | 39-45 |
  | sed | `Sed` | - | 41 |
  | rm | `Rm` | 41-42 | 46 |
  | nothing | | 24-25: the directory is not empty | - |
  | succeed | | 42 | 47 |

* `CustomResourceProofs`, `RedisOperateProofs`, `RedisCloneProofs`,
  `ScriptProofs`, `SentinelProofs`: the theorems about these controllers, the
  scripts and the client. Their runs are of the modules themselves.

Some definitions are there to be compared with: `DoneForgets`, `IsNewOnce` and
the others whose comment says "mutated form". They are plausible slips in the
definition that follows each of them; no action uses them. Put in the place of
that definition they make TLC report the property they are listed with in
`PROJECT.json`.

### The refinement

| `BackupContract` | is, in RedisBackup |
|---|---|
| `object[b]` | uid, spec, recorded triple and conditions of the stored RedisBackup; its resourceVersion is hidden |
| `asked` | the specs of the versions that the store, the cache, the events on their way and the workers hold |
| `child[k]` | owner, cluster and triple of the stored CronJob or Job; its claim and its pods are hidden |
| `results` | the values of the result keys, and those that a worker has read |

In the contract a status changes by operations on what the object is at that
moment: `Log` puts one published result at the end of the list of a scheduled
RedisBackup, if it is of another run than the last one there, or makes it all of
the list of a one-time one; `Record` copies the triple of the spec. A CronJob or
Job is built (`Build`) for a spec that a user asked for and with the uid of that
RedisBackup, only where there is none, and never becomes another. In the
operator each of these is a call that reads old versions, writes later, may be
refused, fail or be cut short, beside others. `asked` and `results` may be
forgotten at any step: which old versions are still about is the operator's
affair. The contract is safety only; progress is in the liveness properties.

### Abstractions

* The triple (secret name, URL, schedule) is a model value, in `Scheduled` or
  in `OneShot` by whether the schedule is empty. A condition keeps the file,
  which names its run, and the object it was made for. File names are distinct
  in the model; the script's have a resolution of one second, and runs of a
  CronJob are minutes apart.
* Secret and pods are read in one step, `FindMaster`: neither is written by the
  operator, and what each shows is arbitrary anyway.
* Delivery to the cache and the handler's Add are one step. A worker that runs
  between the two in the real program reads the newer cache and will run once
  more.
* A call to the API server that is applied while its answer is lost is the
  write followed by `CallFails` of the next step, which ends the call with the
  same error.
* `r.Get` of the RedisBackup that fails for another reason than NotFound goes on
  with an empty object, whose secret does not exist: it is `CallFails` at
  `pods`. A failed discovery of the CronJob version yields the empty string and
  takes the batch/v1 path.
* A status update that changes nothing is no write and no event, as in the API
  server.
* CycleSync may start at any time for any cached RedisBackup: its informer has
  a cache of its own, and calls it at each update and each half hour. While the
  manager's caches are not started its Get fails and it returns nil, which is
  not to start.
* Any call of CycleSync that fails for a reason of its own, other than the List
  of pods, is fatal, hence a `Crash`.
* A crash and the next start are one step: workers start after the caches have
  listed, and a new process keeps nothing. The list of the new process puts
  every object in the queue.
* Leader election is off by default; one process runs.
* A pod's SET and the change of its CronJob's status are one step
  (`PodPublishes`). `PodFails` covers a pod that does not reach Redis.

* Redisoperate: once the caches are started, Get fails with NotFound only. A
  Get that failed otherwise would go on with an empty object, whose flag is not
  1, and return nil. A flag other than 0 and 1 is treated as 0 by the code. A
  List that fails leaves an empty list: with the flag up that is `Panic`. A
  panic ends the process, because the controllers do not set `RecoverPanic`.
* A result that does not parse (185, 286) is not in the model. The keys are
  written by the two backup scripts only, with `json.dumps` of a list of one
  object whose fields are those of `BackupCondition`, so no value that can be read
  fails to parse; the code would log it and go on without conditions, or panic.
* Redisoperate has one worker (controller-runtime's default).
* RedisClone: of the condition's fields that are copied from the spec the
  destination stands for all. Lag and status, which are always written
  together, are one field, `link`. List of pods and INFO are one step: the
  operator writes neither. A version number is only compared with the stored
  one, so a new version may take any number that no copy has; the model takes
  the least, which keeps the states finite while the status is written for ever.
  Of the start time only this is kept: Reconcile, which sets it to now, may write
  a condition that is otherwise as before (`UpdateStatus`), CloneInfoSync, which
  keeps it, may not.
* CloneInfoSync may start at any time for any cached RedisClone; its informer
  calls it at each update and every five seconds, one call after the other.
* RedisClone: a resync brings a version that is cached already, and the filter
  drops it.

* SentinelClient: one sentinel and one redis, addressed by name and host. RESET
  keeps the entries; what it forgets, the replicas and the other sentinels, is
  not modelled, nor is what a sentinel does by itself. The operations that count
  or compare what INFO answers (`GetNumberSentinelsInMemory`,
  `GetNumberSentinelSlavesInMemory`, `IsMaster`, `SlaveIsReady`) change nothing.
  The vendored go-redis retries only when it is told to, and it is not. A call with
  an empty list of configurations sends nothing and is left out.
* Scripts: pods run one after the other, as the retries of a Job and the runs of
  a CronJob that are further apart than a backup takes do. `/tmp` is empty when
  a pod starts, the data directories are not. Any command may fail, and those whose
  status the scripts ignore (rm, and sed and rm of the restores) then leave what
  they should have changed: `Clear` some of the archives, `Sed` the address, `Rm`
  the archive. tar writes over files that have the names of the archive's, and
  leaves the others (`Unpacked`). A killed pod or restore stops
  between two commands; a command cut off in the middle leaves what one that
  failed leaves. s3cmd put sends what matches the wildcard and fails when nothing
  does or when an upload fails, having sent any part; s3cmd get refuses a file
  that exists. Data that Redis writes into a volume later is `OldData`.
* RedisBackup sees of a backup pod only that it publishes a result last, or
  none, which is what `BackupScripts` has it do.

## Properties

Of RedisBackup, safety:

* `OneWorkerPerBackup`: two workers never reconcile one RedisBackup at a time.
* `NeverLosesChild`: when nothing about a RedisBackup is queued, delayed,
  processed or on its way, it has its CronJob or Job, unless the last call ended
  for want of a master. `gaveUp` is a history variable for that exception: the
  code returns nil there (109, 123, 131), so the model must not pretend the
  RedisBackup comes back at once.
* `RecordsCurrentSpec`: `LastBackupInfo` is only set to the triple that the spec
  has at that moment, though it is taken from a cached version.
* `ConditionsOnlyGrow`, `NoDuplicateCondition`: appended conditions stay, and a
  run is recorded once. The second holds for a RedisBackup that stays with one
  cluster, which the runs' single cluster name sees to: a condition is new when
  its run is not that of the last one, so a RedisBackup that is moved to another
  cluster and back records the last run there again.
* `ImplementsContract`: the refinement above.

Liveness, for a RedisBackup with a schedule and a cluster that keeps its
running master (`Attended`):

* `FollowsMaster`: its CronJob ends up on that master's claim, for good.
* `LastRunRecorded`: the last published run ends up as the last condition.
* `OwnsItsCronJob`: its CronJob ends up owned by it, and not by a deleted
  RedisBackup of the same name.

Of Redisoperate:

* `NeverForgetsRequest`: when nothing about a Redisoperate is queued, delayed,
  processed or on its way, its flag is down: failed patches, panics, crashes and
  stale reads leave no request lying. It does not say that each request was
  tried: the patch names no version, and one that takes down the flag of a later
  request satisfies it.
* `NoFailoverStorm`: once users have stopped asking, there is a last failover.

Of RedisClone:

* `StatusNamesDest`: at rest the status names the destination of the spec,
  although CloneInfoSync keeps the destination it finds in the status and may
  bring an old one back after an edit.
* `StatusTellsReplication`: when the replication of the destination stays as it
  is, the status ends up telling what one of its pods answers, for good, and so
  what all answer when they agree, though its change is no event and the two
  writers refuse each other's versions. Where the pods differ the status need not
  settle: each call asks the pod that is first in its list.

Of the sentinel client:

* `AsAsked`: at rest, after a call that was alone and ended well, the sentinel
  monitors what it asked for, with the password, and the redis has the role that
  was asked for. Of calls that overlapped, it is what one of them or of those
  before asked for, and after one that failed nothing is said until a call alone
  has ended well; nor after a command that was given up has arrived late. Those
  two are what the code cannot exclude: MonitorRedis that fails after REMOVE
  leaves nothing monitored, and a REMOVE without an answer may be carried out
  after the MONITOR.
* `ConfigsInOrder`: a list of configurations is applied from its front, and
  completely when the call ends well.

Of the scripts:

* `SucceedIsStored`: what a result that says Succeed names is in the bucket, and
  for a Redis Cluster it names a whole archive of each directory, though uploads
  are by wildcard and earlier pods leave archives. For the other deployment the
  archive may be torn: the script prints a failure of tar and goes on.
* `KeepsStored`: no later pod changes or deletes an archive that is in the bucket.
  rm may fail unnoticed, so a run that says Succeed may leave its archives in the
  data directories, and the next runs upload them again: only ever what is there
  already. What a failed upload undoes is of its own run.
* `RestoredWhole`: a restore that ends well has unpacked, in every directory, the
  whole archive it was asked for, whatever an earlier try left there and though
  the statuses of sed and rm are ignored. redis_recover.py has put it beside
  nothing else; redis_cluster_recover.py does not look what is there, so files of
  other data may lie among those of the backup, but node.conf has the local
  address unless a command failed. The archive itself may have stayed.
* `KeepsData`: redis_recover.py does not write into data that is there, neither
  Redis's own nor what a try that died had unpacked. (redis_cluster_recover.py
  does not look.)

A restore by redis_recover.py that dies after its download is not made up for:
the next try finds the directory not empty, says "nothing to do" and ends well.
The model has this end (`nothing`), and no property calls it a restore.

Statements of the source the code does not keep (`EditRebuilds`,
`OneTimeBackup`, `ConditionsAreOwn`): see Findings.

## Runs

The runs of RedisBackup are of module `MCRedisBackup`, the last four of
`RedisOperate`, `MCRedisClone`, `SentinelClient` and `RecoverScripts`. Deadlock is not checked: with the bounds on
users, failovers and failures used up, and nothing to do, the system rests.

| Run | Instance | What it shows |
|---|---|---|
| `schedule` | a RedisBackup with two triples, clusters of its cluster's name in two namespaces, 2 edits, 1 fault | no CronJob lost and no wrong triple recorded when a rebuild meets an edit, a claim that changes from call to call, a failed call or a crash; the contract is implemented |
| `results` | two workers, two backup runs, 1 fault | each run recorded once, none dropped, the last one recorded; the contract is implemented; the inductive invariant of the proofs |
| `follow` | 3 edits (create, delete, create), 1 failover, 1 fault | the CronJob follows the master, and the second RedisBackup of a name gets a CronJob of its own |
| `beta` | batch/v1beta1, a triple with and one without schedule, 2 edits, 1 failover, 1 run, 1 fault | the Job or CronJob of the current spec is never lost, although CycleSync ends the process each time |
| `shared` | two RedisBackups of one cluster, two workers, 1 fault; up to their names | one worker for each; CycleSync, whose List of pods fails, deletes the CronJob of either, also while a worker has it in hand, and none is lost |
| `edit_lost`, `repeated`, `foreign` | see Findings | violations |
| `operate` | two Redisoperates of one cluster, 3 edits, 1 fault, sentinels that come or go once | no request left lying, and a last failover; the inductive invariant of the proofs |
| `clone` | one RedisClone, two destinations, one worker, 2 edits, pods that agree on one of the reports or differ, 1 change of that, 1 fault | the status names the destination and ends up telling what a pod answers; the inductive invariant of the proofs |
| `sentinel` | two callers, one master name, two hosts, lists of one or two configurations, 3 calls, 1 command given up | a call that ends well has done what it was asked for, in order |
| `scripts` | both deployments, two directories, 3 pods, 3 faults | results name what is stored, later pods leave it alone, restores restore it |

Bounds. `MaxEdits`, `MaxMoves`, `MaxFaults` and `MaxRuns` bound the writes of
users, the failovers, the failed calls and crashes, and the backup runs of a
behaviour; `MaxLag` the undelivered events of one object. None bounds the
operator: workers, CycleSync, retries, resyncs and restarts after a fatal error
go on for ever. Two edits are enough for a rebuild to meet an edit, three for
delete and create again; one fault puts a failed call or a crash at every step;
two runs are enough for a condition to be overwritten or repeated; an event
that is delayed (`MaxLag` = 1) makes a stale cache, two of them make a cache
that is two versions behind. `schedule`, `operate` and `clone` have two,
the other runs of the operator one. One RedisBackup and one worker suffice where a second one
would only add interleavings of calls that share nothing: keys are processed
one at a time. `results` and `shared` have two workers, `shared` and `operate`
two objects. In `sentinel` three calls are a call that fails and two beside each
other, and one command given up is one that arrives late. In `scripts` three
faults are a pod that dies or an rm that fails, an upload that fails and a restore
that dies, and three pods an archive left by one, uploaded by the next, beside a
third. `shared` checks invariants only and treats states that differ in the names
of RedisBackups, workers or claims as one: no definition singles one of these
out. Each passing run ends within four minutes.

## Fairness

`FairSpec` assumes weak fairness of what the Go runtime and Kubernetes keep
doing: a worker goes on with its call and takes keys from the FIFO queue
(`Start` is fair for each key, because the queue is first in, first out), events
are delivered, a back-off elapses, the manager's caches are resynced
(controller-runtime resyncs about every ten hours; this is what brings a
RedisBackup back after a call that ended without a requeue), children of a
deleted owner are collected, a panic or a fatal error takes its course.
`StartCycle` is strongly fair: the informer of CycleSync handles its objects in
turn, so a call in progress for another object disables it again and again
without keeping it from its turn. Nothing is assumed of users, failovers,
backup pods, crashes and failures.

`RedisOperate` and `RedisClone` assume the same of the workers, events, back-off
and panics. `Start` is strongly fair for each key because a call for another key
only keeps it waiting in the first-in first-out queue; so is `StartSync`, whose
informer handles its objects in turn, every five seconds, and on which
`StatusTellsReplication` rests. `NeverForgetsRequest` and `StatusNamesDest` are
about rest and need no fairness. `sentinel` and `scripts` check safety only.

`FollowsMaster` is not claimed for batch/v1beta1, where CycleSync ends the
process each time it gets to its List, nor for clusters of one name in two
namespaces, where the claim found changes from call to call.
`NeverForgetsRequest` does not say that each request is tried: the patch names
no version, so a request that a user changes while the failover of the earlier
one is under way is cleared untried, and no text of the repository says
otherwise. A failover that the sentinel refuses is not repeated either.

## Findings

* `edit_lost` (`EditRebuilds`). "对比上次备份时backupInfo和本次备份的backupInfo是否一致，不一致则重建cronjob"
  (`controllers/redisbackup_controller.go:270`: rebuild the CronJob when the
  triple differs from that of the last backup). The triple is compared with
  the one recorded in the status, which is written after the CronJob. Edit A to
  B; Reconcile deletes the CronJob and creates it with B; the user reverts to A;
  the update of the status is refused. Status and spec are both A, and the
  CronJob runs with B until something else rebuilds it.
* `repeated` (`OneTimeBackup`). "如果BackupSchedule为空，则创建单次备份JOB" (line 145:
  a one-time backup Job). The Job is removed an hour after its end
  (`utils/cronjob.go:22`), its removal is an event, and Reconcile creates the
  next one.
* `foreign` (`ConditionsAreOwn`). "Conditions represents the backup resource
  conditions list" (`api/v1alpha1/redisbackup_types.go:80`). Scheduled
  RedisBackups of one cluster share the key `backupCronjob`, and each records
  the runs of the others.

## Proofs

### RedisBackup

`BackupProofs` proves for all values of the constants that satisfy
`BackupAssumption` and `AbsentAssumption` (sentinels are distinct from values,
bounds are natural numbers):

| Theorem | Statement |
|---|---|
| `TypeCorrect` | `Spec => []TypeOK` |
| `OneWorker` | `Spec => []OneWorkerPerBackup` |
| `Invariance` | `Spec => []IInv` |
| `RecordedSpecIsCurrent` | `Spec => RecordsCurrentSpec` |
| `ConditionsGrow` | `Spec => ConditionsOnlyGrow` |

`IInv` is `TypeOK /\ Progress /\ KeysInProcess /\ Coherent`.

* `TypeOK` alone is not inductive: that a CronJob is built with the claim of a
  pod depends on the call having found one at an earlier step. `Progress` says
  what a call knows at each step. (`InitTypes`, `NextTypes`; one lemma for each
  group of actions.)
* `OneWorkerPerBackup` is not inductive either: it needs that the key of a busy
  worker is marked in `processing`, since `Get` looks only there.
  (`KeysInProcess`, `KeysNext`.)
* `RecordsCurrentSpec` and `ConditionsOnlyGrow` are about writes computed from
  old versions. They hold because a write is accepted only for the stored
  resourceVersion, and because two versions with one number are one version,
  wherever the copies are: `Coherent` says that of the store, the cache, the
  events on their way and the workers. `ApiStep` lists the four things a step
  can do to the API server, `KnownKept` and `CachesCoherent` treat them once,
  `StatusWrites` lists what can replace a stored version.

`BackupSafetyProofs` proves the two invariants about states at rest and about
histories, from the same assumptions:

| Theorem | Statement |
|---|---|
| `ChildNotLost` | `Spec => []NeverLosesChild` |
| `RunRecordedOnce` | `OneCluster` implies `Spec => []NoDuplicateCondition` |

* `NeverLosesChild` speaks of states at rest, and a call may end with nil on what
  an old cache shows. `ChildInv` says why that is right. A cache with no event on
  its way holds what is stored (`Synced`); so when neither an event nor the queue
  is going to start another call (`Awaited`), the call in progress has the
  RedisBackup's present child in mind and, past `GetChild`, that child is cached
  and stored (`Sees`). Hence a RedisBackup without its child is with the events,
  the queue, the back-off or a worker, or was given up (`Tended`). Each lemma
  treats the steps that write (`Writes`), end a call (`ReturnKeeps`) or go on
  with it (`GotoKeeps`).
* `NoDuplicateCondition` rests on a comparison with the last condition only.
  `LogInv` says why that is enough: a run has a file of its own and publishes
  once (`RunsOnce`), so a value that was replaced does not come back (`Past`),
  and a run whose result was read has ended (`Gone`). Of the conditions only the
  last can be the value of the key (`Logged`), and what a call is about to append
  to the stored version is none of those there (`Ready`); that the version is
  still stored means, by `Coherent` and `CurrentBefore`, that it was stored when
  the key was read. `OneCluster` is needed: a RedisBackup that is moved to
  another cluster and back finds the old value again.

### The contract

`BackupRefinementProofs` proves `Refinement`, `Spec => ImplementsContract`, from
the same assumptions and `AbsentUnseen` (the absent object is none of those the
contract speaks of). Beside `IInv` the step simulation needs two invariants:
`UidsKnown`, no version has a uid of later than the number of writes, so that the
uid of a new RedisBackup is one that no version still about has; and `NewsOnly`,
a condition that Reconcile is about to append is not the last one of the version
it appends to, which by `Coherent` is what is stored when the update is accepted.
The kinds of steps have a lemma each: what users do (`UserSimulated`), the
accepted updates and the builds and removals of children (`StepSimulated`), what
is seen as nothing (`ProgressUnseen`, `PodEndUnseen`), results (`PublishSimulated`)
and the rest, where old versions and results can only be forgotten
(`AskedForgotten`, `ResultsForgotten`).

### Redisoperate and RedisClone

| Theorem | Statement | From |
|---|---|---|
| `OperateInvariant` | `Spec => []IInv` | `LagAssumption`, `OperateAssumption`, `OperateAbsent` |
| `RequestNotForgotten` | `Spec => []NeverForgetsRequest` | the same |
| `CloneInvariant` | `Spec => []IInv` | `LagAssumption`, `CloneAssumption`, `AnswersAssumption`, `CloneAbsent` |
| `DestShown` | `Spec => []StatusNamesDest` | the same |

Both safety properties speak of states at rest, which says nothing about a call
that is about to end. The invariants say who is responsible for an object that
is not yet as it should be:

* `Synced`: when events of an object are on their way, the last of them is what
  is stored, and when none is, the cache is.
* `Carried`: a request in the cache that no event is about to replace is with the
  queue, the back-off or the call. For RedisClone: while the stored status names
  another destination, an event that passes the filter is on its way (`Announced`),
  or the key is with the queue, the back-off or a worker.
* `ReadFromCache` (Redisoperate): the call has read what the cache holds, unless
  its key has been queued again. This is what lets a call end with nil: a flag
  that was down when it was read is down in the cache.
* `KeepsDest` (RedisClone): a call of Reconcile writes the destination it has
  read, CloneInfoSync that one or the status's, and both are refused unless what
  they read is stored (`Coherent`). Hence no write of a status makes it name
  another destination than before, unless that of the spec (`WriteInv`), which is
  why the second writer, that ignores conflicts, does no harm, and no call has to
  follow a status.
* `PutKeeps`, `TakeEventKeeps` and `RelistKeeps` of `CustomResourceProofs` say
  once for both that every write is an event.

### The scripts

`ScriptProofs` proves, from `ScriptAssumption` (at least one primary, bounds are
natural numbers) and `ResultAbsent` (no result is the absent one), for both
deployments and any number of primaries, pods and faults:

| Theorem | Statement |
|---|---|
| `ScriptTypes` | `Spec => []TypeOK` |
| `SucceedStored` | `Spec => []SucceedIsStored` |
| `Restored` | `Spec => []RestoredWhole` |
| `StoredKept` | `Spec => KeepsStored` |
| `DataKept` | `Spec => KeepsData` |

* Backups (`PodInv`, `LyingInv`, `ResultInv`). The upload is by wildcard, and pods
  that die and an rm that fails leave archives behind, so a pod of a Redis Cluster
  sends again what earlier pods left, torn archives and those of results included.
  Neither script looks at what makes this harmless: archives bear the number of
  their pod (`Named`), so none is packed or undone by another, and what lies of an
  archive that is in the bucket is that archive (`LyingInv`), because a pod packs
  before any of its archives is in the bucket and only uploads after. This gives
  `KeepsStored`, and with it `SucceedIsStored`: the pod at work is a later one than
  that of the result. `Packing`, `Uploading`, `Clearing` and `Uploaded` say how far
  the pod has come.
* Restores (`RestoreInv`). What a restore is given are the archives of one result,
  one for each directory. Every try starts at the first directory, and s3cmd get
  refuses an archive that an earlier try left, so what is unpacked was downloaded
  by this try; directories before the current one hold what was asked for
  (`Filled`), and neither sed nor rm, whether they fail or not, changes that.
  redis_recover.py is past its test of the directory only while that is empty,
  which gives `KeepsData` and that nothing is mixed.

The invariant, `ScriptInvariant`, was checked by TLC on the instance of `scripts`
before it was proved, as were those below on theirs.

### The sentinel client

`SentinelProofs` proves, for any number of callers, masters, hosts, parameters,
calls, configurations in a list and commands given up:

| Theorem | Statement |
|---|---|
| `ClientTypes` | `Spec => []TypeOK` |
| `AskedFor` | `Spec => []AsAsked` |
| `ConfigsApplied` | `Spec => ConfigsInOrder` |

The assumptions are `ClientAssumption` (the bounds are natural numbers, the redis is
no master name, and no custom configuration is about the password) and `NoEntry`
(no entry is the absent one). That custom configurations leave the password alone
is a restriction: the code passes on what it is given, and one that sets
`auth-pass` would make the password what it says. Lists of configurations may
have any length (`MaxConfigs` is the instance's bound).

`AsAsked` is about rest and says nothing of a call in progress; the invariant
(`ClientInvariant`) says who is responsible for what is not yet as asked.

* `Answered(m)`: while the masters that `m` may have are known, an entry that is
  missing is that of a call about to send MONITOR, one with another host that of a
  call about to set the password for that host, and one without the password that
  of a call about to set it. Either call ends well, and adds its host to those
  known, or fails, and makes them unknown (`SucceedKeeps`, `FailKeeps`).
* `LateTyped`: a MONITOR that was given up may arrive at any time, but its call
  has failed and made its master unknown, and that stays so until it has arrived:
  a call that begins before is not alone, and what it ends with is not known.
* `AloneInv`: a call with none beside it makes its host the only one known, so
  what it has done so far must be known exactly: the entry it is to set a password
  for has its host, though its own REMOVE may still arrive late; and of a list of
  configurations the first ones are in force, on top of what was there before, and
  the others are still to be sent in their order (`Applied`, `AppliedNext`).

### Only model-checked

Every safety invariant and action property of the passing runs is proved. The
liveness properties are not (`FollowsMaster`, `LastRunRecorded`,
`OwnsItsCronJob`, `NoFailoverStorm`, `StatusTellsReplication`): they need
fairness and ENABLED, which are out of the prover's reach. `NoDuplicateCondition`
is proved where there is one cluster, and is not true without that. The findings
are counterexamples of TLC.

## Plan

1. Done: the RedisBackup core, its type correctness and safety theorems.
2. Done: `RedisOperate` and `RedisClone`, with their safety theorems.
3. Done: the scripts and the sentinel client.
4. Done: the contract, its refinement by RedisBackup, and the proof.
5. Done: proofs of `NeverLosesChild` and, for one cluster, `NoDuplicateCondition`.
6. Done: proofs of the scripts' and of the sentinel client's properties.
7. Left: the parts of the liveness arguments that are safety (what a fair step
   makes progress on).

## Not modelled

Manifests, flags, health checks and leader election (off by default), the pod
template beyond claim, owner and label, the sentinel client's operations that
only count or compare, generated copies and the types of another operator,
vendored code other than the queue, the workers, the informers and the event
filters, and the commented-out files.
