---------------------------- MODULE RedisBackup ----------------------------
(***************************************************************************)
(* The operator's care of RedisBackup objects: Reconcile and CycleSync     *)
(* beside the users who edit the objects, the informers, the garbage       *)
(* collector, the backup pods and the failovers of the Redis clusters.     *)
(***************************************************************************)
EXTENDS Reconcile, CycleSync

opVars == <<worker, cycle>>
envVars == <<master, redis, running>>

----------------------------------------------------------------------------
\* The users of the API.  Every write is one of MaxEdits.

Edit ==
  /\ budget.edits > 0
  /\ budget' = [budget EXCEPT !.edits = @ - 1]

CreateBackup(b, spec) ==
  /\ store[BackupOf(b)] = Absent
  /\ Edit
  /\ PutBackup(b, [uid |-> rev[b] + 1, rv |-> 0, spec |-> spec,
                   last |-> NoInfo, conditions |-> <<>>])
  /\ UNCHANGED <<queueVars, opVars, envVars, gaveUp>>

EditBackup(b, spec) ==
  /\ store[BackupOf(b)] # Absent
  /\ store[BackupOf(b)].spec # spec
  /\ Edit
  /\ PutBackup(b, [store[BackupOf(b)] EXCEPT !.spec = spec])
  /\ UNCHANGED <<queueVars, opVars, envVars, gaveUp>>

DeleteBackup(b) ==
  /\ store[BackupOf(b)] # Absent
  /\ Edit
  /\ Put(BackupOf(b), Absent)
  /\ UNCHANGED <<rev, queueVars, opVars, envVars, gaveUp>>

----------------------------------------------------------------------------
\* The informers and the work queue.

\* An event reaches the cache, and the handler adds the owner's request.
Deliver(k) ==
  /\ TakeEvent(k)
  /\ Add(k[2])
  /\ UNCHANGED <<opVars, envVars, budget, gaveUp>>

Retry(b) ==
  /\ AddDelayed(b)
  /\ UNCHANGED <<apiVars, opVars, envVars, budget, gaveUp>>

\* The periodic resync of the manager's caches hands every cached object
\* to the handlers again.
Resync(b) ==
  /\ \E k \in {BackupOf(b), CronJobOf(b), JobOf(b)} : cache[k] # Absent
  /\ Add(b)
  /\ UNCHANGED <<apiVars, opVars, envVars, budget, gaveUp>>

----------------------------------------------------------------------------
\* The end of the process and the start of the next one.

Restart ==
  /\ Relist
  /\ Refill({b \in Backups : \E kind \in Kinds : store[<<kind, b>>] # Absent})
  /\ worker' = [w \in Workers |-> Idle]
  /\ cycle' = IdleCycle
  /\ UNCHANGED <<envVars, gaveUp>>

Crash == Fault /\ Restart

\* log.Fatalf of the informer's handler, or its panic.
Fatal == CycleFatal /\ Restart /\ UNCHANGED budget

\* Reconcile dereferences the claim of a master that mounts none, or the nil
\* CronJob that ExistCronJobV1beta1 returns.
Panic(w) ==
  /\ \/ InPc(w, "pods") /\ NoClaim \in MasterFound(worker[w].inst.spec.cluster)
     \/ InPc(w, "compare") /\ cache[CronJobOf(worker[w].key)] = Absent
  /\ Restart
  /\ UNCHANGED budget

----------------------------------------------------------------------------
\* The rest of Kubernetes and the Redis clusters.

\* The pod informer sees another master, or none.
MoveMaster(c) ==
  /\ budget.moves > 0
  /\ budget' = [budget EXCEPT !.moves = @ - 1]
  /\ \E m \in Masters \ {master[c]} : master' = [master EXCEPT ![c] = m]
  /\ UNCHANGED <<apiVars, queueVars, opVars, redis, running, gaveUp>>

\* The garbage collector removes a child whose owner is gone.
CollectChild(k) ==
  /\ store[k] # Absent
  /\ LET owner == store[BackupOf(k[2])] IN ~(owner # Absent /\ owner.uid = store[k].owner)
  /\ Put(k, Absent)
  /\ UNCHANGED <<rev, queueVars, opVars, envVars, budget, gaveUp>>

(***************************************************************************)
(* A CronJob starts a pod when its last one has ended, and a Job starts    *)
(* one.  The file gets the time of the start as its name.  MaxRuns bounds  *)
(* the number of runs.                                                     *)
(***************************************************************************)
ChildRuns(k) ==
  LET child == store[k] IN
  /\ child # Absent
  /\ child.active = 0 /\ ~child.done
  /\ budget.runs > 0
  /\ budget' = [budget EXCEPT !.runs = @ - 1]
  /\ running' = running \cup {[child |-> k, cluster |-> child.cluster, file |-> budget.runs]}
  /\ Put(k, [child EXCEPT !.active = budget.runs])
  /\ UNCHANGED <<rev, queueVars, opVars, master, redis, gaveUp>>

(***************************************************************************)
(* The end of a pod, which changes the status of the child that started    *)
(* it.  The pod of a deleted child goes on for a while, and may publish.   *)
(***************************************************************************)
PodEnds(r) ==
  LET child == store[r.child] IN
  /\ running' = running \ {r}
  /\ IF child # Absent /\ child.active = r.file
     THEN Put(r.child, [child EXCEPT !.active = 0, !.done = (r.child[1] = "Job")]) /\ UNCHANGED rev
     ELSE UNCHANGED apiVars
  /\ UNCHANGED <<queueVars, opVars, master, budget, gaveUp>>

KeyOfRun(r) == IF r.child[1] = "CronJob" THEN CronKey ELSE r.child[2]

PodPublishes(r) ==
  /\ PodEnds(r)
  /\ redis' = [redis EXCEPT ![<<Ns[r.child[2]], r.cluster>>][KeyOfRun(r)] =
                 [file |-> r.file, object |-> r.child[2]]]

\* It is killed with its child, runs out of time or does not reach Redis.
PodFails(r) ==
  /\ PodEnds(r)
  /\ UNCHANGED redis

\* An hour after its end a Job is removed, and its key expires.
JobExpires(b) ==
  /\ store[JobOf(b)] # Absent
  /\ store[JobOf(b)].done
  /\ Put(JobOf(b), Absent)
  /\ UNCHANGED <<rev, queueVars, opVars, envVars, budget, gaveUp>>

KeyExpires(c, b) ==
  /\ redis[c][b] # Absent
  /\ redis' = [redis EXCEPT ![c][b] = Absent]
  /\ UNCHANGED <<apiVars, queueVars, opVars, master, running, budget, gaveUp>>

----------------------------------------------------------------------------
User(b) ==
  \/ \E spec \in BackupSpec : CreateBackup(b, spec) \/ EditBackup(b, spec)
  \/ DeleteBackup(b)

Environment ==
  \/ \E c \in Clusters : MoveMaster(c) \/ \E b \in Backups : KeyExpires(c, b)
  \/ \E k \in Children : CollectChild(k) \/ ChildRuns(k)
  \/ \E b \in Backups : JobExpires(b)
  \/ \E r \in running : PodPublishes(r) \/ PodFails(r)

Process == Crash \/ Fatal \/ \E w \in Workers : Panic(w)

Informers ==
  \/ \E k \in Objects : Deliver(k)
  \/ \E b \in Backups : Retry(b) \/ Resync(b)

Operator ==
  \/ \E w \in Workers : Step(w) \/ \E b \in Backups : Start(w, b)
  \/ CycleStep \/ \E b \in Backups : StartCycle(b)

Next == (\E b \in Backups : User(b)) \/ Environment \/ Process \/ Informers \/ Operator

Spec == Init /\ [][Next]_vars

(***************************************************************************)
(* Weak fairness of what the runtime schedules: a worker takes every key   *)
(* of the FIFO queue and goes on to the end of its call, an informer       *)
(* delivers its events and resyncs, a back-off elapses, a deleted owner's  *)
(* children are collected.  The informer of CycleSync offers its objects   *)
(* in turn, hence strong fairness of StartCycle.  Users, failovers and     *)
(* failures have none.                                                     *)
(***************************************************************************)
Fairness ==
  /\ \A w \in Workers : WF_vars(Step(w))
  /\ \A b \in Backups :
       /\ WF_vars(\E w \in Workers : Start(w, b))
       /\ WF_vars(Retry(b))
       /\ WF_vars(Resync(b))
       /\ SF_vars(StartCycle(b))
  /\ WF_vars(CycleStep)
  /\ WF_vars(Fatal)
  /\ \A w \in Workers : WF_vars(Panic(w))
  /\ \A k \in Objects : WF_vars(Deliver(k))
  /\ \A k \in Children : WF_vars(CollectChild(k))

FairSpec == Spec /\ Fairness

============================================================================
