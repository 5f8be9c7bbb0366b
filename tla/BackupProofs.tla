---------------------------- MODULE BackupProofs ----------------------------
(***************************************************************************)
(* Proofs about RedisBackup, for any number of RedisBackups, clusters,     *)
(* namespaces and workers, and any bounds on the environment.              *)
(*                                                                         *)
(* IInv is inductive in four parts: the types together with what each call *)
(* has found out (NextTypes), the keys in process (KeysNext), and the      *)
(* coherence of the versions (NextCoherent), which rests on ApiStep, the   *)
(* four things a step can do to the API server.  The two action properties *)
(* follow from what a step can store (StatusWrites).  CondOfNext says what *)
(* a call can have read from Redis.                                        *)
(***************************************************************************)
EXTENDS BackupProperties, TLAPS

\* Facts about the records.

\* A RedisBackup keeps its type when one of its fields is changed.
LEMMA BackupFields ==
  ASSUME NEW v \in RedisBackup
  PROVE  /\ v.uid \in Nat /\ v.rv \in Nat /\ v.spec \in BackupSpec
         /\ v.spec.cluster \in ClusterNames /\ v.spec.info \in Infos
         /\ v.last \in Infos \cup {NoInfo} /\ v.conditions \in Seq(Condition)
         /\ \A n \in Nat : [v EXCEPT !.rv = n] \in RedisBackup
         /\ \A s \in BackupSpec : [v EXCEPT !.spec = s] \in RedisBackup
         /\ \A i \in Infos : [v EXCEPT !.last = i] \in RedisBackup
         /\ \A c \in Seq(Condition) : [v EXCEPT !.conditions = c] \in RedisBackup
BY DEF RedisBackup, BackupSpec

\* So does a CronJob or a Job.
LEMMA ChildFields ==
  ASSUME NEW v \in Child
  PROVE  /\ v.cluster \in ClusterNames /\ v.pvc \in Pvcs /\ v.active \in Nat
         /\ \A n \in Nat : [v EXCEPT !.active = n] \in Child
         /\ \A n \in Nat, d \in BOOLEAN : [v EXCEPT !.active = n, !.done = d] \in Child
         /\ \A d \in BOOLEAN : [v EXCEPT !.done = d] \in Child
BY DEF Child

\* What the objects of one RedisBackup are called, and may hold.
LEMMA ObjectNames ==
  ASSUME NEW b \in Backups
  PROVE  /\ {BackupOf(b), CronJobOf(b), JobOf(b)} \subseteq Objects
         /\ Versions(BackupOf(b)) = RedisBackup \cup {Absent}
         /\ Versions(CronJobOf(b)) = Child \cup {Absent}
         /\ Versions(JobOf(b)) = Child \cup {Absent}
         /\ \A v : ChildOf(b, v) \in {CronJobOf(b), JobOf(b)}
BY DEF BackupOf, CronJobOf, JobOf, Objects, Kinds, Versions, ChildOf

\* A child is a CronJob or a Job.
LEMMA ChildNames ==
  ASSUME NEW k \in Children
  PROVE  /\ k \in Objects /\ k[2] \in Backups /\ k[1] # "RedisBackup"
         /\ Versions(k) = Child \cup {Absent}
BY DEF Children, Objects, Kinds, Versions

\* A step that leaves the API server alone keeps its types.
LEMMA ApiFrame ==
  ASSUME ApiTypeOK, UNCHANGED apiVars
  PROVE  ApiTypeOK'
BY DEF apiVars, ApiTypeOK, Versions

\* A write of a well-typed version of an object keeps the types.
LEMMA PutTyped ==
  ASSUME ApiTypeOK, NEW k \in Objects, NEW v \in Versions(k), Put(k, v), rev' \in [Backups -> Nat]
  PROVE  ApiTypeOK'
<1>1. v \in Object
  BY DEF Versions, Object
<1>2. /\ store' = [store EXCEPT ![k] = v]
      /\ cache' = cache
      /\ watch' = [watch EXCEPT ![k] = Append(@, v)]
  BY DEF Put
<1>3. /\ watch[k] \in Seq(Object) /\ watch[k] \in Seq(Versions(k))
  BY DEF ApiTypeOK
<1>4. /\ Append(watch[k], v) \in Seq(Object) /\ Append(watch[k], v) \in Seq(Versions(k))
  BY <1>1, <1>3
<1>5. /\ store' \in [Objects -> Object] /\ watch' \in [Objects -> Seq(Object)]
  BY <1>1, <1>2, <1>4 DEF ApiTypeOK
<1>6. ASSUME NEW j \in Objects
      PROVE  store'[j] \in Versions(j) /\ watch'[j] \in Seq(Versions(j))
  BY <1>2, <1>4 DEF ApiTypeOK
<1> QED BY <1>2, <1>5, <1>6 DEF ApiTypeOK, Versions

\* So does a write that takes the next resourceVersion.
LEMMA PutBackupTyped ==
  ASSUME ApiTypeOK, NEW b \in Backups, NEW v \in RedisBackup, PutBackup(b, v)
  PROVE  ApiTypeOK'
<1>1. rev[b] + 1 \in Nat /\ rev' \in [Backups -> Nat]
  BY DEF ApiTypeOK, PutBackup
<1>2. [v EXCEPT !.rv = rev[b] + 1] \in RedisBackup
  BY <1>1, BackupFields
<1> QED BY <1>1, <1>2, PutTyped, ObjectNames DEF PutBackup

----------------------------------------------------------------------------
\* Types and progress: one lemma for each group of actions.

\* The initial states are well typed.
LEMMA InitTypes == Init => TypeOK /\ Progress
<1> SUFFICES ASSUME Init PROVE TypeOK /\ Progress
  OBVIOUS
<1>1. ApiTypeOK
  BY DEF Init, InitApiServer, ApiTypeOK, Versions, Object
<1>2. QueueTypeOK
  BY DEF Init, InitWorkQueue, QueueTypeOK
<1>3. EnvTypeOK
  BY BackupAssumption DEF Init, EnvTypeOK, BackupAssumption, Budget
<1>4. Progress
  BY DEF Init, Progress, Idle, IdleCycle, WorkerPc, InPc
<1> QED BY <1>1, <1>2, <1>3, <1>4 DEF TypeOK, Init

\* Steps that leave the calls of the operator alone.
LEMMA OpFrame ==
  ASSUME TypeOK, Progress, UNCHANGED opVars, ApiTypeOK', QueueTypeOK', EnvTypeOK'
  PROVE  TypeOK' /\ Progress'
BY DEF TypeOK, Progress, opVars, InPc, IsScheduled, WorkerPc

\* A bound that is not used up may be lowered.
LEMMA BudgetTyped ==
  ASSUME EnvTypeOK
  PROVE  /\ budget.edits \in Nat /\ budget.moves \in Nat /\ budget.faults \in Nat /\ budget.runs \in Nat
         /\ budget.edits > 0 => [budget EXCEPT !.edits = @ - 1] \in Budget
         /\ budget.moves > 0 => [budget EXCEPT !.moves = @ - 1] \in Budget
         /\ budget.faults > 0 => [budget EXCEPT !.faults = @ - 1] \in Budget
         /\ budget.runs > 0 => [budget EXCEPT !.runs = @ - 1] \in Budget
BY DEF EnvTypeOK, Budget

\* The writes of the users keep the types.
LEMMA UserTypes ==
  ASSUME TypeOK, Progress, NEW b \in Backups, User(b)
  PROVE  TypeOK' /\ Progress'
<1>1. CASE \E spec \in BackupSpec : CreateBackup(b, spec)
  <2> PICK spec \in BackupSpec : CreateBackup(b, spec)
    BY <1>1
  <2>1. rev[b] + 1 \in Nat
    BY DEF TypeOK, ApiTypeOK
  <2>2. [uid |-> rev[b] + 1, rv |-> 0, spec |-> spec, last |-> NoInfo, conditions |-> <<>>]
          \in RedisBackup
    BY <2>1 DEF RedisBackup
  <2>3. ApiTypeOK'
    BY <2>2, PutBackupTyped DEF CreateBackup, TypeOK
  <2>4. QueueTypeOK' /\ EnvTypeOK'
    BY BudgetTyped DEF CreateBackup, Edit, TypeOK, QueueTypeOK, EnvTypeOK, queueVars, envVars
  <2> QED BY <2>3, <2>4, OpFrame DEF CreateBackup
<1>2. CASE \E spec \in BackupSpec : EditBackup(b, spec)
  <2> PICK spec \in BackupSpec : EditBackup(b, spec)
    BY <1>2
  <2>1. store[BackupOf(b)] \in RedisBackup
    BY ObjectNames DEF TypeOK, ApiTypeOK, EditBackup
  <2>2. [store[BackupOf(b)] EXCEPT !.spec = spec] \in RedisBackup
    BY <2>1, BackupFields
  <2>3. ApiTypeOK'
    BY <2>2, PutBackupTyped DEF EditBackup, TypeOK
  <2>4. QueueTypeOK' /\ EnvTypeOK'
    BY BudgetTyped DEF EditBackup, Edit, TypeOK, QueueTypeOK, EnvTypeOK, queueVars, envVars
  <2> QED BY <2>3, <2>4, OpFrame DEF EditBackup
<1>3. CASE DeleteBackup(b)
  <2>1. ApiTypeOK'
    BY <1>3, PutTyped, ObjectNames DEF DeleteBackup, TypeOK, ApiTypeOK
  <2>2. QueueTypeOK' /\ EnvTypeOK'
    BY <1>3, BudgetTyped DEF DeleteBackup, Edit, TypeOK, QueueTypeOK, EnvTypeOK, queueVars, envVars
  <2> QED BY <1>3, <2>1, <2>2, OpFrame DEF DeleteBackup
<1> QED BY <1>1, <1>2, <1>3 DEF User

\* A delivered event keeps the types of the caches.
LEMMA TakeEventTyped ==
  ASSUME ApiTypeOK, NEW k \in Objects, TakeEvent(k)
  PROVE  ApiTypeOK'
<1>1. /\ watch[k] \in Seq(Versions(k)) /\ watch[k] \in Seq(Object) /\ watch[k] # <<>>
  BY DEF ApiTypeOK, TakeEvent
<1>2. /\ Head(watch[k]) \in Versions(k) /\ Head(watch[k]) \in Object
      /\ Tail(watch[k]) \in Seq(Versions(k)) /\ Tail(watch[k]) \in Seq(Object)
  BY <1>1
<1>3. /\ cache' = [cache EXCEPT ![k] = Head(watch[k])]
      /\ watch' = [watch EXCEPT ![k] = Tail(@)]
      /\ store' = store /\ rev' = rev
  BY DEF TakeEvent
<1>4. cache' \in [Objects -> Object] /\ watch' \in [Objects -> Seq(Object)]
  BY <1>2, <1>3 DEF ApiTypeOK
<1>5. ASSUME NEW j \in Objects
      PROVE  cache'[j] \in Versions(j) /\ watch'[j] \in Seq(Versions(j))
  BY <1>2, <1>3 DEF ApiTypeOK
<1> QED BY <1>3, <1>4, <1>5 DEF ApiTypeOK, Versions

\* The informers, the back-off and the resync keep the types.
LEMMA InformerTypes ==
  ASSUME TypeOK, Progress, Informers
  PROVE  TypeOK' /\ Progress'
<1>1. CASE \E k \in Objects : Deliver(k)
  <2> PICK k \in Objects : Deliver(k)
    BY <1>1
  <2>1. k[2] \in Backups
    BY DEF Objects
  <2>2. QueueTypeOK' /\ EnvTypeOK'
    BY <2>1 DEF Deliver, Add, TypeOK, QueueTypeOK, EnvTypeOK, envVars
  <2> QED BY <2>2, TakeEventTyped, OpFrame DEF Deliver, TypeOK
<1>2. CASE \E b \in Backups : Retry(b) \/ Resync(b)
  <2>1. ApiTypeOK'
    BY <1>2 DEF Retry, Resync, apiVars, TypeOK, ApiTypeOK, Versions
  <2>2. QueueTypeOK' /\ EnvTypeOK'
    BY <1>2 DEF Retry, Resync, AddDelayed, Add, TypeOK, QueueTypeOK, EnvTypeOK, envVars
  <2> QED BY <1>2, <2>1, <2>2, OpFrame DEF Retry, Resync
<1> QED BY <1>1, <1>2 DEF Informers

\* A new process starts well typed.
LEMMA RestartTypes ==
  ASSUME TypeOK, Restart, budget' \in Budget
  PROVE  TypeOK' /\ Progress'
<1>1. ApiTypeOK'
  <2>1. /\ store' = store /\ cache' = store /\ rev' = rev
        /\ watch' = [k \in Objects |-> <<>>]
    BY DEF Restart, Relist
  <2>2. watch' \in [Objects -> Seq(Object)] /\ \A k \in Objects : watch'[k] \in Seq(Versions(k))
    BY <2>1
  <2> QED BY <2>1, <2>2 DEF TypeOK, ApiTypeOK, Versions
<1>2. QueueTypeOK' /\ EnvTypeOK'
  BY DEF Restart, Refill, TypeOK, QueueTypeOK, EnvTypeOK, envVars
<1>3. worker' \in [Workers -> Busy \cup {Idle}] /\ cycle' \in BusyCycle \cup {IdleCycle}
  BY DEF Restart
<1>4. Progress'
  BY DEF Restart, Progress, Idle, IdleCycle, InPc, WorkerPc
<1> QED BY <1>1, <1>2, <1>3, <1>4 DEF TypeOK

\* However the process ends, the next one starts well typed.
LEMMA ProcessTypes ==
  ASSUME TypeOK, Process
  PROVE  TypeOK' /\ Progress'
<1>1. Restart
  BY DEF Process, Crash, Fatal, Panic
<1>2. budget' \in Budget
  BY BudgetTyped DEF Process, Crash, Fatal, Panic, Fault, TypeOK, EnvTypeOK
<1> QED BY <1>1, <1>2, RestartTypes

\* One key of one Redis cluster may be set.
LEMMA RedisTyped ==
  ASSUME EnvTypeOK, NEW c \in Clusters, NEW k \in RedisKeys, NEW v \in Condition \cup {Absent}
  PROVE  [redis EXCEPT ![c][k] = v] \in [Clusters -> [RedisKeys -> Condition \cup {Absent}]]
<1>1. redis[c] \in [RedisKeys -> Condition \cup {Absent}]
  BY DEF EnvTypeOK
<1>2. [redis[c] EXCEPT ![k] = v] \in [RedisKeys -> Condition \cup {Absent}]
  BY <1>1
<1> QED BY <1>2 DEF EnvTypeOK

\* Failovers, garbage collection and backup pods keep the types.
LEMMA EnvironmentTypes ==
  ASSUME TypeOK, Progress, Environment
  PROVE  TypeOK' /\ Progress'
<1> USE DEF TypeOK
<1>1. CASE \E c \in Clusters : MoveMaster(c)
  <2> PICK c \in Clusters : MoveMaster(c)
    BY <1>1
  <2>1. ApiTypeOK' /\ QueueTypeOK'
    BY DEF MoveMaster, apiVars, queueVars, ApiTypeOK, QueueTypeOK, Versions
  <2>2. master' \in [Clusters -> Masters]
    BY DEF MoveMaster, EnvTypeOK
  <2>3. EnvTypeOK'
    BY <2>2, BudgetTyped DEF MoveMaster, EnvTypeOK
  <2> QED BY <2>1, <2>3, OpFrame DEF MoveMaster
<1>2. CASE \E c \in Clusters, b \in Backups : KeyExpires(c, b)
  <2> PICK c \in Clusters, b \in Backups : KeyExpires(c, b)
    BY <1>2
  <2>1. ApiTypeOK' /\ QueueTypeOK'
    BY DEF KeyExpires, apiVars, queueVars, ApiTypeOK, QueueTypeOK, Versions
  <2>2. redis' \in [Clusters -> [RedisKeys -> Condition \cup {Absent}]]
    BY RedisTyped DEF KeyExpires, EnvTypeOK, RedisKeys
  <2>3. EnvTypeOK'
    BY <2>2 DEF KeyExpires, EnvTypeOK
  <2> QED BY <2>1, <2>3, OpFrame DEF KeyExpires
<1>3. CASE \E k \in Children : CollectChild(k)
  <2> PICK k \in Children : CollectChild(k)
    BY <1>3
  <2>1. ApiTypeOK'
    BY PutTyped, ChildNames DEF CollectChild, ApiTypeOK
  <2>2. QueueTypeOK' /\ EnvTypeOK'
    BY DEF CollectChild, QueueTypeOK, EnvTypeOK, queueVars, envVars
  <2> QED BY <2>1, <2>2, OpFrame DEF CollectChild
<1>4. CASE \E k \in Children : ChildRuns(k)
  <2> PICK k \in Children : ChildRuns(k)
    BY <1>4
  <2>1. store[k] \in Child
    BY ChildNames DEF ChildRuns, ApiTypeOK
  <2>2. budget.runs \in Nat /\ [store[k] EXCEPT !.active = budget.runs] \in Child
    BY <2>1, ChildFields, BudgetTyped
  <2>3. ApiTypeOK'
    BY <2>1, <2>2, PutTyped, ChildNames DEF ChildRuns, ApiTypeOK
  <2>4. [child |-> k, cluster |-> store[k].cluster, file |-> budget.runs] \in Run
    BY <2>1, <2>2, ChildFields DEF Run
  <2>5. QueueTypeOK' /\ EnvTypeOK'
    BY <2>4, BudgetTyped DEF ChildRuns, QueueTypeOK, EnvTypeOK, queueVars
  <2> QED BY <2>3, <2>5, OpFrame DEF ChildRuns
<1>5. CASE \E b \in Backups : JobExpires(b)
  <2> PICK b \in Backups : JobExpires(b)
    BY <1>5
  <2>1. ApiTypeOK'
    BY PutTyped, ObjectNames DEF JobExpires, ApiTypeOK
  <2>2. QueueTypeOK' /\ EnvTypeOK'
    BY DEF JobExpires, QueueTypeOK, EnvTypeOK, queueVars, envVars
  <2> QED BY <2>1, <2>2, OpFrame DEF JobExpires
<1>6. CASE \E r \in running : PodPublishes(r) \/ PodFails(r)
  <2> PICK r \in running : PodPublishes(r) \/ PodFails(r)
    BY <1>6
  <2>1. r.child \in Children /\ r.cluster \in ClusterNames /\ r.file \in Nat
    BY DEF EnvTypeOK, Run
  <2>2. PodEnds(r)
    BY DEF PodPublishes, PodFails
  <2>3. ApiTypeOK'
    <3>1. CASE UNCHANGED apiVars
      BY <3>1 DEF apiVars, ApiTypeOK, Versions
    <3>2. CASE /\ store[r.child] # Absent
               /\ Put(r.child, [store[r.child] EXCEPT !.active = 0, !.done = (r.child[1] = "Job")])
               /\ UNCHANGED rev
      <4>1. store[r.child] \in Child
        BY <2>1, <3>2, ChildNames DEF ApiTypeOK
      <4>2. [store[r.child] EXCEPT !.active = 0, !.done = (r.child[1] = "Job")] \in Child
        BY <4>1, ChildFields
      <4> QED BY <2>1, <3>2, <4>2, PutTyped, ChildNames DEF ApiTypeOK
    <3> QED BY <2>2, <3>1, <3>2 DEF PodEnds
  <2>4. redis' \in [Clusters -> [RedisKeys -> Condition \cup {Absent}]]
    <3>1. r.child[2] \in Backups /\ Ns[r.child[2]] \in Namespaces
      BY <2>1, ChildNames, BackupAssumption DEF BackupAssumption
    <3>2. KeyOfRun(r) \in RedisKeys /\ <<Ns[r.child[2]], r.cluster>> \in Clusters
      BY <2>1, <3>1 DEF KeyOfRun, RedisKeys, Clusters
    <3>3. [file |-> r.file, object |-> r.child[2]] \in Condition
      BY <2>1, <3>1 DEF Condition
    <3>4. [redis EXCEPT ![<<Ns[r.child[2]], r.cluster>>][KeyOfRun(r)] =
                           [file |-> r.file, object |-> r.child[2]]]
            \in [Clusters -> [RedisKeys -> Condition \cup {Absent}]]
      BY <3>2, <3>3, RedisTyped
    <3>5. redis \in [Clusters -> [RedisKeys -> Condition \cup {Absent}]]
      BY DEF EnvTypeOK
    <3> QED BY <3>4, <3>5 DEF PodPublishes, PodFails
  <2>5. QueueTypeOK' /\ EnvTypeOK'
    BY <2>2, <2>4 DEF PodEnds, QueueTypeOK, EnvTypeOK, queueVars
  <2> QED BY <2>2, <2>3, <2>5, OpFrame DEF PodEnds
<1> QED BY <1>1, <1>2, <1>3, <1>4, <1>5, <1>6 DEF Environment

----------------------------------------------------------------------------
\* A step of worker w sets worker[w] to a typed call, or ends the call.

LEMMA WorkerStep ==
  ASSUME TypeOK, Progress, NEW w \in Workers, NEW next \in Busy \cup {Idle},
         Goto(w, next), cycle' = cycle,
         ApiTypeOK', QueueTypeOK', EnvTypeOK',
         next.pc \in WorkerPc \ {"pods"} => next.pvc \in Pvcs,
         next.pc = "append" => next.cond # Absent,
         next.pc = "compare" \/ next.pc = "delete" => IsScheduled(next.inst)
  PROVE  TypeOK' /\ Progress'
<1>1. /\ worker' = [worker EXCEPT ![w] = next]
      /\ worker \in [Workers -> Busy \cup {Idle}]
  BY DEF Goto, TypeOK
<1>2. TypeOK'
  BY <1>1 DEF TypeOK
<1>3. worker'[w] = next /\ \A v \in Workers \ {w} : worker'[v] = worker[v]
  BY <1>1
<1>4. Progress'
  BY <1>3 DEF Progress, InPc, IsScheduled
<1> QED BY <1>2, <1>4

\* The idle worker has none of the steps of a call.
LEMMA IdleFields == Idle.pc = "idle" /\ "idle" \notin WorkerPc
BY DEF Idle, WorkerPc

\* A worker that is not idle has a request and a version of its object.
LEMMA BusyFields ==
  ASSUME TypeOK, NEW w \in Workers, ~InPc(w, "idle")
  PROVE  /\ worker[w] \in Busy
         /\ worker[w].key \in Backups /\ worker[w].inst \in RedisBackup /\ worker[w].pc \in WorkerPc
BY DEF TypeOK, InPc, Busy, Idle

\* The end of a call keeps the types.
LEMMA ReturnTypes ==
  ASSUME TypeOK, Progress, NEW w \in Workers, ~InPc(w, "idle"), Return(w) \/ Fail(w), cycle' = cycle,
         ApiTypeOK', EnvTypeOK'
  PROVE  TypeOK' /\ Progress'
<1>1. QueueTypeOK'
  BY BusyFields DEF Return, Fail, Done, DoneWithError, TypeOK, QueueTypeOK
<1>2. Goto(w, Idle)
  BY DEF Return, Fail
<1> QED BY <1>1, <1>2, WorkerStep, IdleFields

\* The start of a call keeps the types.
LEMMA StartTypes ==
  ASSUME TypeOK, Progress, NEW w \in Workers, NEW b \in Backups, Start(w, b)
  PROVE  TypeOK' /\ Progress'
<1>1. ApiTypeOK'
  <2>1. UNCHANGED apiVars
    BY DEF Start, StartReconcile, ReconcileNothing
  <2> QED BY <2>1, ApiFrame DEF TypeOK
<1>2. QueueTypeOK' /\ EnvTypeOK'
  BY DEF Start, StartReconcile, ReconcileNothing, Get, TypeOK, QueueTypeOK, EnvTypeOK
<1>3. CASE StartReconcile(w, b)
  <2> DEFINE next == [pc |-> "pods", key |-> b, inst |-> cache[BackupOf(b)],
                      pvc |-> Absent, cond |-> Absent]
  <2>1. cache[BackupOf(b)] \in RedisBackup
    BY <1>3, ObjectNames DEF StartReconcile, TypeOK, ApiTypeOK
  <2>2. next \in Busy /\ next.pc = "pods"
    BY <2>1 DEF Busy, WorkerPc
  <2>3. Goto(w, next) /\ cycle' = cycle
    BY <1>3 DEF StartReconcile
  <2> HIDE DEF next
  <2> QED BY <1>1, <1>2, <2>2, <2>3, WorkerStep
<1>4. CASE ReconcileNothing(w, b)
  BY <1>1, <1>2, <1>4, OpFrame DEF ReconcileNothing, opVars
<1> QED BY <1>3, <1>4 DEF Start

\* A call that goes on to its next step keeps what it has found out.
LEMMA BusyPc ==
  ASSUME NEW call \in Busy, NEW pc \in WorkerPc, NEW next, next = [call EXCEPT !.pc = pc]
  PROVE  next \in Busy /\ next.pc = pc /\ next.pvc = call.pvc /\ next.inst = call.inst
BY DEF Busy

\* A status update keeps the types, and leaves an object in the store.
LEMMA UpdateStatusTyped ==
  ASSUME ApiTypeOK, NEW b \in Backups, NEW v \in RedisBackup, NEW u \in RedisBackup,
         UpdateStatus(b, v, u)
  PROVE  ApiTypeOK' /\ store'[BackupOf(b)] \in RedisBackup
<1>1. ApiTypeOK'
  <2>1. CASE UNCHANGED apiVars
    BY <2>1 DEF apiVars, ApiTypeOK, Versions
  <2>2. CASE PutBackup(b, u)
    BY <2>2, PutBackupTyped
  <2> QED BY <2>1, <2>2 DEF UpdateStatus
<1>2. store'[BackupOf(b)] # Absent
  <2>1. CASE UNCHANGED apiVars
    BY <2>1 DEF apiVars, UpdateStatus, Current
  <2>2. CASE PutBackup(b, u)
    <3> rev[b] + 1 \in Nat
      BY DEF ApiTypeOK
    <3>1. [u EXCEPT !.rv = rev[b] + 1] \in RedisBackup
      BY BackupFields
    <3>2. store'[BackupOf(b)] = [u EXCEPT !.rv = rev[b] + 1]
      BY <2>2, ObjectNames DEF PutBackup, Put, ApiTypeOK
    <3> QED BY <3>1, <3>2, AbsentAssumption DEF AbsentAssumption
  <2> QED BY <2>1, <2>2 DEF UpdateStatus
<1> QED BY <1>1, <1>2, ObjectNames DEF ApiTypeOK

\* Every step of a call of Reconcile keeps the types.
LEMMA StepTypes ==
  ASSUME TypeOK, Progress, NEW w \in Workers, Step(w)
  PROVE  TypeOK' /\ Progress'
<1> DEFINE self == worker[w]
           b == self.key
<1>1. ~InPc(w, "idle") /\ UNCHANGED <<cycle, master, redis, running>>
  BY DEF Step, FindMaster, PodListFails, CallFails, GetChild, CompareClaim, CreateChild,
         DeleteCronJob, RedisConn, ReadRedis, AppendCondition, RecordInfo, UpdateRefused, InPc, WorkerPc
<1>2. self \in Busy /\ b \in Backups /\ self.inst \in RedisBackup /\ self.pc \in WorkerPc
  BY <1>1, BusyFields
<1>3. EnvTypeOK'
  <2>1. budget' \in Budget
    BY BudgetTyped DEF Step, FindMaster, PodListFails, CallFails, GetChild, CompareClaim, CreateChild,
         DeleteCronJob, RedisConn, ReadRedis, AppendCondition, RecordInfo, UpdateRefused, Fault, TypeOK, EnvTypeOK
  <2>2. gaveUp' \in [Backups -> BOOLEAN]
    BY DEF Step, FindMaster, PodListFails, CallFails, GetChild, CompareClaim, CreateChild,
         DeleteCronJob, RedisConn, ReadRedis, AppendCondition, RecordInfo, UpdateRefused, TypeOK, EnvTypeOK
  <2> QED BY <1>1, <2>1, <2>2 DEF TypeOK, EnvTypeOK
<1>4. self.pc \in WorkerPc \ {"pods"} => self.pvc \in Pvcs
  BY DEF Progress
<1> HIDE DEF self
<1>5. CASE FindMaster(w)
  <2>1. ApiTypeOK'
    BY <1>5, ApiFrame DEF FindMaster, TypeOK
  <2>2. CASE Return(w)
    BY <1>1, <1>3, <2>1, <2>2, ReturnTypes
  <2>3. CASE ~Return(w)
    <3> PICK found \in Pvcs : Goto(w, [self EXCEPT !.pc = "child", !.pvc = found]) /\ UNCHANGED queueVars
      BY <1>5, <2>3 DEF FindMaster, self
    <3> DEFINE next == [self EXCEPT !.pc = "child", !.pvc = found]
    <3>3. Goto(w, next) /\ next = [self EXCEPT !.pc = "child", !.pvc = found]
      OBVIOUS
    <3> HIDE DEF next
    <3>1. next \in Busy /\ next.pc = "child" /\ next.pvc = found
      BY <1>2, <3>3 DEF WorkerPc, Busy
    <3>2. QueueTypeOK'
      BY DEF queueVars, TypeOK, QueueTypeOK
    <3> QED BY <1>1, <1>3, <2>1, <3>1, <3>2, <3>3, WorkerStep
  <2> QED BY <2>2, <2>3
<1>6. CASE PodListFails(w) \/ CallFails(w) \/ UpdateRefused(w)
  <2>1. ApiTypeOK' /\ (Return(w) \/ Fail(w))
    BY <1>6, ApiFrame DEF PodListFails, CallFails, UpdateRefused, TypeOK
  <2> QED BY <1>1, <1>3, <2>1, ReturnTypes
<1>7. CASE GetChild(w) \/ CompareClaim(w)
  <2>1. PICK next \in {"create", "read", "compare", "delete"} :
          /\ Goto(w, [self EXCEPT !.pc = next])
          /\ next \in {"compare", "delete"} => IsScheduled(self.inst)
    BY <1>7 DEF GetChild, CompareClaim, self, Progress
  <2>2. ApiTypeOK' /\ QueueTypeOK' /\ self.pvc \in Pvcs
    BY <1>4, <1>7, ApiFrame DEF GetChild, CompareClaim, TypeOK, QueueTypeOK, queueVars, InPc, self, WorkerPc
  <2> DEFINE call == [self EXCEPT !.pc = next]
  <2>3. call \in Busy /\ call.pc = next /\ call.pvc = self.pvc /\ call.inst = self.inst
    BY <1>2, BusyPc DEF WorkerPc
  <2>4. Goto(w, call)
    BY <2>1
  <2> HIDE DEF call
  <2> QED BY <1>1, <1>3, <2>1, <2>2, <2>3, <2>4, WorkerStep
<1>8. CASE CreateChild(w)
  <2> DEFINE k == ChildOf(b, self.inst)
             child == MakeCronJob(self.inst, self.pvc)
  <2>1. self.pvc \in Pvcs
    BY <1>4, <1>8 DEF CreateChild, InPc, self, WorkerPc
  <2>2. child \in Child
    BY <1>2, <2>1, BackupFields DEF MakeCronJob, Child
  <2>3. k \in Objects /\ Versions(k) = Child \cup {Absent}
    BY <1>2, ObjectNames
  <2>4. UNCHANGED apiVars \/ (Put(k, child) /\ UNCHANGED rev)
    BY <1>8 DEF CreateChild, self
  <2>5. ApiTypeOK'
    BY <2>2, <2>3, <2>4, ApiFrame, PutTyped DEF TypeOK, ApiTypeOK
  <2>6. CASE Return(w) \/ Fail(w)
    BY <1>1, <1>3, <2>5, <2>6, ReturnTypes
  <2>7. CASE ~(Return(w) \/ Fail(w))
    <3> DEFINE next == [self EXCEPT !.pc = "record"]
    <3>1. Goto(w, next) /\ QueueTypeOK'
      BY <1>8, <2>7 DEF CreateChild, self, queueVars, TypeOK, QueueTypeOK
    <3>2. next \in Busy /\ next.pc = "record" /\ next.pvc = self.pvc
      BY <1>2, BusyPc DEF WorkerPc
    <3> HIDE DEF next
    <3> QED BY <1>1, <1>3, <2>1, <2>5, <3>1, <3>2, WorkerStep
  <2> QED BY <2>6, <2>7
<1>9. CASE DeleteCronJob(w)
  <2>1. ApiTypeOK' /\ (Return(w) \/ Fail(w))
    BY <1>2, <1>9, ApiFrame, PutTyped, ObjectNames DEF DeleteCronJob, self, TypeOK, ApiTypeOK
  <2> QED BY <1>1, <1>3, <2>1, ReturnTypes
<1>10. CASE RedisConn(w)
  <2>1. PICK cond \in Condition \cup {Absent} : ReadRedis(w, cond)
    <3>1. CASE ReadRedis(w, Absent)
      BY <3>1
    <3>2. CASE ReadRedis(w, redis[ClusterOf(b, self.inst)][KeyOf(b, self.inst)])
      <4>1. ClusterOf(b, self.inst) \in Clusters /\ KeyOf(b, self.inst) \in RedisKeys
        BY <1>2, BackupFields, BackupAssumption
           DEF ClusterOf, KeyOf, Clusters, RedisKeys, BackupAssumption
      <4> QED BY <3>2, <4>1 DEF TypeOK, EnvTypeOK
    <3> QED BY <1>10, <3>1, <3>2 DEF RedisConn, self
  <2>2. ApiTypeOK' /\ self.pvc \in Pvcs
    BY <1>4, <2>1, ApiFrame DEF ReadRedis, TypeOK, InPc, self, WorkerPc
  <2>3. CASE Return(w)
    BY <1>1, <1>3, <2>2, <2>3, ReturnTypes
  <2>4. CASE ~Return(w)
    <3> PICK pc \in {"append", "record"} :
          /\ Goto(w, [self EXCEPT !.pc = pc, !.cond = cond]) /\ UNCHANGED queueVars
          /\ pc = "append" => cond # Absent
      BY <2>1, <2>4 DEF ReadRedis, self
    <3> DEFINE next == [self EXCEPT !.pc = pc, !.cond = cond]
    <3>2. QueueTypeOK' /\ Goto(w, next) /\ next = [self EXCEPT !.pc = pc, !.cond = cond]
      BY DEF queueVars, TypeOK, QueueTypeOK
    <3> HIDE DEF next
    <3>1. next \in Busy /\ next.pc = pc /\ next.pvc = self.pvc /\ next.cond = cond
      BY <1>2, <3>2 DEF WorkerPc, Busy
    <3> QED BY <1>1, <1>3, <2>2, <3>1, <3>2, WorkerStep
  <2> QED BY <2>3, <2>4
<1>11. CASE AppendCondition(w)
  <2> DEFINE new == WithCondition(self.inst, self.cond)
  <2>1. self.cond \in Condition /\ self.pvc \in Pvcs
    BY <1>2, <1>4, <1>11 DEF AppendCondition, Progress, InPc, self, Busy, WorkerPc
  <2>2. new \in RedisBackup
    <3>1. /\ Append(self.inst.conditions, self.cond) \in Seq(Condition)
          /\ <<self.cond>> \in Seq(Condition)
      BY <1>2, <2>1, BackupFields
    <3> QED BY <1>2, <3>1, BackupFields DEF WithCondition
  <2>3. ApiTypeOK' /\ store'[BackupOf(b)] \in RedisBackup
    BY <1>2, <1>11, <2>2, UpdateStatusTyped DEF AppendCondition, self, TypeOK
  <2>4. CASE Return(w)
    BY <1>1, <1>3, <2>3, <2>4, ReturnTypes
  <2>5. CASE ~Return(w)
    <3> DEFINE next == [self EXCEPT !.pc = "record", !.inst = store'[BackupOf(b)]]
    <3>1. Goto(w, next) /\ QueueTypeOK'
      BY <1>11, <2>5 DEF AppendCondition, self, queueVars, TypeOK, QueueTypeOK
    <3>2. next = [self EXCEPT !.pc = "record", !.inst = store'[BackupOf(b)]]
      OBVIOUS
    <3> HIDE DEF next
    <3>3. next \in Busy /\ next.pc = "record" /\ next.pvc = self.pvc
      BY <1>2, <2>3, <3>2 DEF WorkerPc, Busy
    <3> QED BY <1>1, <1>3, <2>1, <2>3, <3>1, <3>3, WorkerStep
  <2> QED BY <2>4, <2>5
<1>12. CASE RecordInfo(w)
  <2>1. [self.inst EXCEPT !.last = self.inst.spec.info] \in RedisBackup
    BY <1>2, BackupFields
  <2>2. ApiTypeOK' /\ Return(w)
    BY <1>2, <1>12, <2>1, UpdateStatusTyped DEF RecordInfo, self, TypeOK
  <2> QED BY <1>1, <1>3, <2>2, ReturnTypes
<1> QED BY <1>5, <1>6, <1>7, <1>8, <1>9, <1>10, <1>11, <1>12 DEF Step

\* Every step of CycleSync keeps the types.
LEMMA CycleTypes ==
  ASSUME TypeOK, Progress, CycleStep \/ \E b \in Backups : StartCycle(b)
  PROVE  TypeOK' /\ Progress'
<1>1. QueueTypeOK' /\ worker' = worker /\ UNCHANGED <<master, redis, running, gaveUp>>
  BY DEF CycleStep, StartCycle, CycleFindMaster, CycleList, CycleDelete, queueVars, TypeOK, QueueTypeOK
<1>2. EnvTypeOK'
  <2>1. budget' \in Budget
    BY BudgetTyped DEF CycleStep, StartCycle, CycleFindMaster, CycleList, CycleDelete, Fault, TypeOK, EnvTypeOK
  <2> QED BY <1>1, <2>1 DEF TypeOK, EnvTypeOK
<1>3. ASSUME ApiTypeOK', cycle' \in BusyCycle \cup {IdleCycle}, cycle'.pc = "delete" => cycle'.target # Absent
      PROVE  TypeOK' /\ Progress'
  BY <1>1, <1>2, <1>3 DEF TypeOK, Progress, InPc
<1>4. IdleCycle.pc = "idle"
  BY DEF IdleCycle
<1>5. cycle.pc # "idle" => cycle \in BusyCycle
  BY <1>4 DEF TypeOK
<1>6. CASE \E b \in Backups : StartCycle(b)
  <2> PICK b \in Backups : StartCycle(b)
    BY <1>6
  <2>1. cache[BackupOf(b)].spec.cluster \in ClusterNames
    BY ObjectNames, BackupFields DEF StartCycle, TypeOK, ApiTypeOK
  <2>2. cycle' \in BusyCycle /\ cycle'.pc = "pods"
    BY <2>1 DEF StartCycle, BusyCycle
  <2> QED BY <1>3, <2>2, ApiFrame DEF StartCycle, TypeOK
<1>7. CASE CycleFindMaster
  <2>1. ApiTypeOK' /\ cycle \in BusyCycle
    BY <1>5, <1>7, ApiFrame DEF CycleFindMaster, TypeOK
  <2>2. CASE cycle' = IdleCycle
    BY <1>3, <1>4, <2>1, <2>2
  <2>3. CASE cycle' # IdleCycle
    <3> PICK p \in Pvcs \cup {NoPvc} : cycle' = [cycle EXCEPT !.pc = "list", !.pvc = p]
      BY <1>7, <2>3 DEF CycleFindMaster, CycleReturn
    <3>1. cycle' \in BusyCycle /\ cycle'.pc = "list"
      BY <2>1 DEF BusyCycle
    <3> QED BY <1>3, <2>1, <3>1
  <2> QED BY <2>2, <2>3
<1>8. CASE CycleList
  <2>1. ApiTypeOK' /\ cycle \in BusyCycle
    BY <1>5, <1>8, ApiFrame DEF CycleList, TypeOK
  <2>2. CASE cycle' = IdleCycle
    BY <1>3, <1>4, <2>1, <2>2
  <2>3. CASE cycle' # IdleCycle
    <3> PICK t \in Backups : cycle' = [cycle EXCEPT !.pc = "delete", !.target = t]
      BY <1>8, <2>3 DEF CycleList, CycleReturn, Labelled
    <3>1. cycle' \in BusyCycle /\ cycle'.target = t
      BY <2>1 DEF BusyCycle
    <3> QED BY <1>3, <2>1, <3>1, AbsentAssumption DEF AbsentAssumption
  <2> QED BY <2>2, <2>3
<1>9. CASE CycleDelete
  <2>1. cycle.target \in Backups
    BY <1>5, <1>9 DEF CycleDelete, Progress, BusyCycle
  <2>2. ApiTypeOK'
    BY <1>9, <2>1, PutTyped, ObjectNames DEF CycleDelete, TypeOK, ApiTypeOK
  <2> QED BY <1>3, <1>4, <1>9, <2>2 DEF CycleDelete, CycleReturn
<1> QED BY <1>6, <1>7, <1>8, <1>9 DEF CycleStep

\* Types and progress are inductive.
LEMMA NextTypes ==
  ASSUME TypeOK, Progress, [Next]_vars
  PROVE  TypeOK' /\ Progress'
<1>1. CASE Next
  BY <1>1, UserTypes, EnvironmentTypes, ProcessTypes, InformerTypes, StepTypes, StartTypes, CycleTypes
     DEF Next, Operator
<1>2. CASE UNCHANGED vars
  <2>1. ApiTypeOK' /\ QueueTypeOK' /\ EnvTypeOK'
    <3>1. ApiTypeOK'
      BY <1>2, ApiFrame DEF vars, TypeOK
    <3> QED BY <1>2, <3>1 DEF vars, queueVars, TypeOK, QueueTypeOK, EnvTypeOK
  <2> QED BY <1>2, <2>1, OpFrame DEF vars, opVars
<1> QED BY <1>1, <1>2

\* Every reachable state is well typed.
THEOREM TypeCorrect == Spec => []TypeOK
<1>1. Init => TypeOK /\ Progress
  BY InitTypes
<1>2. TypeOK /\ Progress /\ [Next]_vars => (TypeOK /\ Progress)'
  BY NextTypes
<1> QED BY <1>1, <1>2, PTL DEF Spec

----------------------------------------------------------------------------
\* The work queue: a busy worker's key is in processing and no other worker's.

\* At first every worker is idle.
LEMMA InitKeys == Init => KeysInProcess
BY DEF Init, KeysInProcess, OneWorkerPerBackup, InPc, Idle

\* What is done to a worker and the queue, seen from the keys.
LEMMA KeysFrame ==
  ASSUME TypeOK, KeysInProcess, worker' = worker, processing' = processing
  PROVE  KeysInProcess'
BY DEF KeysInProcess, OneWorkerPerBackup, InPc

\* The workers of a new process are idle.
LEMMA KeysRestart ==
  ASSUME Restart
  PROVE  KeysInProcess'
BY DEF Restart, KeysInProcess, OneWorkerPerBackup, InPc, Idle

\* The end of a call frees its key, which no other worker has.
LEMMA KeysReturn ==
  ASSUME TypeOK, KeysInProcess, NEW w \in Workers, ~InPc(w, "idle"), Return(w) \/ Fail(w)
  PROVE  KeysInProcess'
<1>1. /\ worker' = [worker EXCEPT ![w] = Idle]
      /\ processing' = processing \ {worker[w].key}
  BY DEF Return, Fail, Goto, Done, DoneWithError
<1>2. worker'[w].pc = "idle" /\ \A v \in Workers \ {w} : worker'[v] = worker[v]
  BY <1>1, IdleFields DEF TypeOK
<1> QED BY <1>1, <1>2 DEF KeysInProcess, OneWorkerPerBackup, InPc

\* A call that goes on keeps its key.
LEMMA KeysGoto ==
  ASSUME TypeOK, KeysInProcess, NEW w \in Workers, NEW next,
         Goto(w, next), next.key = worker[w].key, ~InPc(w, "idle"), processing' = processing
  PROVE  KeysInProcess'
<1>1. worker'[w] = next /\ \A v \in Workers \ {w} : worker'[v] = worker[v]
  BY DEF Goto, TypeOK
<1> QED BY <1>1 DEF KeysInProcess, OneWorkerPerBackup, InPc

\* A call starts with a key that is not being processed.
LEMMA KeysStart ==
  ASSUME TypeOK, KeysInProcess, NEW w \in Workers, NEW b \in Backups, StartReconcile(w, b)
  PROVE  KeysInProcess'
<1>1. /\ worker'[w].key = b /\ \A v \in Workers \ {w} : worker'[v] = worker[v]
      /\ b \notin processing /\ processing' = processing \cup {b}
  BY DEF StartReconcile, Get, Goto, TypeOK
<1> QED BY <1>1 DEF KeysInProcess, OneWorkerPerBackup, InPc

(***************************************************************************)
(* A step of a call ends it, or goes on with the same request and the same *)
(* version of its RedisBackup, unless it wrote that version.               *)
(***************************************************************************)
LEMMA StepShape ==
  ASSUME TypeOK, NEW w \in Workers, Step(w)
  PROVE  /\ ~InPc(w, "idle")
         /\ \/ Return(w) \/ Fail(w)
            \/ \E next :
                 /\ Goto(w, next) /\ UNCHANGED queueVars
                 /\ next.key = worker[w].key
                 /\ \/ next.inst = worker[w].inst
                    \/ AppendCondition(w) /\ next.inst = store'[BackupOf(worker[w].key)]
<1>1. ~InPc(w, "idle")
  BY DEF Step, FindMaster, PodListFails, CallFails, GetChild, CompareClaim, CreateChild,
         DeleteCronJob, RedisConn, ReadRedis, AppendCondition, RecordInfo, UpdateRefused, InPc, WorkerPc
<1>2. worker[w] \in Busy
  BY <1>1, BusyFields
<1>3. CASE FindMaster(w)
  <2>1. CASE Return(w)
    BY <1>1, <2>1
  <2>2. CASE ~Return(w)
    <3> PICK p : Goto(w, [worker[w] EXCEPT !.pc = "child", !.pvc = p]) /\ UNCHANGED queueVars
      BY <1>3, <2>2 DEF FindMaster
    <3> DEFINE next == [worker[w] EXCEPT !.pc = "child", !.pvc = p]
    <3>1. next.key = worker[w].key /\ next.inst = worker[w].inst
      BY <1>2 DEF Busy
    <3> QED BY <1>1, <3>1
  <2> QED BY <2>1, <2>2
<1>4. CASE GetChild(w) \/ CompareClaim(w)
  <2> PICK pc : Goto(w, [worker[w] EXCEPT !.pc = pc]) /\ UNCHANGED queueVars
    BY <1>4 DEF GetChild, CompareClaim
  <2> DEFINE next == [worker[w] EXCEPT !.pc = pc]
  <2>1. next.key = worker[w].key /\ next.inst = worker[w].inst
    BY <1>2 DEF Busy
  <2> QED BY <1>1, <2>1
<1>5. CASE CreateChild(w)
  <2> DEFINE next == [worker[w] EXCEPT !.pc = "record"]
  <2>1. next.key = worker[w].key /\ next.inst = worker[w].inst
    BY <1>2 DEF Busy
  <2>2. Return(w) \/ Fail(w) \/ (Goto(w, next) /\ UNCHANGED queueVars)
    BY <1>5 DEF CreateChild
  <2> QED BY <1>1, <2>1, <2>2
<1>6. CASE RedisConn(w)
  <2>1. CASE Return(w)
    BY <1>1, <2>1
  <2>2. CASE ~Return(w)
    <3> PICK pc, c : Goto(w, [worker[w] EXCEPT !.pc = pc, !.cond = c]) /\ UNCHANGED queueVars
      BY <1>6, <2>2 DEF RedisConn, ReadRedis
    <3> DEFINE next == [worker[w] EXCEPT !.pc = pc, !.cond = c]
    <3>1. next.key = worker[w].key /\ next.inst = worker[w].inst
      BY <1>2 DEF Busy
    <3> QED BY <1>1, <3>1
  <2> QED BY <2>1, <2>2
<1>7. CASE AppendCondition(w)
  <2> DEFINE v == store'[BackupOf(worker[w].key)]
             next == [worker[w] EXCEPT !.pc = "record", !.inst = v]
  <2>1. next.key = worker[w].key /\ next.inst = v
    BY <1>2 DEF Busy
  <2>2. Return(w) \/ Fail(w) \/ (Goto(w, next) /\ UNCHANGED queueVars)
    BY <1>7 DEF AppendCondition
  <2> QED BY <1>1, <1>7, <2>1, <2>2
<1>8. CASE \/ PodListFails(w) \/ CallFails(w) \/ DeleteCronJob(w)
           \/ RecordInfo(w) \/ UpdateRefused(w)
  BY <1>1, <1>8 DEF PodListFails, CallFails, DeleteCronJob, RecordInfo, UpdateRefused
<1> QED BY <1>3, <1>4, <1>5, <1>6, <1>7, <1>8 DEF Step

\* Keys in process are inductive.
LEMMA KeysNext ==
  ASSUME TypeOK, KeysInProcess, [Next]_vars
  PROVE  KeysInProcess'
<1>1. CASE \E b \in Backups : User(b)
  BY <1>1, KeysFrame
     DEF User, CreateBackup, EditBackup, DeleteBackup, queueVars, opVars
<1>2. CASE Environment
  BY <1>2, KeysFrame
     DEF Environment, MoveMaster, KeyExpires, CollectChild, ChildRuns, JobExpires,
         PodPublishes, PodFails, PodEnds, queueVars, opVars
<1>3. CASE Process
  BY <1>3, KeysRestart DEF Process, Crash, Fatal, Panic
<1>4. CASE Informers
  BY <1>4, KeysFrame
     DEF Informers, Deliver, Retry, Resync, Add, AddDelayed, opVars
<1>5. CASE \E w \in Workers : Step(w)
  <2> PICK w \in Workers : Step(w)
    BY <1>5
  <2>1. CASE Return(w) \/ Fail(w)
    BY <2>1, StepShape, KeysReturn
  <2>2. CASE ~(Return(w) \/ Fail(w))
    BY <2>2, StepShape, KeysGoto DEF queueVars
  <2> QED BY <2>1, <2>2
<1>6. CASE \E w \in Workers, b \in Backups : Start(w, b)
  BY <1>6, KeysStart, KeysFrame DEF Start, ReconcileNothing
<1>7. CASE CycleStep \/ \E b \in Backups : StartCycle(b)
  BY <1>7, KeysFrame
     DEF CycleStep, StartCycle, CycleFindMaster, CycleList, CycleDelete, queueVars
<1>8. CASE UNCHANGED vars
  BY <1>8, KeysFrame DEF vars, queueVars
<1> QED BY <1>1, <1>2, <1>3, <1>4, <1>5, <1>6, <1>7, <1>8 DEF Next, Operator

\* However events and retries arrive, a RedisBackup has one worker at most.
THEOREM OneWorker == Spec => []OneWorkerPerBackup
<1>1. Init => TypeOK /\ Progress /\ KeysInProcess
  BY InitTypes, InitKeys
<1>2. TypeOK /\ Progress /\ KeysInProcess /\ [Next]_vars => (TypeOK /\ Progress /\ KeysInProcess)'
  BY NextTypes, KeysNext
<1>3. KeysInProcess => OneWorkerPerBackup
  BY DEF KeysInProcess
<1> QED BY <1>1, <1>2, <1>3, PTL DEF Spec

----------------------------------------------------------------------------
\* What a step does to the API server and the caches.

ApiStep ==
  \/ UNCHANGED apiVars
  \/ \E k \in Objects : TakeEvent(k)
  \/ Relist
  \/ \E k \in Objects, u \in Child \cup {Absent} :
       (k \in Children \/ u = Absent) /\ Put(k, u) /\ UNCHANGED rev
  \/ \E b \in Backups, u \in RedisBackup : PutBackup(b, u)

\* The CronJob and the Job of a RedisBackup are children.
LEMMA ChildObjects ==
  ASSUME NEW b \in Backups
  PROVE  {CronJobOf(b), JobOf(b)} \subseteq Children
BY DEF CronJobOf, JobOf, Children, Kinds

\* A status update writes one RedisBackup, or nothing.
LEMMA UpdateStatusStep ==
  ASSUME NEW b \in Backups, NEW v, NEW u \in RedisBackup, UpdateStatus(b, v, u)
  PROVE  ApiStep
BY DEF UpdateStatus, ApiStep

\* What a step of Reconcile does to the API server.
LEMMA StepApi ==
  ASSUME TypeOK, Progress, NEW w \in Workers, Step(w)
  PROVE  ApiStep
<1>1. /\ worker[w] \in Busy /\ worker[w].key \in Backups /\ worker[w].inst \in RedisBackup
  BY StepShape, BusyFields
<1>2. CASE CreateChild(w)
  <2> DEFINE k == ChildOf(worker[w].key, worker[w].inst)
             child == MakeCronJob(worker[w].inst, worker[w].pvc)
  <2>1. worker[w].pvc \in Pvcs
    BY <1>2 DEF CreateChild, Progress, InPc, WorkerPc
  <2>2. child \in Child
    BY <1>1, <2>1, BackupFields DEF MakeCronJob, Child
  <2>3. k \in Objects /\ k \in Children
    BY <1>1, ObjectNames, ChildObjects
  <2>4. UNCHANGED apiVars \/ (Put(k, child) /\ UNCHANGED rev)
    BY <1>2 DEF CreateChild
  <2> QED BY <2>2, <2>3, <2>4 DEF ApiStep
<1>3. CASE DeleteCronJob(w)
  BY <1>1, <1>3, ObjectNames DEF DeleteCronJob, ApiStep
<1>4. CASE AppendCondition(w)
  <2>1. worker[w].cond \in Condition
    BY <1>1, <1>4 DEF AppendCondition, Progress, Busy
  <2>2. /\ Append(worker[w].inst.conditions, worker[w].cond) \in Seq(Condition)
        /\ <<worker[w].cond>> \in Seq(Condition)
    BY <1>1, <2>1, BackupFields
  <2>3. WithCondition(worker[w].inst, worker[w].cond) \in RedisBackup
    BY <1>1, <2>2, BackupFields DEF WithCondition
  <2> QED BY <1>1, <1>4, <2>3, UpdateStatusStep DEF AppendCondition
<1>5. CASE RecordInfo(w)
  <2>1. [worker[w].inst EXCEPT !.last = worker[w].inst.spec.info] \in RedisBackup
    BY <1>1, BackupFields
  <2> QED BY <1>1, <1>5, <2>1, UpdateStatusStep DEF RecordInfo
<1>6. CASE ~(CreateChild(w) \/ DeleteCronJob(w) \/ AppendCondition(w) \/ RecordInfo(w))
  BY <1>6 DEF Step, FindMaster, PodListFails, CallFails, GetChild, CompareClaim,
              RedisConn, ReadRedis, UpdateRefused, ApiStep
<1> QED BY <1>2, <1>3, <1>4, <1>5, <1>6

\* What a user does to the API server.
LEMMA UserApi ==
  ASSUME TypeOK, NEW b \in Backups, User(b)
  PROVE  ApiStep
<1>1. CASE \E spec \in BackupSpec : CreateBackup(b, spec)
  <2> PICK spec \in BackupSpec : CreateBackup(b, spec)
    BY <1>1
  <2> DEFINE u == [uid |-> rev[b] + 1, rv |-> 0, spec |-> spec, last |-> NoInfo, conditions |-> <<>>]
  <2>1. rev[b] + 1 \in Nat
    BY DEF TypeOK, ApiTypeOK
  <2>2. u \in RedisBackup
    BY <2>1 DEF RedisBackup
  <2> QED BY <2>2 DEF CreateBackup, ApiStep
<1>2. CASE \E spec \in BackupSpec : EditBackup(b, spec)
  <2> PICK spec \in BackupSpec : EditBackup(b, spec)
    BY <1>2
  <2>1. store[BackupOf(b)] \in RedisBackup
    BY ObjectNames DEF TypeOK, ApiTypeOK, EditBackup
  <2>2. [store[BackupOf(b)] EXCEPT !.spec = spec] \in RedisBackup
    BY <2>1, BackupFields
  <2> QED BY <2>2 DEF EditBackup, ApiStep
<1>3. CASE DeleteBackup(b)
  BY <1>3, ObjectNames DEF DeleteBackup, ApiStep
<1> QED BY <1>1, <1>2, <1>3 DEF User

\* What the rest of Kubernetes does to the API server.
LEMMA EnvironmentApi ==
  ASSUME TypeOK, Environment
  PROVE  ApiStep
<1>1. CASE \E k \in Children : CollectChild(k)
  BY <1>1, ChildNames DEF CollectChild, ApiStep
<1>2. CASE \E k \in Children : ChildRuns(k)
  <2> PICK k \in Children : ChildRuns(k)
    BY <1>2
  <2>1. store[k] \in Child /\ budget.runs \in Nat
    BY ChildNames, BudgetTyped DEF ChildRuns, TypeOK, ApiTypeOK
  <2>2. [store[k] EXCEPT !.active = budget.runs] \in Child
    BY <2>1, ChildFields
  <2> QED BY <2>2, ChildNames DEF ChildRuns, ApiStep
<1>3. CASE \E b \in Backups : JobExpires(b)
  BY <1>3, ObjectNames DEF JobExpires, ApiStep
<1>4. CASE \E r \in running : PodPublishes(r) \/ PodFails(r)
  <2> PICK r \in running : PodEnds(r)
    BY <1>4 DEF PodPublishes, PodFails
  <2>1. r.child \in Children
    BY DEF TypeOK, EnvTypeOK, Run
  <2>2. CASE UNCHANGED apiVars
    BY <2>2 DEF ApiStep
  <2>3. CASE /\ store[r.child] # Absent
             /\ Put(r.child, [store[r.child] EXCEPT !.active = 0, !.done = (r.child[1] = "Job")])
             /\ UNCHANGED rev
    <3>1. store[r.child] \in Child
      BY <2>1, <2>3, ChildNames DEF TypeOK, ApiTypeOK
    <3>2. [store[r.child] EXCEPT !.active = 0, !.done = (r.child[1] = "Job")] \in Child
      BY <3>1, ChildFields
    <3> QED BY <2>1, <2>3, <3>2, ChildNames DEF ApiStep
  <2> QED BY <2>2, <2>3 DEF PodEnds
<1>5. CASE \E c \in Clusters : MoveMaster(c) \/ \E b \in Backups : KeyExpires(c, b)
  BY <1>5 DEF MoveMaster, KeyExpires, ApiStep
<1> QED BY <1>1, <1>2, <1>3, <1>4, <1>5 DEF Environment

\* What CycleSync does to the API server: at most one deletion.
LEMMA CycleApi ==
  ASSUME TypeOK, Progress, CycleStep \/ \E b \in Backups : StartCycle(b)
  PROVE  ApiStep
<1>1. CASE CycleDelete
  <2>1. cycle.target \in Backups
    BY <1>1 DEF CycleDelete, TypeOK, Progress, BusyCycle, IdleCycle
  <2> QED BY <1>1, <2>1, ObjectNames DEF CycleDelete, ApiStep
<1>2. CASE ~CycleDelete
  BY <1>2 DEF CycleStep, StartCycle, CycleFindMaster, CycleList, ApiStep
<1> QED BY <1>1, <1>2

\* Every step does one of four things to the API server.
LEMMA NextApi ==
  ASSUME TypeOK, Progress, [Next]_vars
  PROVE  ApiStep
<1>1. CASE Process
  BY <1>1 DEF Process, Crash, Fatal, Panic, Restart, ApiStep
<1>2. CASE Informers
  BY <1>2 DEF Informers, Deliver, Retry, Resync, ApiStep
<1>3. CASE \E w \in Workers, b \in Backups : Start(w, b)
  BY <1>3 DEF Start, StartReconcile, ReconcileNothing, ApiStep
<1>4. CASE UNCHANGED vars
  BY <1>4 DEF vars, ApiStep
<1> QED BY <1>1, <1>2, <1>3, <1>4, UserApi, EnvironmentApi, StepApi, CycleApi DEF Next, Operator

----------------------------------------------------------------------------
\* Coherence: a resourceVersion names one version.

\* A write of RedisBackup b makes its number and its version new.
LEMMA PutBackupEffect ==
  ASSUME TypeOK, NEW b \in Backups, NEW u \in RedisBackup, PutBackup(b, u)
  PROVE  /\ rev' = [rev EXCEPT ![b] = rev[b] + 1]
         /\ rev[b] \in Nat /\ rev'[b] = rev[b] + 1
         /\ \A c \in Backups \ {b} : rev'[c] = rev[c] /\ store'[BackupOf(c)] = store[BackupOf(c)]
         /\ store'[BackupOf(b)] \in RedisBackup
         /\ store'[BackupOf(b)].rv = rev[b] + 1
         /\ cache' = cache
         /\ \A k \in Objects :
              watch'[k] = IF k = BackupOf(b) THEN Append(watch[k], store'[k]) ELSE watch[k]
<1> DEFINE new == [u EXCEPT !.rv = rev[b] + 1]
<1>1. rev[b] \in Nat /\ rev[b] + 1 \in Nat
  BY DEF TypeOK, ApiTypeOK
<1>2. new \in RedisBackup /\ new.rv = rev[b] + 1
  BY <1>1 DEF RedisBackup
<1>3. /\ store' = [store EXCEPT ![BackupOf(b)] = new]
      /\ watch' = [watch EXCEPT ![BackupOf(b)] = Append(@, new)]
      /\ cache' = cache
      /\ rev' = [rev EXCEPT ![b] = rev[b] + 1]
  BY DEF PutBackup, Put
<1> HIDE DEF new
<1>4. \A c \in Backups : BackupOf(c) \in Objects /\ (BackupOf(c) = BackupOf(b) => c = b)
  BY ObjectNames DEF BackupOf
<1>5. store'[BackupOf(b)] = new
  BY <1>3, <1>4 DEF TypeOK, ApiTypeOK
<1> QED BY <1>1, <1>2, <1>3, <1>4, <1>5 DEF TypeOK, ApiTypeOK

\* A write of a child, or a deletion, leaves RedisBackup b as it is or deletes it.
LEMMA PutEffect ==
  ASSUME TypeOK, NEW k \in Objects, NEW u \in Child \cup {Absent}, k \in Children \/ u = Absent,
         Put(k, u), NEW b \in Backups
  PROVE  /\ store'[BackupOf(b)] \in {store[BackupOf(b)], Absent}
         /\ watch'[BackupOf(b)] \in {watch[BackupOf(b)], Append(watch[BackupOf(b)], Absent)}
         /\ cache' = cache
<1>1. BackupOf(b) \in Objects /\ BackupOf(b) \notin Children
  BY ObjectNames DEF BackupOf, Children
<1> QED BY <1>1 DEF Put, TypeOK, ApiTypeOK

\* A version that is known stays known: a later version has a higher number.
LEMMA KnownKept ==
  ASSUME TypeOK, ApiStep, NEW b \in Backups, NEW v \in RedisBackup \cup {Absent}, Known(b, v)
  PROVE  Known(b, v)'
<1>1. CASE store' = store /\ rev' = rev
  BY <1>1 DEF Known, Current
<1>2. CASE \E k \in Objects, u \in Child \cup {Absent} :
             (k \in Children \/ u = Absent) /\ Put(k, u) /\ UNCHANGED rev
  <2>1. store'[BackupOf(b)] \in {store[BackupOf(b)], Absent} /\ rev' = rev
    BY <1>2, PutEffect
  <2> QED BY <2>1 DEF Known, Current
<1>3. CASE \E c \in Backups, u \in RedisBackup : PutBackup(c, u)
  <2> PICK c \in Backups, u \in RedisBackup : PutBackup(c, u)
    BY <1>3
  <2>1. CASE c # b
    BY <2>1, PutBackupEffect DEF Known, Current
  <2>2. CASE c = b /\ v # Absent
    <3>1. v.rv \in Nat /\ v.rv <= rev[b]
      BY <2>2, BackupFields DEF Known
    <3>2. v.rv <= rev'[b] /\ store'[BackupOf(b)].rv # v.rv
      BY <2>2, <3>1, PutBackupEffect
    <3> QED BY <3>2 DEF Known, Current
  <2>3. CASE v = Absent
    BY <2>3 DEF Known
  <2> QED BY <2>1, <2>2, <2>3
<1> QED BY <1>1, <1>2, <1>3 DEF ApiStep, TakeEvent, Relist, apiVars

\* The stored version is always known, also the one a step writes.
LEMMA StoreKnown ==
  ASSUME TypeOK, TypeOK', ApiStep, NEW b \in Backups, Known(b, store[BackupOf(b)])
  PROVE  Known(b, store[BackupOf(b)])'
<1>1. store[BackupOf(b)] \in RedisBackup \cup {Absent}
  BY ObjectNames DEF TypeOK, ApiTypeOK
<1>2. CASE store'[BackupOf(b)] = store[BackupOf(b)]
  <2>1. \A v \in RedisBackup \cup {Absent} : Known(b, v) => Known(b, v)'
    BY KnownKept
  <2> QED BY <1>1, <1>2, <2>1 DEF Known, Current
<1>3. CASE store'[BackupOf(b)] = Absent
  BY <1>3 DEF Known
<1>4. CASE \E c \in Backups, u \in RedisBackup : PutBackup(c, u)
  <2> PICK c \in Backups, u \in RedisBackup : PutBackup(c, u)
    BY <1>4
  <2>1. CASE c # b
    BY <1>2, <2>1, PutBackupEffect
  <2>2. CASE c = b
    BY <2>2, PutBackupEffect DEF Known, Current
  <2> QED BY <2>1, <2>2
<1> QED BY <1>2, <1>3, <1>4, PutEffect DEF ApiStep, TakeEvent, Relist, apiVars

\* The cache and the watch get no version but the one that is stored.
LEMMA CachedVersions ==
  ASSUME TypeOK, TypeOK', ApiStep, NEW b \in Backups
  PROVE  LET k == BackupOf(b) IN
         /\ cache'[k] \in {cache[k], store'[k]} \cup {watch[k][i] : i \in DOMAIN watch[k]}
         /\ \A i \in DOMAIN watch'[k] :
              watch'[k][i] \in {store'[k], Absent} \cup {watch[k][j] : j \in DOMAIN watch[k]}
<1> DEFINE k == BackupOf(b)
<1>1. k \in Objects /\ Versions(k) = RedisBackup \cup {Absent}
  BY ObjectNames
<1>2. /\ store[k] \in RedisBackup \cup {Absent} /\ cache[k] \in RedisBackup \cup {Absent}
      /\ watch[k] \in Seq(RedisBackup \cup {Absent})
      /\ watch'[k] \in Seq(RedisBackup \cup {Absent})
  BY <1>1 DEF TypeOK, ApiTypeOK, Versions
<1>3. cache'[k] \in {cache[k], store'[k]} \cup {watch[k][i] : i \in DOMAIN watch[k]}
  <2>1. CASE cache' = cache
    BY <2>1
  <2>2. CASE \E j \in Objects : TakeEvent(j)
    BY <1>1, <1>2, <2>2 DEF TakeEvent, TypeOK, ApiTypeOK
  <2>3. CASE Relist
    BY <2>3 DEF Relist
  <2> QED BY <2>1, <2>2, <2>3, PutEffect, PutBackupEffect DEF ApiStep, apiVars
<1>4. \A i \in DOMAIN watch'[k] :
        watch'[k][i] \in {store'[k], Absent} \cup {watch[k][j] : j \in DOMAIN watch[k]}
  <2>1. CASE watch'[k] = watch[k] \/ watch'[k] = <<>>
    BY <2>1
  <2>2. CASE \E v \in {store'[k], Absent} : watch'[k] = Append(watch[k], v)
    BY <1>2, <2>2
  <2>3. CASE watch[k] # <<>> /\ watch'[k] = Tail(watch[k])
    BY <1>2, <2>3
  <2>4. CASE UNCHANGED apiVars
    BY <2>1, <2>4 DEF apiVars
  <2>5. CASE \E j \in Objects : TakeEvent(j)
    <3> PICK j \in Objects : TakeEvent(j)
      BY <2>5
    <3>1. watch'[k] = watch[k] \/ (watch[k] # <<>> /\ watch'[k] = Tail(watch[k]))
      BY <1>1 DEF TakeEvent, TypeOK, ApiTypeOK
    <3> QED BY <2>1, <2>3, <3>1
  <2>6. CASE Relist
    BY <1>1, <2>1, <2>6 DEF Relist
  <2>7. CASE \E j \in Objects, u \in Child \cup {Absent} :
               (j \in Children \/ u = Absent) /\ Put(j, u) /\ UNCHANGED rev
    BY <2>1, <2>2, <2>7, PutEffect
  <2>8. CASE \E c \in Backups, u \in RedisBackup : PutBackup(c, u)
    <3> PICK c \in Backups, u \in RedisBackup : PutBackup(c, u)
      BY <2>8
    <3>1. watch'[k] = watch[k] \/ watch'[k] = Append(watch[k], store'[k])
      BY <1>1, PutBackupEffect
    <3> QED BY <2>1, <2>2, <3>1
  <2> QED BY <2>4, <2>5, <2>6, <2>7, <2>8 DEF ApiStep
<1> QED BY <1>3, <1>4

\* What the store, the cache and the watch hold stays known.
LEMMA CachesCoherent ==
  ASSUME TypeOK, TypeOK', Coherent, ApiStep, NEW b \in Backups
  PROVE  /\ Known(b, store[BackupOf(b)])'
         /\ Known(b, cache[BackupOf(b)])'
         /\ \A i \in DOMAIN watch'[BackupOf(b)] : Known(b, watch[BackupOf(b)][i])'
<1> DEFINE k == BackupOf(b)
<1>1. k \in Objects /\ Versions(k) = RedisBackup \cup {Absent}
  BY ObjectNames
<1>2. /\ store[k] \in RedisBackup \cup {Absent} /\ cache[k] \in RedisBackup \cup {Absent}
      /\ watch[k] \in Seq(RedisBackup \cup {Absent})
      /\ watch'[k] \in Seq(RedisBackup \cup {Absent})
  BY <1>1 DEF TypeOK, ApiTypeOK, Versions
<1>3. /\ Known(b, store[k]) /\ Known(b, cache[k])
      /\ \A i \in DOMAIN watch[k] : Known(b, watch[k][i])
  BY DEF Coherent
<1>4. Known(b, store[k])'
  BY <1>3, StoreKnown
<1>5. \A v \in RedisBackup \cup {Absent} : Known(b, v) => Known(b, v)'
  BY KnownKept
<1>6. Known(b, cache[k])'
  BY <1>2, <1>3, <1>4, <1>5, CachedVersions DEF Known, Current
<1>7. \A i \in DOMAIN watch'[k] : Known(b, watch[k][i])'
  BY <1>2, <1>3, <1>4, <1>5, CachedVersions DEF Known, Current
<1> QED BY <1>4, <1>6, <1>7

\* A worker goes on with its version, or takes one from the cache or the store.
LEMMA WorkerVersions ==
  ASSUME TypeOK, TypeOK', [Next]_vars, NEW w \in Workers, worker'[w].pc # "idle"
  PROVE  \/ /\ worker[w].pc # "idle"
            /\ worker'[w].key = worker[w].key /\ worker'[w].inst = worker[w].inst
         \/ worker'[w].inst = cache[BackupOf(worker'[w].key)] /\ UNCHANGED apiVars
         \/ worker'[w].inst = store'[BackupOf(worker'[w].key)]
<1>1. CASE worker'[w] = worker[w]
  BY <1>1
<1>2. CASE Restart
  BY <1>2 DEF Restart, Idle
<1>3. CASE \E v \in Workers : Step(v)
  <2> PICK v \in Workers : Step(v)
    BY <1>3
  <2>1. CASE Return(v) \/ Fail(v)
    BY <1>1, <2>1 DEF Return, Fail, Goto, TypeOK, Idle
  <2>2. CASE ~(Return(v) \/ Fail(v))
    <3> PICK next : /\ Goto(v, next) /\ next.key = worker[v].key /\ worker[v].pc # "idle"
                    /\ next.inst = worker[v].inst \/ next.inst = store'[BackupOf(worker[v].key)]
      BY <2>2, StepShape DEF InPc
    <3>1. CASE v = w
      <4>1. worker'[w] = next
        BY <3>1 DEF Goto, TypeOK
      <4> QED BY <3>1, <4>1
    <3>2. CASE v # w
      BY <1>1, <3>2 DEF Goto, TypeOK
    <3> QED BY <3>1, <3>2
  <2> QED BY <2>1, <2>2
<1>4. CASE \E v \in Workers, b \in Backups : StartReconcile(v, b)
  BY <1>1, <1>4 DEF StartReconcile, Goto, TypeOK
<1>5. CASE worker' = worker
  BY <1>1, <1>5
<1> QED
  BY <1>2, <1>3, <1>4, <1>5
  DEF Next, User, CreateBackup, EditBackup, DeleteBackup, Environment, MoveMaster, KeyExpires,
      CollectChild, ChildRuns, JobExpires, PodPublishes, PodFails, PodEnds, Process, Crash, Fatal,
      Panic, Informers, Deliver, Retry, Resync, Operator, Start, ReconcileNothing, CycleStep,
      StartCycle, CycleFindMaster, CycleList, CycleDelete, opVars, vars

\* Coherence is inductive.
LEMMA NextCoherent ==
  ASSUME TypeOK, TypeOK', Progress, Coherent, [Next]_vars
  PROVE  Coherent'
<1>1. ApiStep
  BY NextApi
<1>2. ASSUME NEW w \in Workers, worker'[w].pc # "idle"
      PROVE  Known(worker[w].key, worker[w].inst)'
  <2> DEFINE b == worker'[w].key
             v == worker'[w].inst
  <2>1. b \in Backups
    BY <1>2 DEF TypeOK, Busy, Idle
  <2>2. CASE worker[w].pc # "idle" /\ b = worker[w].key /\ v = worker[w].inst
    <3>1. Known(worker[w].key, worker[w].inst) /\ worker[w].inst \in RedisBackup
          /\ worker[w].key \in Backups
      BY <2>2, BusyFields DEF Coherent, InPc
    <3>2. \A c \in Backups, u \in RedisBackup \cup {Absent} : Known(c, u) => Known(c, u)'
      BY <1>1, KnownKept
    <3> QED BY <2>2, <3>1, <3>2 DEF Known, Current
  <2>3. CASE v = cache[BackupOf(b)] /\ UNCHANGED apiVars
    BY <2>1, <2>3 DEF Coherent, Known, Current, apiVars
  <2>4. CASE v = store'[BackupOf(b)]
    BY <1>1, <2>1, <2>4, CachesCoherent DEF Known, Current
  <2> QED BY <1>2, <2>2, <2>3, <2>4, WorkerVersions
<1> QED BY <1>1, <1>2, CachesCoherent DEF Coherent, InPc

\* At first there are no versions.
LEMMA InitCoherent == Init => Coherent
BY ObjectNames DEF Init, InitApiServer, Coherent, Known, Idle, InPc

(***************************************************************************)
(* The inductive invariant holds in every reachable state: the types, what *)
(* each call has found out, one worker for each key in process, and one    *)
(* version for each resourceVersion.                                       *)
(***************************************************************************)
THEOREM Invariance == Spec => []IInv
<1>1. Init => IInv
  BY InitTypes, InitKeys, InitCoherent DEF IInv
<1>2. IInv /\ [Next]_vars => IInv'
  BY NextTypes, KeysNext, NextCoherent DEF IInv
<1> QED BY <1>1, <1>2, PTL DEF Spec

----------------------------------------------------------------------------
\* What a step may do to the status.

\* The version a worker may write over is the one that is stored.
LEMMA CurrentIsStored ==
  ASSUME IInv, NEW w \in Workers, ~InPc(w, "idle"), Current(worker[w].key, worker[w].inst)
  PROVE  worker[w].inst = store[BackupOf(worker[w].key)]
<1>1. worker[w].inst \in RedisBackup /\ Known(worker[w].key, worker[w].inst)
  BY BusyFields DEF IInv, Coherent
<1>2. worker[w].inst # Absent
  BY <1>1, AbsentAssumption DEF AbsentAssumption
<1> QED BY <1>1, <1>2 DEF Known

\* A write of one object leaves the others alone.
LEMMA PutElsewhere ==
  ASSUME TypeOK, NEW k \in Objects, NEW j \in Objects, NEW u, Put(j, u), j # k
  PROVE  store'[k] = store[k]
BY DEF Put, TypeOK, ApiTypeOK

(***************************************************************************)
(* The versions that a step can store: a new RedisBackup has no            *)
(* conditions, and the operator writes only over the version it read.      *)
(***************************************************************************)
LEMMA StatusWrites ==
  ASSUME IInv, [Next]_vars, NEW b \in Backups, store'[BackupOf(b)] # Absent
  PROVE  LET old == store[BackupOf(b)]
             new == store'[BackupOf(b)]
         IN  \/ old = Absent /\ new.conditions = <<>>
             \/ /\ old # Absent
                /\ \/ new.last = old.last /\ new.conditions = old.conditions
                   \/ /\ new.last = old.last
                      /\ \E w \in Workers :
                           /\ AppendCondition(w) /\ worker[w].key = b /\ worker[w].inst = old
                           /\ worker[w].cond \in Condition
                           /\ new.conditions = WithCondition(old, worker[w].cond).conditions
                   \/ new.last = old.spec.info /\ new.conditions = old.conditions
<1> DEFINE k == BackupOf(b)
           old == store[k]
           new == store'[k]
<1>1. k \in Objects /\ k \notin Children /\ old \in RedisBackup \cup {Absent} /\ TypeOK
  BY ObjectNames DEF BackupOf, Children, IInv, TypeOK, ApiTypeOK
<1>2. CASE new = old
  BY <1>2
<1>3. CASE \E spec \in BackupSpec : EditBackup(b, spec)
  <2> PICK spec \in BackupSpec : EditBackup(b, spec)
    BY <1>3
  <2>1. /\ old \in RedisBackup /\ old # Absent
        /\ new = [[old EXCEPT !.spec = spec] EXCEPT !.rv = rev[b] + 1]
    BY <1>1 DEF EditBackup, PutBackup, Put, TypeOK, ApiTypeOK
  <2> QED BY <2>1 DEF RedisBackup
<1>4. CASE \E w \in Workers : AppendCondition(w) /\ worker[w].key = b
  <2> PICK w \in Workers : AppendCondition(w) /\ worker[w].key = b
    BY <1>4
  <2> DEFINE c == worker[w].cond
             u == WithCondition(old, c)
  <2>1. ~InPc(w, "idle") /\ worker[w].cond \in Condition
    BY <1>1 DEF AppendCondition, InPc, IInv, Progress, TypeOK, Busy, Idle
  <2>2. worker[w].inst = old /\ old \in RedisBackup /\ old # Absent
    BY <1>1, <2>1, CurrentIsStored DEF AppendCondition, UpdateStatus, Current
  <2>3. UpdateStatus(b, old, u)
    BY <2>2 DEF AppendCondition
  <2>4. new = [u EXCEPT !.rv = rev[b] + 1] \/ new = old
    BY <1>1, <2>3 DEF UpdateStatus, PutBackup, Put, TypeOK, ApiTypeOK, apiVars
  <2>5. u.last = old.last /\ DOMAIN u = DOMAIN old
    BY <2>2 DEF WithCondition, RedisBackup
  <2>6. new.last = old.last /\ (new.conditions = u.conditions \/ new = old)
    BY <2>2, <2>4, <2>5 DEF RedisBackup
  <2> QED BY <2>1, <2>2, <2>6
<1>5. CASE \E w \in Workers : RecordInfo(w) /\ worker[w].key = b
  <2> PICK w \in Workers : RecordInfo(w) /\ worker[w].key = b
    BY <1>5
  <2> DEFINE u == [old EXCEPT !.last = old.spec.info]
  <2>1. ~InPc(w, "idle")
    BY DEF RecordInfo, InPc
  <2>2. worker[w].inst = old /\ old \in RedisBackup /\ old # Absent
    BY <1>1, <2>1, CurrentIsStored DEF RecordInfo, UpdateStatus, Current
  <2>3. UpdateStatus(b, old, u)
    BY <2>2 DEF RecordInfo
  <2>4. new = [u EXCEPT !.rv = rev[b] + 1] \/ new = old
    BY <1>1, <2>3 DEF UpdateStatus, PutBackup, Put, TypeOK, ApiTypeOK, apiVars
  <2> QED BY <2>2, <2>4 DEF RedisBackup
<1>6. CASE \E c \in Backups : User(c)
  <2> PICK c \in Backups : User(c)
    BY <1>6
  <2>1. BackupOf(c) \in Objects /\ (c # b => BackupOf(c) # k)
    BY ObjectNames DEF BackupOf
  <2>2. c # b => new = old
    BY <1>1, <2>1, PutElsewhere DEF User, CreateBackup, EditBackup, DeleteBackup, PutBackup
  <2>3. c = b => \E spec \in BackupSpec : CreateBackup(b, spec) \/ EditBackup(b, spec)
    BY <1>1 DEF User, DeleteBackup, Put, TypeOK, ApiTypeOK
  <2>4. ASSUME NEW spec \in BackupSpec, CreateBackup(b, spec)
        PROVE  old = Absent /\ new.conditions = <<>>
    BY <1>1, <2>4 DEF CreateBackup, PutBackup, Put, TypeOK, ApiTypeOK
  <2> QED BY <1>2, <1>3, <2>2, <2>3, <2>4
<1>7. CASE \E w \in Workers : Step(w)
  <2> PICK w \in Workers : Step(w)
    BY <1>7
  <2>1. ~InPc(w, "idle") /\ worker[w].key \in Backups
    BY <1>1, StepShape, BusyFields
  <2>2. BackupOf(worker[w].key) \in Objects /\ (worker[w].key # b => BackupOf(worker[w].key) # k)
    BY <2>1, ObjectNames DEF BackupOf
  <2>3. ChildOf(worker[w].key, worker[w].inst) \in Objects \ {k} /\ CronJobOf(worker[w].key) \in Objects \ {k}
    BY <1>1, <2>1, ObjectNames, ChildObjects
  <2>4. CASE AppendCondition(w) \/ RecordInfo(w)
    <3>1. worker[w].key # b => new = old
      BY <1>1, <2>2, <2>4, PutElsewhere DEF AppendCondition, RecordInfo, UpdateStatus, PutBackup, apiVars
    <3> QED BY <1>2, <1>4, <1>5, <2>4, <3>1
  <2>5. CASE ~(AppendCondition(w) \/ RecordInfo(w))
    <3>1. new = old
      BY <1>1, <2>3, <2>5, PutElsewhere
         DEF Step, FindMaster, PodListFails, CallFails, GetChild, CompareClaim, CreateChild,
             DeleteCronJob, RedisConn, ReadRedis, UpdateRefused, apiVars
    <3> QED BY <1>2, <3>1
  <2> QED BY <2>4, <2>5
<1>8. CASE Environment
  <2>1. running \subseteq Run /\ Children \subseteq Objects /\ \A c \in Backups : JobOf(c) \in Children
    BY <1>1, ChildNames, ChildObjects DEF TypeOK, EnvTypeOK
  <2>2. \A r \in running : r.child \in Children
    BY <2>1 DEF Run
  <2>3. new = old
    BY <1>1, <1>8, <2>1, <2>2, PutElsewhere
       DEF Environment, MoveMaster, KeyExpires, CollectChild, ChildRuns, JobExpires,
           PodPublishes, PodFails, PodEnds, apiVars
  <2> QED BY <1>2, <2>3
<1>9. CASE CycleStep \/ \E c \in Backups : StartCycle(c)
  <2>1. cycle.pc = "delete" => CronJobOf(cycle.target) \in Objects \ {k}
    BY <1>1, ObjectNames, ChildObjects DEF IInv, TypeOK, Progress, BusyCycle, IdleCycle
  <2>2. new = old
    BY <1>1, <1>9, <2>1, PutElsewhere
       DEF CycleStep, StartCycle, CycleFindMaster, CycleList, CycleDelete, apiVars
  <2> QED BY <1>2, <2>2
<1>10. CASE Process \/ Informers \/ (\E w \in Workers, c \in Backups : Start(w, c)) \/ UNCHANGED vars
  BY <1>2, <1>10
     DEF Process, Crash, Fatal, Panic, Restart, Relist, Informers, Deliver, TakeEvent, Retry, Resync,
         Start, StartReconcile, ReconcileNothing, apiVars, vars
<1> QED BY <1>6, <1>7, <1>8, <1>9, <1>10 DEF Next, Operator

\* LastBackupInfo is only ever set to the triple that the spec has at that moment.
THEOREM RecordedSpecIsCurrent == Spec => RecordsCurrentSpec
<1>1. IInv /\ [Next]_vars =>
        \A b \in Backups :
          LET old == store[BackupOf(b)]
              new == store'[BackupOf(b)]
          IN  old # Absent /\ new # Absent /\ new.last # old.last => new.last = old.spec.info
  BY StatusWrites
<1> QED BY <1>1, Invariance, PTL DEF Spec, RecordsCurrentSpec

\* A status update never drops a condition that another call appended.
THEOREM ConditionsGrow == Spec => ConditionsOnlyGrow
<1>1. ASSUME IInv, [Next]_vars, NEW b \in Backups,
             store[BackupOf(b)] # Absent, store'[BackupOf(b)] # Absent,
             IsScheduled(store[BackupOf(b)]),
             store'[BackupOf(b)].conditions # store[BackupOf(b)].conditions
      PROVE  \E i \in DOMAIN store'[BackupOf(b)].conditions :
               store'[BackupOf(b)].conditions =
                 Append(store[BackupOf(b)].conditions, store'[BackupOf(b)].conditions[i])
  <2> DEFINE old == store[BackupOf(b)]
             new == store'[BackupOf(b)]
  <2>1. old \in RedisBackup /\ old.conditions \in Seq(Condition)
    BY <1>1, ObjectNames, BackupFields DEF IInv, TypeOK, ApiTypeOK
  <2>2. PICK c \in Condition : new.conditions = WithCondition(old, c).conditions
    BY <1>1, StatusWrites
  <2>3. new.conditions = Append(old.conditions, c)
    BY <1>1, <2>1, <2>2 DEF WithCondition, RedisBackup
  <2> HIDE DEF old, new
  <2>4. Len(old.conditions) + 1 \in DOMAIN new.conditions
        /\ new.conditions[Len(old.conditions) + 1] = c
    BY <2>1, <2>3
  <2> QED BY <2>3, <2>4 DEF old, new
<1>2. IInv /\ [Next]_vars =>
        \A b \in Backups :
          LET old == store[BackupOf(b)]
              new == store'[BackupOf(b)]
          IN  old # Absent /\ new # Absent /\ IsScheduled(old) =>
                \/ new.conditions = old.conditions
                \/ \E i \in DOMAIN new.conditions :
                     new.conditions = Append(old.conditions, new.conditions[i])
  BY <1>1
<1> QED BY <1>2, Invariance, PTL DEF Spec, ConditionsOnlyGrow

----------------------------------------------------------------------------
\* What a call has read from Redis.

\* The result that Reconcile reads is the value of a key of Redis.
LEMMA KeyOfCall ==
  ASSUME TypeOK, NEW w \in Workers, ~InPc(w, "idle")
  PROVE  /\ ClusterOf(worker[w].key, worker[w].inst) \in Clusters
         /\ KeyOf(worker[w].key, worker[w].inst) \in RedisKeys
<1>1. worker[w].key \in Backups /\ worker[w].inst \in RedisBackup
  BY BusyFields
<1>2. worker[w].inst.spec.cluster \in ClusterNames
  BY <1>1, BackupFields
<1> QED BY <1>1, <1>2, BackupAssumption DEF ClusterOf, KeyOf, Clusters, RedisKeys, BackupAssumption

(***************************************************************************)
(* A call has the condition it had, none, or one it has just read, which   *)
(* is not the last of its version when it is about to be appended.         *)
(***************************************************************************)
CondStep(w) ==
  \/ worker'[w] = worker[w]
  \/ worker'[w].pc # "append" /\ worker'[w].cond \in {Absent, worker[w].cond}
  \/ /\ RedisConn(w)
     /\ worker'[w].cond \in {Absent} \cup {redis[c][k] : c \in Clusters, k \in RedisKeys}
     /\ worker'[w].pc = "append" /\ IsScheduled(worker'[w].inst)
          => IsNew(worker'[w].inst, worker'[w].cond)

\* It is so for the call that makes a step.
LEMMA CondOfStep ==
  ASSUME TypeOK, NEW w \in Workers, Step(w)
  PROVE  CondStep(w)
<1> DEFINE self == worker[w]
<1>1. self \in Busy /\ ~InPc(w, "idle")
  BY StepShape, BusyFields
<1>2. \A next : Goto(w, next) => worker'[w] = next
  BY DEF Goto, TypeOK
<1>3. CASE Return(w) \/ Fail(w)
  <2>1. worker'[w] = Idle
    BY <1>2, <1>3 DEF Return, Fail
  <2> QED BY <2>1 DEF CondStep, Idle
<1>4. ASSUME NEW pc \in WorkerPc \ {"append"}, NEW p, Goto(w, [self EXCEPT !.pc = pc, !.pvc = p])
      PROVE  CondStep(w)
  <2>1. worker'[w].pc = pc /\ worker'[w].cond = self.cond
    BY <1>1, <1>2, <1>4 DEF Busy
  <2> QED BY <2>1 DEF CondStep
<1>5. ASSUME NEW pc \in WorkerPc \ {"append"}, Goto(w, [self EXCEPT !.pc = pc])
      PROVE  CondStep(w)
  <2>1. worker'[w].pc = pc /\ worker'[w].cond = self.cond
    BY <1>1, <1>2, <1>5 DEF Busy
  <2> QED BY <2>1 DEF CondStep
<1>6. CASE FindMaster(w)
  BY <1>3, <1>4, <1>6 DEF FindMaster, WorkerPc
<1>7. CASE GetChild(w)
  BY <1>5, <1>7 DEF GetChild, WorkerPc
<1>8. CASE CompareClaim(w)
  BY <1>5, <1>8 DEF CompareClaim, WorkerPc
<1>9. CASE CreateChild(w)
  BY <1>3, <1>5, <1>9 DEF CreateChild, WorkerPc
<1>10. CASE RedisConn(w)
  <2> PICK c \in {Absent} \cup {redis[d][k] : d \in Clusters, k \in RedisKeys} : ReadRedis(w, c)
    BY <1>1, <1>10, KeyOfCall DEF RedisConn
  <2>1. CASE Return(w)
    BY <1>3, <2>1
  <2>2. CASE ~Return(w)
    <3> DEFINE pc == IF c # Absent /\ (IsScheduled(self.inst) => IsNew(self.inst, c))
                     THEN "append" ELSE "record"
               next == [self EXCEPT !.pc = pc, !.cond = c]
    <3>1. Goto(w, next)
      BY <2>2 DEF ReadRedis
    <3>2. next.pc = pc /\ next.cond = c /\ next.inst = self.inst
      BY <1>1 DEF Busy
    <3>3. pc = "append" => (IsScheduled(self.inst) => IsNew(self.inst, c))
      OBVIOUS
    <3> HIDE DEF next, pc
    <3>4. worker'[w] = next
      BY <1>2, <3>1
    <3> QED BY <1>10, <3>2, <3>3, <3>4 DEF CondStep
  <2> QED BY <2>1, <2>2
<1>11. CASE AppendCondition(w)
  <2>1. CASE Goto(w, [self EXCEPT !.pc = "record", !.inst = store'[BackupOf(self.key)]])
    <3>1. worker'[w].pc = "record" /\ worker'[w].cond = self.cond
      BY <1>1, <1>2, <2>1 DEF Busy
    <3> QED BY <3>1 DEF CondStep
  <2> QED BY <1>3, <1>11, <2>1 DEF AppendCondition
<1>12. CASE \/ PodListFails(w) \/ CallFails(w) \/ DeleteCronJob(w)
            \/ RecordInfo(w) \/ UpdateRefused(w)
  BY <1>3, <1>12 DEF PodListFails, CallFails, DeleteCronJob, RecordInfo, UpdateRefused
<1> QED BY <1>6, <1>7, <1>8, <1>9, <1>10, <1>11, <1>12 DEF Step

\* It is so for every call, whatever the step.
LEMMA CondOfNext ==
  ASSUME TypeOK, [Next]_vars, NEW w \in Workers
  PROVE  CondStep(w)
<1>1. CASE \E v \in Workers : Step(v)
  <2> PICK v \in Workers : Step(v)
    BY <1>1
  <2>1. CASE v = w
    BY <2>1, CondOfStep
  <2>2. CASE v # w
    <3>1. \E next : Goto(v, next)
      BY StepShape DEF Return, Fail
    <3>2. worker'[w] = worker[w]
      BY <2>2, <3>1 DEF Goto, TypeOK
    <3> QED BY <3>2 DEF CondStep
  <2> QED BY <2>1, <2>2
<1>2. CASE \E v \in Workers, b \in Backups : StartReconcile(v, b)
  <2> PICK v \in Workers, b \in Backups : StartReconcile(v, b)
    BY <1>2
  <2>1. worker'[w] = worker[w] \/ (worker'[w].pc = "pods" /\ worker'[w].cond = Absent)
    BY DEF StartReconcile, Goto, TypeOK
  <2> QED BY <2>1 DEF CondStep
<1>3. CASE Restart
  BY <1>3 DEF Restart, Idle, CondStep
<1>4. CASE worker' = worker
  BY <1>4 DEF CondStep
<1> QED
  BY <1>1, <1>2, <1>3, <1>4
  DEF Next, User, CreateBackup, EditBackup, DeleteBackup, Environment, MoveMaster, KeyExpires,
      CollectChild, ChildRuns, JobExpires, PodPublishes, PodFails, PodEnds, Process, Crash, Fatal,
      Panic, Informers, Deliver, Retry, Resync, Operator, Start, ReconcileNothing, CycleStep,
      StartCycle, CycleFindMaster, CycleList, CycleDelete, opVars, vars
============================================================================
