----------------------- MODULE BackupRefinementProofs -----------------------
(***************************************************************************)
(* The operator implements BackupContract.  Beside IInv the proof needs    *)
(* that no version has a uid of later than its number (UidsKnown), so that *)
(* a new uid is new, and that a condition which Reconcile is about to      *)
(* append is not the last one of the version it appends to (NewsOnly).     *)
(***************************************************************************)
EXTENDS BackupProofs, BackupRefinement

----------------------------------------------------------------------------
\* The versions the operator may act on.

UidsKnown == \A b \in Backups : \A v \in VersionsOf(b) : v.uid <= rev[b]

NewsOnly ==
  \A w \in Workers :
    InPc(w, "append") /\ IsScheduled(worker[w].inst) => IsNew(worker[w].inst, worker[w].cond)

\* They are versions of a RedisBackup.
LEMMA VersionsTyped ==
  ASSUME TypeOK, NEW b \in Backups, NEW v \in VersionsOf(b)
  PROVE  v \in RedisBackup
<1>1. BackupOf(b) \in Objects /\ Versions(BackupOf(b)) = RedisBackup \cup {Absent}
  BY ObjectNames
<1>2. /\ store[BackupOf(b)] \in RedisBackup \cup {Absent}
      /\ cache[BackupOf(b)] \in RedisBackup \cup {Absent}
      /\ watch[BackupOf(b)] \in Seq(RedisBackup \cup {Absent})
  BY <1>1 DEF TypeOK, ApiTypeOK
<1>3. \A w \in Workers : worker[w].key = b => worker[w].inst \in RedisBackup
  BY AbsentAssumption DEF TypeOK, Busy, Idle, AbsentAssumption
<1> QED BY <1>2, <1>3 DEF VersionsOf

\* A step adds no version but the one it stores.
LEMMA NoOtherVersions ==
  ASSUME IInv, TypeOK', [Next]_vars, NEW b \in Backups, NEW v \in VersionsOf(b)'
  PROVE  v \in VersionsOf(b) \/ (v = store'[BackupOf(b)] /\ v # Absent)
<1> DEFINE k == BackupOf(b)
<1>1. TypeOK /\ Progress /\ ApiStep
  BY NextApi DEF IInv
<1>2. v # Absent
  BY DEF VersionsOf
<1>3. CASE v = cache'[k]
  BY <1>1, <1>2, <1>3, CachedVersions DEF VersionsOf
<1>4. CASE \E i \in DOMAIN watch'[k] : v = watch'[k][i]
  BY <1>1, <1>2, <1>4, CachedVersions DEF VersionsOf
<1>5. CASE \E w \in Workers : worker'[w].key = b /\ v = worker'[w].inst
  <2> PICK w \in Workers : worker'[w].key = b /\ v = worker'[w].inst
    BY <1>5
  <2>1. worker'[w].pc # "idle"
    BY AbsentAssumption DEF TypeOK, Busy, Idle, WorkerPc, AbsentAssumption
  <2> QED BY <1>1, <1>2, <2>1, WorkerVersions DEF VersionsOf
<1> QED BY <1>2, <1>3, <1>4, <1>5 DEF VersionsOf

\* The end of a call or a step of it, seen from RedisBackup b.
LEMMA StoredByStep ==
  ASSUME IInv, NEW w \in Workers, Step(w), NEW b \in Backups, store'[BackupOf(b)] # Absent
  PROVE  \/ store'[BackupOf(b)] = store[BackupOf(b)]
         \/ /\ worker[w].key = b
            /\ store'[BackupOf(b)].uid = worker[w].inst.uid
            /\ store'[BackupOf(b)].spec = worker[w].inst.spec
<1> DEFINE k == BackupOf(b)
           inst == worker[w].inst
           key == worker[w].key
<1>1. TypeOK /\ k \in Objects /\ k \notin Children
  BY ObjectNames DEF BackupOf, Children, IInv
<1>2. ~InPc(w, "idle") /\ key \in Backups /\ inst \in RedisBackup
  BY <1>1, StepShape, BusyFields
<1>3. BackupOf(key) \in Objects /\ (key # b => BackupOf(key) # k)
  BY <1>2, ObjectNames DEF BackupOf
<1>4. ASSUME NEW u, u.uid = inst.uid, u.spec = inst.spec, DOMAIN u = DOMAIN inst, UpdateStatus(key, inst, u)
      PROVE  store'[k] = store[k] \/ (key = b /\ store'[k].uid = inst.uid /\ store'[k].spec = inst.spec)
  <2>1. CASE UNCHANGED apiVars
    BY <2>1 DEF apiVars
  <2>2. CASE PutBackup(key, u) /\ key = b
    <3>1. store'[k] = [u EXCEPT !.rv = rev[b] + 1]
      BY <1>1, <2>2 DEF PutBackup, Put, TypeOK, ApiTypeOK
    <3>2. "uid" # "rv" /\ "spec" # "rv" /\ {"uid", "spec"} \subseteq DOMAIN inst
      BY <1>2 DEF RedisBackup
    <3> QED BY <1>4, <2>2, <3>1, <3>2
  <2>3. CASE PutBackup(key, u) /\ key # b
    BY <1>1, <1>3, <2>3, PutElsewhere DEF PutBackup
  <2> QED BY <1>4, <2>1, <2>2, <2>3 DEF UpdateStatus
<1>5. CASE AppendCondition(w)
  <2> DEFINE u == WithCondition(inst, worker[w].cond)
  <2>1. u.uid = inst.uid /\ u.spec = inst.spec /\ DOMAIN u = DOMAIN inst
    BY <1>2 DEF WithCondition, RedisBackup
  <2>2. UpdateStatus(key, inst, u)
    BY <1>5 DEF AppendCondition
  <2> HIDE DEF u, inst, key
  <2>3. store'[k] = store[k] \/ (key = b /\ store'[k].uid = inst.uid /\ store'[k].spec = inst.spec)
    BY <1>4, <2>1, <2>2
  <2> QED BY <2>3 DEF key, inst
<1>6. CASE RecordInfo(w)
  <2> DEFINE u == [inst EXCEPT !.last = inst.spec.info]
  <2>1. u.uid = inst.uid /\ u.spec = inst.spec /\ DOMAIN u = DOMAIN inst
    BY <1>2 DEF RedisBackup
  <2>2. UpdateStatus(key, inst, u)
    BY <1>6 DEF RecordInfo
  <2> HIDE DEF u, inst, key
  <2>3. store'[k] = store[k] \/ (key = b /\ store'[k].uid = inst.uid /\ store'[k].spec = inst.spec)
    BY <1>4, <2>1, <2>2
  <2> QED BY <2>3 DEF key, inst
<1>7. CASE ~(AppendCondition(w) \/ RecordInfo(w))
  <2>1. ChildOf(key, inst) \in Objects \ {k} /\ CronJobOf(key) \in Objects \ {k}
    BY <1>1, <1>2, ObjectNames, ChildObjects
  <2>2. store'[k] = store[k]
    BY <1>1, <1>7, <2>1, PutElsewhere
       DEF Step, FindMaster, PodListFails, CallFails, GetChild, CompareClaim, CreateChild,
           DeleteCronJob, RedisConn, ReadRedis, UpdateRefused, apiVars
  <2> QED BY <2>2
<1> QED BY <1>5, <1>6, <1>7

\* No step but a user's stores a uid or a spec that was not there.
LEMMA StoredFrom ==
  ASSUME IInv, [Next]_vars, NEW b \in Backups, store'[BackupOf(b)] # Absent
  PROVE  \/ \E spec \in BackupSpec : CreateBackup(b, spec) \/ EditBackup(b, spec)
         \/ \E v \in VersionsOf(b) : /\ v.uid = store'[BackupOf(b)].uid
                                     /\ v.spec = store'[BackupOf(b)].spec
<1> DEFINE k == BackupOf(b)
<1>1. TypeOK /\ Progress /\ k \in Objects /\ k \notin Children
  BY ObjectNames DEF BackupOf, Children, IInv
<1>2. CASE store'[k] = store[k]
  BY <1>2 DEF VersionsOf
<1>3. CASE \E w \in Workers : Step(w)
  <2> PICK w \in Workers : Step(w)
    BY <1>3
  <2>1. worker[w].inst # Absent
    BY <1>1, StepShape, BusyFields, AbsentAssumption DEF AbsentAssumption
  <2> QED BY <1>2, <2>1, StoredByStep DEF VersionsOf
<1>4. CASE \E c \in Backups : User(c)
  <2> PICK c \in Backups : User(c)
    BY <1>4
  <2>1. BackupOf(c) \in Objects /\ (c # b => BackupOf(c) # k)
    BY ObjectNames DEF BackupOf
  <2>2. c # b => store'[k] = store[k]
    BY <1>1, <2>1, PutElsewhere DEF User, CreateBackup, EditBackup, DeleteBackup, PutBackup
  <2>3. c = b => \E spec \in BackupSpec : CreateBackup(b, spec) \/ EditBackup(b, spec)
    BY <1>1 DEF User, DeleteBackup, Put, TypeOK, ApiTypeOK
  <2> QED BY <1>2, <2>2, <2>3
<1>5. CASE ~(\E c \in Backups : User(c)) /\ ~(\E w \in Workers : Step(w))
  <2>1. \/ Environment \/ CycleStep \/ (\E c \in Backups : StartCycle(c))
        \/ store' = store
    BY <1>5
       DEF Next, Operator, Process, Crash, Fatal, Panic, Restart, Relist, Informers, Deliver,
           TakeEvent, Retry, Resync, Start, StartReconcile, ReconcileNothing, apiVars, vars
  <2>2. CASE Environment
    <3>1. running \subseteq Run /\ Children \subseteq Objects /\ \A c \in Backups : JobOf(c) \in Children
      BY <1>1, ChildNames, ChildObjects DEF TypeOK, EnvTypeOK
    <3>2. \A r \in running : r.child \in Children
      BY <3>1 DEF Run
    <3>3. store'[k] = store[k]
      BY <1>1, <2>2, <3>1, <3>2, PutElsewhere
         DEF Environment, MoveMaster, KeyExpires, CollectChild, ChildRuns, JobExpires,
             PodPublishes, PodFails, PodEnds, apiVars
    <3> QED BY <1>2, <3>3
  <2>3. CASE CycleStep \/ \E c \in Backups : StartCycle(c)
    <3>1. cycle.pc = "delete" => CronJobOf(cycle.target) \in Objects \ {k}
      BY <1>1, ObjectNames, ChildObjects DEF TypeOK, Progress, BusyCycle, IdleCycle
    <3>2. store'[k] = store[k]
      BY <1>1, <2>3, <3>1, PutElsewhere
         DEF CycleStep, StartCycle, CycleFindMaster, CycleList, CycleDelete, apiVars
    <3> QED BY <1>2, <3>2
  <2> QED BY <1>2, <2>1, <2>2, <2>3
<1> QED BY <1>3, <1>4, <1>5

\* The resourceVersions that are given only grow.
LEMMA RevGrows ==
  ASSUME TypeOK, Progress, [Next]_vars, NEW b \in Backups
  PROVE  rev[b] \in Nat /\ rev'[b] \in Nat /\ rev[b] <= rev'[b]
<1>1. ApiStep /\ rev[b] \in Nat
  BY NextApi DEF TypeOK, ApiTypeOK
<1>2. CASE rev' = rev
  BY <1>1, <1>2
<1>3. CASE \E c \in Backups, u \in RedisBackup : PutBackup(c, u)
  <2> PICK c \in Backups, u \in RedisBackup : PutBackup(c, u)
    BY <1>3
  <2>1. rev'[b] = rev[b] \/ rev'[b] = rev[b] + 1
    BY PutBackupEffect
  <2> QED BY <1>1, <2>1
<1> QED BY <1>1, <1>2, <1>3 DEF ApiStep, TakeEvent, Relist, apiVars

\* At first no object has a uid.
LEMMA InitUids == Init => UidsKnown
BY ObjectNames, AbsentAssumption
   DEF Init, InitApiServer, UidsKnown, VersionsOf, Idle, AbsentAssumption

\* A uid is given once, and is the number of the version that it is given to.
LEMMA UidsNext ==
  ASSUME IInv, TypeOK', UidsKnown, [Next]_vars
  PROVE  UidsKnown'
<1> SUFFICES ASSUME NEW b \in Backups, NEW v \in VersionsOf(b)'
             PROVE  v.uid <= rev'[b]
  BY DEF UidsKnown
<1>1. TypeOK /\ Progress
  BY DEF IInv
<1>2. rev[b] \in Nat /\ rev'[b] \in Nat /\ rev[b] <= rev'[b]
  BY <1>1, RevGrows
<1>3. \A u \in VersionsOf(b) : u.uid <= rev'[b]
  BY <1>1, <1>2, VersionsTyped, BackupFields DEF UidsKnown
<1>4. CASE \E spec \in BackupSpec : CreateBackup(b, spec) /\ v = store'[BackupOf(b)]
  <2> PICK spec \in BackupSpec : CreateBackup(b, spec) /\ v = store'[BackupOf(b)]
    BY <1>4
  <2>1. v = [[uid |-> rev[b] + 1, rv |-> 0, spec |-> spec, last |-> NoInfo, conditions |-> <<>>]
               EXCEPT !.rv = rev[b] + 1]
    BY <1>1, ObjectNames DEF CreateBackup, PutBackup, Put, TypeOK, ApiTypeOK
  <2>2. rev'[b] = rev[b] + 1
    BY <1>1 DEF CreateBackup, PutBackup, TypeOK, ApiTypeOK
  <2> QED BY <1>2, <2>1, <2>2
<1>5. CASE \E spec \in BackupSpec : EditBackup(b, spec) /\ v = store'[BackupOf(b)]
  <2> PICK spec \in BackupSpec : EditBackup(b, spec) /\ v = store'[BackupOf(b)]
    BY <1>5
  <2>1. store[BackupOf(b)] \in VersionsOf(b) /\ store[BackupOf(b)] \in RedisBackup
    BY <1>1, ObjectNames DEF EditBackup, VersionsOf, TypeOK, ApiTypeOK
  <2>2. v = [[store[BackupOf(b)] EXCEPT !.spec = spec] EXCEPT !.rv = rev[b] + 1]
    BY <1>1, ObjectNames DEF EditBackup, PutBackup, Put, TypeOK, ApiTypeOK
  <2>3. v.uid = store[BackupOf(b)].uid
    BY <2>1, <2>2 DEF RedisBackup
  <2> QED BY <1>3, <2>1, <2>3
<1> QED BY <1>3, <1>4, <1>5, NoOtherVersions, StoredFrom

----------------------------------------------------------------------------
\* The results the operator may yet record.

\* At first nothing is about to be appended.
LEMMA InitNews == Init => NewsOnly
BY DEF Init, NewsOnly, InPc, Idle

\* What is about to be appended stays news.
LEMMA NewsNext ==
  ASSUME TypeOK, NewsOnly, [Next]_vars
  PROVE  NewsOnly'
BY CondOfNext DEF NewsOnly, CondStep, InPc, IsNew, IsScheduled

\* Unless a run publishes one, there is no new result.
LEMMA ResultsForgotten ==
  ASSUME TypeOK, [Next]_vars,
         \A c \in Clusters, k \in RedisKeys : redis'[c][k] \in {Absent, redis[c][k]}
  PROVE  results' \subseteq results
BY CondOfNext DEF results, CondStep

----------------------------------------------------------------------------
\* What a step does to the variables of the contract.

\* Only a write of a user adds to what was asked for.
LEMMA AskedForgotten ==
  ASSUME IInv, TypeOK', [Next]_vars,
         \A b \in Backups, spec \in BackupSpec : ~(CreateBackup(b, spec) \/ EditBackup(b, spec))
  PROVE  asked' \subseteq asked
<1>1. ASSUME NEW b \in Backups, NEW v \in VersionsOf(b)'
      PROVE  \E u \in VersionsOf(b) : u.uid = v.uid /\ u.spec = v.spec
  BY <1>1, NoOtherVersions, StoredFrom
<1> QED BY <1>1 DEF asked

\* What the write of a user adds is what the object then asks for.
LEMMA AskedByUser ==
  ASSUME IInv, TypeOK', [Next]_vars, NEW b \in Backups,
         \A c \in Backups \ {b} : store'[BackupOf(c)] = store[BackupOf(c)]
  PROVE  asked' \subseteq asked \cup {[backup |-> b, uid |-> store'[BackupOf(b)].uid,
                                        spec |-> store'[BackupOf(b)].spec]}
<1>1. ASSUME NEW c \in Backups, NEW v \in VersionsOf(c)'
      PROVE  v \in VersionsOf(c) \/ (c = b /\ v = store'[BackupOf(b)])
  <2>1. CASE c = b
    BY <1>1, <2>1, NoOtherVersions
  <2>2. CASE c # b
    BY <1>1, <2>2, NoOtherVersions DEF VersionsOf
  <2> QED BY <2>1, <2>2
<1> QED BY <1>1 DEF asked

\* A write of RedisBackup b changes b, and what is seen of it is not its number.
LEMMA PutSeen ==
  ASSUME TypeOK, NEW b \in Backups, NEW u \in RedisBackup, PutBackup(b, u)
  PROVE  /\ object' = [object EXCEPT ![b] = Seen(u)]
         /\ child' = child
         /\ store'[BackupOf(b)] # Absent /\ store'[BackupOf(b)].uid = u.uid
         /\ store'[BackupOf(b)].spec = u.spec
         /\ \A c \in Backups \ {b} : store'[BackupOf(c)] = store[BackupOf(c)]
<1>1. /\ \A c \in Backups \ {b} : store'[BackupOf(c)] = store[BackupOf(c)]
      /\ store'[BackupOf(b)] \in RedisBackup
  BY PutBackupEffect
<1>2. store'[BackupOf(b)] = [u EXCEPT !.rv = rev[b] + 1]
  BY ObjectNames DEF PutBackup, Put, TypeOK, ApiTypeOK
<1>3. /\ Seen(store'[BackupOf(b)]) = Seen(u)
      /\ store'[BackupOf(b)].uid = u.uid /\ store'[BackupOf(b)].spec = u.spec
  BY <1>2 DEF Seen, RedisBackup
<1>4. store'[BackupOf(b)] # Absent
  BY <1>1, AbsentAssumption DEF AbsentAssumption
<1>5. object' = [object EXCEPT ![b] = Seen(u)]
  BY <1>1, <1>3, <1>4 DEF object
<1>6. \A k \in Children : store'[k] = store[k]
  <2> TAKE k \in Children
  <2>1. k \in Objects /\ k # BackupOf(b)
    BY ChildNames DEF BackupOf
  <2> QED BY <2>1, ObjectNames, PutElsewhere DEF PutBackup
<1> QED BY <1>1, <1>3, <1>4, <1>5, <1>6 DEF child

\* What the contract tells of a child.
Built(v) ==
  IF v = Absent THEN Absent
  ELSE [uid |-> v.owner, spec |-> [cluster |-> v.cluster, info |-> v.info]]

\* What is seen of an object is an object.
LEMMA SeenThere ==
  /\ \A v \in RedisBackup : Seen(v) # Absent
  /\ \A v \in Child : Built(v) # Absent
<1>1. ASSUME NEW v \in RedisBackup
      PROVE  Seen(v) \in SeenBackup
  BY BackupFields DEF Seen, SeenBackup
<1>2. ASSUME NEW v \in Child
      PROVE  v # Absent /\ Built(v) \in SeenChild
  BY AbsentAssumption DEF Built, SeenChild, Child, BackupSpec, AbsentAssumption
<1> QED BY <1>1, <1>2, AbsentUnseen DEF AbsentUnseen

\* A write of a child changes that child.
LEMMA PutBuilt ==
  ASSUME TypeOK, NEW k \in Children, NEW u, Put(k, u)
  PROVE  object' = object /\ child' = [child EXCEPT ![k] = Built(u)]
<1>1. k \in Objects /\ Children \subseteq Objects /\ \A b \in Backups : BackupOf(b) \in Objects \ {k}
  BY ChildNames, ObjectNames DEF BackupOf
<1>2. \A b \in Backups : store'[BackupOf(b)] = store[BackupOf(b)]
  BY <1>1, PutElsewhere
<1>3. store'[k] = u /\ \A j \in Children \ {k} : store'[j] = store[j]
  BY <1>1, PutElsewhere DEF Put, TypeOK, ApiTypeOK
<1>4. child = [j \in Children |-> Built(store[j])] /\ child' = [j \in Children |-> Built(store'[j])]
  BY DEF child, Built
<1> QED BY <1>2, <1>3, <1>4 DEF object

\* A step that writes nothing changes nothing that is seen.
LEMMA StoreKept ==
  ASSUME store' = store
  PROVE  object' = object /\ child' = child
BY DEF object, child

----------------------------------------------------------------------------
\* Every step is a step of the contract.

\* The users' steps.
LEMMA UserSimulated ==
  ASSUME IInv, TypeOK', UidsKnown, [Next]_vars, NEW b \in Backups, User(b)
  PROVE  Contract!Next
<1>1. TypeOK
  BY DEF IInv
<1>2. UNCHANGED <<redis, worker>>
  BY DEF User, CreateBackup, EditBackup, DeleteBackup, envVars, opVars
<1>3. results' = results
  BY <1>2 DEF results
<1>4. object[b] = IF store[BackupOf(b)] = Absent THEN Absent ELSE Seen(store[BackupOf(b)])
  BY DEF object
<1>5. ASSUME NEW spec \in BackupSpec, CreateBackup(b, spec)
      PROVE  Contract!Create(b, spec)
  <2> DEFINE u == [uid |-> rev[b] + 1, rv |-> 0, spec |-> spec, last |-> NoInfo, conditions |-> <<>>]
  <2>1. rev[b] \in Nat /\ u \in RedisBackup
    BY <1>1 DEF RedisBackup, TypeOK, ApiTypeOK
  <2>2. PutBackup(b, u)
    BY <1>5 DEF CreateBackup
  <2>3. Seen(u) = [uid |-> rev[b] + 1, spec |-> spec, last |-> NoInfo, conditions |-> <<>>]
        /\ u.uid = rev[b] + 1 /\ u.spec = spec
    BY DEF Seen
  <2> HIDE DEF u
  <2>4. /\ object' = [object EXCEPT ![b] = Seen(u)] /\ child' = child
        /\ store'[BackupOf(b)] # Absent
        /\ store'[BackupOf(b)].uid = rev[b] + 1 /\ store'[BackupOf(b)].spec = spec
        /\ \A c \in Backups \ {b} : store'[BackupOf(c)] = store[BackupOf(c)]
    BY <1>1, <2>1, <2>2, <2>3, PutSeen
  <2>5. object'[b] = Seen(u)
    BY <2>4 DEF object
  <2>6. object[b] = Absent
    BY <1>4, <1>5 DEF CreateBackup
  <2>7. object'[b] # Absent
    BY <2>1, <2>5, SeenThere
  <2>8. \A a \in asked : a.backup = b => a.uid # rev[b] + 1
    <3> TAKE a \in asked
    <3>1. ASSUME a.backup = b
          PROVE  \E v \in VersionsOf(b) : a.uid = v.uid
      BY <3>1 DEF asked
    <3>2. \A v \in VersionsOf(b) : v.uid \in Nat /\ v.uid <= rev[b]
      BY <1>1, VersionsTyped, BackupFields DEF UidsKnown
    <3>3. \A v \in VersionsOf(b) : v.uid # rev[b] + 1
      BY <2>1, <3>2
    <3> QED BY <3>1, <3>3
  <2>9. asked' \subseteq asked \cup {[backup |-> b, uid |-> rev[b] + 1, spec |-> spec]}
    BY <2>4, AskedByUser
  <2>10. object'[b].uid = rev[b] + 1
    BY <2>3, <2>5
  <2> QED BY <1>3, <2>3, <2>4, <2>6, <2>7, <2>8, <2>9, <2>10 DEF Contract!Create, Contract!Ask
<1>6. ASSUME NEW spec \in BackupSpec, EditBackup(b, spec)
      PROVE  Contract!Edit(b, spec)
  <2> DEFINE old == store[BackupOf(b)]
             u == [old EXCEPT !.spec = spec]
  <2>1. old \in RedisBackup /\ old # Absent /\ PutBackup(b, u)
    BY <1>1, <1>6, ObjectNames DEF EditBackup, TypeOK, ApiTypeOK
  <2>2. u \in RedisBackup
    BY <2>1, BackupFields
  <2>3. Seen(u) = [Seen(old) EXCEPT !.spec = spec] /\ u.uid = old.uid /\ u.spec = spec
        /\ Seen(u).uid = old.uid
    BY <2>1 DEF Seen, RedisBackup
  <2>4. object[b] = Seen(old) /\ object[b] # Absent
    BY <1>4, <2>1, SeenThere
  <2> HIDE DEF u
  <2>5. /\ object' = [object EXCEPT ![b] = Seen(u)] /\ child' = child
        /\ store'[BackupOf(b)].uid = old.uid /\ store'[BackupOf(b)].spec = spec
        /\ \A c \in Backups \ {b} : store'[BackupOf(c)] = store[BackupOf(c)]
    BY <1>1, <2>1, <2>2, <2>3, PutSeen
  <2>6. object' = [object EXCEPT ![b].spec = spec] /\ object'[b].uid = old.uid
    BY <2>3, <2>4, <2>5 DEF object
  <2>7. asked' \subseteq asked \cup {[backup |-> b, uid |-> old.uid, spec |-> spec]}
    BY <2>5, AskedByUser
  <2> QED BY <1>3, <2>4, <2>5, <2>6, <2>7 DEF Contract!Edit, Contract!Ask
<1>7. ASSUME DeleteBackup(b)
      PROVE  Contract!Delete(b)
  <2>1. Put(BackupOf(b), Absent) /\ BackupOf(b) \in Objects /\ store[BackupOf(b)] # Absent
    BY <1>7, ObjectNames DEF DeleteBackup
  <2>2. \A k \in Objects \ {BackupOf(b)} : store'[k] = store[k]
    BY <1>1, <2>1, PutElsewhere
  <2>3. store'[BackupOf(b)] = Absent
    BY <1>1, <2>1 DEF Put, TypeOK, ApiTypeOK
  <2>4. \A c \in Backups \ {b} : store'[BackupOf(c)] = store[BackupOf(c)]
    BY <2>2, ObjectNames DEF BackupOf
  <2>5. \A k \in Children : store'[k] = store[k]
    BY <2>2, ChildNames DEF BackupOf
  <2>6. object' = [object EXCEPT ![b] = Absent] /\ child' = child
    BY <2>3, <2>4, <2>5 DEF object, child
  <2>7. asked' \subseteq asked
    <3>1. ASSUME NEW c \in Backups, NEW v \in VersionsOf(c)'
          PROVE  v \in VersionsOf(c)
      <4>1. CASE v \in VersionsOf(c)
        BY <4>1
      <4>2. CASE v = store'[BackupOf(c)] /\ v # Absent
        BY <2>3, <2>4, <4>2 DEF VersionsOf
      <4> QED BY <3>1, <4>1, <4>2, NoOtherVersions
    <3> QED BY <3>1 DEF asked
  <2>8. object[b] # Absent
    <3>1. store[BackupOf(b)] \in RedisBackup
      BY <1>1, <2>1, ObjectNames DEF TypeOK, ApiTypeOK
    <3> QED BY <1>4, <2>1, <3>1, SeenThere
  <2> QED BY <1>3, <2>6, <2>7, <2>8 DEF Contract!Delete, Contract!ForgetAsked
<1> QED BY <1>5, <1>6, <1>7 DEF User, Contract!Next

\* A step that is not a user's write forgets at most.
LEMMA OthersForget ==
  ASSUME IInv, TypeOK', [Next]_vars, budget'.edits = budget.edits,
         \A c \in Clusters, k \in RedisKeys : redis'[c][k] \in {Absent, redis[c][k]}
  PROVE  Contract!ForgetAsked /\ Contract!ForgetResults
<1>1. TypeOK
  BY DEF IInv
<1>2. \A b \in Backups, spec \in BackupSpec : ~(CreateBackup(b, spec) \/ EditBackup(b, spec))
  <2>1. budget \in Budget /\ budget.edits \in Nat
    BY <1>1 DEF TypeOK, EnvTypeOK, Budget
  <2>2. ~Edit
    BY <2>1 DEF Edit, Budget
  <2> QED BY <2>2 DEF CreateBackup, EditBackup
<1> QED BY <1>1, <1>2, AskedForgotten, ResultsForgotten DEF Contract!ForgetAsked, Contract!ForgetResults

\* A status update and what it is an update of.
LEMMA UpdateSeen ==
  ASSUME IInv, NEW w \in Workers, ~InPc(w, "idle"), NEW u \in RedisBackup,
         UpdateStatus(worker[w].key, worker[w].inst, u)
  PROVE  LET b == worker[w].key IN
         /\ b \in Backups
         /\ worker[w].inst \in RedisBackup
         /\ object[b] = Seen(worker[w].inst) /\ object[b] # Absent
         /\ child' = child
         /\ object' = object \/ object' = [object EXCEPT ![b] = Seen(u)]
<1> DEFINE b == worker[w].key
           inst == worker[w].inst
<1>1. TypeOK /\ b \in Backups /\ inst \in RedisBackup
  BY BusyFields DEF IInv
<1>2. inst = store[BackupOf(b)] /\ inst # Absent
  BY <1>1, CurrentIsStored, AbsentAssumption DEF UpdateStatus, AbsentAssumption
<1>3. object[b] = Seen(inst) /\ object[b] # Absent
  BY <1>1, <1>2, SeenThere DEF object
<1>4. CASE UNCHANGED apiVars
  BY <1>1, <1>3, <1>4, StoreKept DEF apiVars
<1>5. CASE PutBackup(b, u)
  BY <1>1, <1>3, <1>5, PutSeen
<1> QED BY <1>4, <1>5 DEF UpdateStatus

\* The steps of Reconcile.
LEMMA StepSimulated ==
  ASSUME IInv, TypeOK', NewsOnly, [Next]_vars, NEW w \in Workers, Step(w)
  PROVE  Contract!Next
<1> DEFINE b == worker[w].key
           inst == worker[w].inst
           c == worker[w].cond
<1>1. TypeOK /\ Progress /\ ~InPc(w, "idle") /\ worker[w] \in Busy /\ b \in Backups /\ inst \in RedisBackup
  BY StepShape, BusyFields DEF IInv
<1>2. Contract!ForgetAsked /\ Contract!ForgetResults
  <2>1. redis' = redis /\ (budget' = budget \/ Fault)
    BY DEF Step, FindMaster, PodListFails, CallFails, GetChild, CompareClaim, CreateChild,
           DeleteCronJob, RedisConn, ReadRedis, AppendCondition, RecordInfo, UpdateRefused
  <2>2. budget'.edits = budget.edits
    BY <1>1, <2>1 DEF Fault, TypeOK, EnvTypeOK, Budget
  <2> QED BY <2>1, <2>2, OthersForget
<1>3. object' = object /\ child' = child => Contract!Next
  BY <1>2 DEF Contract!Next, Contract!Forget
<1>4. CASE AppendCondition(w)
  <2> DEFINE u == WithCondition(inst, c)
  <2>1. c \in Condition /\ c # Absent
    BY <1>1, <1>4 DEF AppendCondition, Progress, Busy
  <2>2. u \in RedisBackup
    <3>1. Append(inst.conditions, c) \in Seq(Condition) /\ <<c>> \in Seq(Condition)
      BY <1>1, <2>1, BackupFields
    <3> QED BY <1>1, <3>1, BackupFields DEF WithCondition
  <2>3. Seen(u) = [Seen(inst) EXCEPT !.conditions =
                     IF IsScheduled(inst) THEN Append(inst.conditions, c) ELSE <<c>>]
    <3> DEFINE d == IF IsScheduled(inst) THEN Append(inst.conditions, c) ELSE <<c>>
    <3>1. u = [inst EXCEPT !.conditions = d]
      BY <1>1 DEF WithCondition
    <3> HIDE DEF d
    <3>2. Seen(u) = [Seen(inst) EXCEPT !.conditions = d]
      BY <1>1, <3>1 DEF Seen, RedisBackup
    <3> QED BY <3>2 DEF d
  <2>4. UpdateStatus(b, inst, u)
    BY <1>4 DEF AppendCondition
  <2> HIDE DEF u
  <2>5. /\ object[b] = Seen(inst) /\ object[b] # Absent /\ child' = child
        /\ object' = object \/ object' = [object EXCEPT ![b] = Seen(u)]
    BY <1>1, <2>2, <2>4, UpdateSeen
  <2>6. c \in results
    BY <2>1 DEF results
  <2>7. /\ Seen(inst).conditions = inst.conditions
        /\ Contract!IsScheduled(object[b]) <=> IsScheduled(inst)
    BY <2>5 DEF Seen, IsScheduled, Contract!IsScheduled
  <2>8. IsScheduled(inst) => Contract!IsNews(object[b], c)
    BY <1>4, <2>5, <2>7 DEF AppendCondition, NewsOnly, IsNew, Contract!IsNews
  <2>9. CASE object' = [object EXCEPT ![b] = Seen(u)] /\ IsScheduled(inst)
    <3>1. object' = [object EXCEPT ![b].conditions = Append(@, c)]
      BY <2>3, <2>5, <2>7, <2>9
    <3>2. Contract!Log(b, c)
      BY <1>2, <2>5, <2>7, <2>8, <2>9, <3>1 DEF Contract!Log
    <3> QED BY <1>1, <2>6, <3>2 DEF Contract!Next
  <2>10. CASE object' = [object EXCEPT ![b] = Seen(u)] /\ ~IsScheduled(inst)
    <3>1. object' = [object EXCEPT ![b].conditions = <<c>>]
      BY <2>3, <2>5, <2>7, <2>10
    <3>2. Contract!Log(b, c)
      BY <1>2, <2>5, <2>7, <2>10, <3>1 DEF Contract!Log
    <3> QED BY <1>1, <2>6, <3>2 DEF Contract!Next
  <2> QED BY <1>3, <2>5, <2>9, <2>10
<1>5. CASE RecordInfo(w)
  <2> DEFINE u == [inst EXCEPT !.last = inst.spec.info]
  <2>1. u \in RedisBackup /\ Seen(u) = [Seen(inst) EXCEPT !.last = inst.spec.info]
        /\ Seen(inst).spec = inst.spec
    BY <1>1, BackupFields DEF Seen, RedisBackup
  <2>2. UpdateStatus(b, inst, u)
    BY <1>5 DEF RecordInfo
  <2> HIDE DEF u
  <2>3. /\ object[b] = Seen(inst) /\ object[b] # Absent /\ child' = child
        /\ object' = object \/ object' = [object EXCEPT ![b] = Seen(u)]
    BY <1>1, <2>1, <2>2, UpdateSeen
  <2>4. CASE object' = [object EXCEPT ![b] = Seen(u)]
    <3>1. object' = [object EXCEPT ![b].last = object[b].spec.info]
      BY <2>1, <2>3, <2>4
    <3>2. Contract!Record(b)
      BY <1>2, <2>3, <3>1 DEF Contract!Record
    <3> QED BY <1>1, <3>2 DEF Contract!Next
  <2> QED BY <1>3, <2>3, <2>4
<1>6. CASE CreateChild(w)
  <2> DEFINE k == ChildOf(b, inst)
             v == MakeCronJob(inst, worker[w].pvc)
             a == [backup |-> b, uid |-> inst.uid, spec |-> inst.spec]
  <2>1. k \in Children
    BY <1>1, ObjectNames, ChildObjects
  <2>2. CASE UNCHANGED apiVars
    BY <1>3, <2>2, StoreKept DEF apiVars
  <2>3. CASE store[k] = Absent /\ Put(k, v)
    <3>1. v \in Child
      <4>1. worker[w].pvc \in Pvcs
        BY <1>1, <1>6 DEF CreateChild, Progress, InPc, WorkerPc
      <4> QED BY <1>1, <4>1, BackupFields DEF MakeCronJob, Child
    <3>2. Built(v) = [uid |-> inst.uid, spec |-> inst.spec]
      <4>1. inst.spec = [cluster |-> inst.spec.cluster, info |-> inst.spec.info]
        BY <1>1, BackupFields DEF BackupSpec
      <4> QED BY <3>1, <4>1, AbsentAssumption DEF Built, MakeCronJob, AbsentAssumption
    <3>3. object' = object /\ child' = [child EXCEPT ![k] = Built(v)]
      BY <1>1, <2>1, <2>3, PutBuilt
    <3>4. a \in asked
      <4>1. inst \in VersionsOf(b)
        BY <1>1, AbsentAssumption DEF VersionsOf, AbsentAssumption
      <4> QED BY <1>1, <4>1 DEF asked
    <3>5. child[k] = Absent
      BY <2>1, <2>3 DEF child
    <3>6. k = <<IF IsScheduled(inst) THEN "CronJob" ELSE "Job", b>>
      BY DEF ChildOf, CronJobOf, JobOf
    <3>7. a.backup = b /\ a.uid = inst.uid /\ a.spec = inst.spec
          /\ (Contract!IsScheduled(a) <=> IsScheduled(inst))
      BY DEF Contract!IsScheduled, IsScheduled
    <3> HIDE DEF a, k, v, b, inst
    <3>8. Contract!Build(k, a)
      BY <1>2, <3>2, <3>3, <3>5, <3>6, <3>7 DEF Contract!Build
    <3> QED BY <2>1, <3>4, <3>8 DEF Contract!Next
  <2> QED BY <1>6, <2>2, <2>3 DEF CreateChild
<1>7. CASE DeleteCronJob(w)
  <2>1. CronJobOf(b) \in Children
    BY <1>1, ChildObjects
  <2>2. CASE UNCHANGED apiVars
    BY <1>3, <2>2, StoreKept DEF apiVars
  <2>3. CASE Put(CronJobOf(b), Absent)
    <3>1. Contract!Remove(CronJobOf(b))
      BY <1>1, <1>2, <2>1, <2>3, PutBuilt DEF Contract!Remove, Built
    <3> QED BY <2>1, <3>1 DEF Contract!Next
  <2> QED BY <1>7, <2>2, <2>3 DEF DeleteCronJob
<1>8. CASE ~(AppendCondition(w) \/ RecordInfo(w) \/ CreateChild(w) \/ DeleteCronJob(w))
  <2>1. UNCHANGED apiVars
    BY <1>8 DEF Step, FindMaster, PodListFails, CallFails, GetChild, CompareClaim,
                RedisConn, ReadRedis, UpdateRefused
  <2> QED BY <1>3, <2>1, StoreKept DEF apiVars
<1> QED BY <1>4, <1>5, <1>6, <1>7, <1>8

\* The progress of a child is not part of the contract.
LEMMA ProgressUnseen ==
  ASSUME TypeOK, NEW k \in Children, store[k] # Absent, NEW u \in Child, Put(k, u),
         u.owner = store[k].owner, u.cluster = store[k].cluster, u.info = store[k].info
  PROVE  object' = object /\ child' = child
<1>1. child[k] = Built(u)
  BY AbsentAssumption DEF child, Built, AbsentAssumption
<1>2. object' = object /\ child' = [child EXCEPT ![k] = Built(u)]
  BY PutBuilt
<1>3. child' = child
  BY <1>1, <1>2 DEF child
<1> QED BY <1>2, <1>3

\* The end of a pod is not part of it either.
LEMMA PodEndUnseen ==
  ASSUME TypeOK, NEW r \in running, PodEnds(r)
  PROVE  object' = object /\ child' = child
<1>1. r.child \in Children
  BY DEF TypeOK, EnvTypeOK, Run
<1>2. CASE UNCHANGED apiVars
  BY <1>2, StoreKept DEF apiVars
<1>3. CASE /\ store[r.child] # Absent
           /\ Put(r.child, [store[r.child] EXCEPT !.active = 0, !.done = (r.child[1] = "Job")])
  <2> DEFINE old == store[r.child]
             u == [old EXCEPT !.active = 0, !.done = (r.child[1] = "Job")]
  <2>1. old \in Child
    BY <1>1, <1>3, ChildNames DEF TypeOK, ApiTypeOK
  <2>2. u \in Child /\ u.owner = old.owner /\ u.cluster = old.cluster /\ u.info = old.info
    BY <2>1, ChildFields DEF Child
  <2> HIDE DEF u
  <2>3. Put(r.child, u)
    BY <1>3 DEF u
  <2> QED BY <1>1, <1>3, <2>2, <2>3, ProgressUnseen
<1> QED BY <1>2, <1>3 DEF PodEnds

\* A run publishes its result.
LEMMA PublishSimulated ==
  ASSUME IInv, TypeOK', [Next]_vars, NEW r \in running, PodPublishes(r)
  PROVE  Contract!Next
<1> DEFINE c == [file |-> r.file, object |-> r.child[2]]
           d == <<Ns[r.child[2]], r.cluster>>
           k == KeyOfRun(r)
<1>1. TypeOK /\ r \in Run
  BY DEF IInv, TypeOK, EnvTypeOK
<1>2. d \in Clusters /\ k \in RedisKeys /\ c \in Condition
  <2>1. r.child \in Children /\ r.child[2] \in Backups /\ r.cluster \in ClusterNames /\ r.file \in Nat
    BY <1>1, ChildNames DEF Run
  <2> QED BY <2>1, BackupAssumption DEF Clusters, RedisKeys, KeyOfRun, Condition, BackupAssumption
<1>3. c # Absent
  BY <1>2, AbsentAssumption DEF AbsentAssumption
<1>4. redis' = [redis EXCEPT ![d][k] = c]
  BY DEF PodPublishes
<1> HIDE DEF c, d, k
<1>5. redis \in [Clusters -> [RedisKeys -> Condition \cup {Absent}]]
  BY <1>1 DEF TypeOK, EnvTypeOK
<1>6. redis'[d][k] = c
  BY <1>2, <1>4, <1>5
<1>7. \A e \in Clusters, j \in RedisKeys : redis'[e][j] \in {c, redis[e][j]}
  BY <1>2, <1>4, <1>5
<1>8. worker' = worker /\ budget' = budget
  BY DEF PodPublishes, PodEnds, opVars
<1>9. results' \subseteq results \cup {c}
  BY <1>7, <1>8 DEF results
<1>10. c \in results'
  BY <1>2, <1>3, <1>6 DEF results
<1>11. object' = object /\ child' = child
  BY <1>1, PodEndUnseen DEF PodPublishes
<1>12. asked' \subseteq asked
  <2>1. \A b \in Backups, spec \in BackupSpec : ~(CreateBackup(b, spec) \/ EditBackup(b, spec))
    <3>1. budget \in Budget /\ budget.edits \in Nat
      BY <1>1 DEF TypeOK, EnvTypeOK, Budget
    <3>2. ~Edit
      BY <1>8, <3>1 DEF Edit, Budget
    <3> QED BY <3>2 DEF CreateBackup, EditBackup
  <2> QED BY <2>1, AskedForgotten
<1> QED BY <1>9, <1>10, <1>11, <1>12 DEF Contract!Next, Contract!Publish, Contract!ForgetAsked

\* The rest of Kubernetes and the Redis clusters.
LEMMA EnvironmentSimulated ==
  ASSUME IInv, TypeOK', [Next]_vars, Environment
  PROVE  Contract!Next
<1>1. TypeOK /\ Progress
  BY DEF IInv
<1>2. CASE \E r \in running : PodPublishes(r)
  BY <1>2, PublishSimulated
<1>3. CASE ~(\E r \in running : PodPublishes(r))
  <2>1. /\ budget'.edits = budget.edits
        /\ \A c \in Clusters, k \in RedisKeys : redis'[c][k] \in {Absent, redis[c][k]}
    <3>1. budget \in Budget /\ redis \in [Clusters -> [RedisKeys -> Condition \cup {Absent}]]
      BY <1>1 DEF TypeOK, EnvTypeOK
    <3>2. budget' = budget \/ (\E n : budget' \in {[budget EXCEPT !.moves = n], [budget EXCEPT !.runs = n]})
      BY <1>3
         DEF Environment, MoveMaster, KeyExpires, CollectChild, ChildRuns, JobExpires, PodFails, PodEnds
    <3>3. budget'.edits = budget.edits
      BY <3>1, <3>2 DEF Budget
    <3>4. CASE \E c \in Clusters, b \in Backups : KeyExpires(c, b)
      <4> PICK c \in Clusters, b \in Backups : KeyExpires(c, b)
        BY <3>4
      <4>1. redis' = [redis EXCEPT ![c][b] = Absent] /\ b \in RedisKeys
        BY DEF KeyExpires, RedisKeys
      <4> QED BY <3>1, <3>3, <4>1
    <3>5. CASE redis' = redis
      BY <3>3, <3>5
    <3> QED BY <1>3, <3>4, <3>5
            DEF Environment, MoveMaster, CollectChild, ChildRuns, JobExpires, PodFails, PodEnds, envVars
  <2>2. Contract!ForgetAsked /\ Contract!ForgetResults
    BY <2>1, OthersForget
  <2>3. object' = object /\ child' = child => Contract!Next
    BY <2>2 DEF Contract!Next, Contract!Forget
  <2>4. ASSUME NEW k \in Children, Put(k, Absent)
        PROVE  Contract!Next
    BY <1>1, <2>2, <2>4, PutBuilt DEF Contract!Next, Contract!Remove, Built
  <2>5. CASE \E k \in Children : CollectChild(k)
    BY <2>4, <2>5 DEF CollectChild
  <2>6. CASE \E b \in Backups : JobExpires(b)
    BY <2>4, <2>6, ChildObjects DEF JobExpires
  <2>7. CASE \E k \in Children : ChildRuns(k)
    <3> PICK k \in Children : ChildRuns(k)
      BY <2>7
    <3> DEFINE old == store[k]
               u == [old EXCEPT !.active = budget.runs]
    <3>1. old \in Child /\ old # Absent /\ budget.runs \in Nat
      BY <1>1, ChildNames DEF ChildRuns, TypeOK, ApiTypeOK, EnvTypeOK, Budget
    <3>2. u \in Child /\ u.owner = old.owner /\ u.cluster = old.cluster /\ u.info = old.info
      BY <3>1, ChildFields DEF Child
    <3>3. Put(k, u)
      BY DEF ChildRuns
    <3> HIDE DEF u
    <3> QED BY <1>1, <2>3, <3>1, <3>2, <3>3, ProgressUnseen
  <2>8. CASE \E r \in running : PodFails(r)
    BY <1>1, <2>3, <2>8, PodEndUnseen DEF PodFails
  <2>9. CASE \E c \in Clusters : MoveMaster(c) \/ \E b \in Backups : KeyExpires(c, b)
    <3>1. store' = store
      BY <2>9 DEF MoveMaster, KeyExpires, apiVars
    <3> QED BY <2>3, <3>1, StoreKept
  <2> QED BY <1>3, <2>5, <2>6, <2>7, <2>8, <2>9 DEF Environment
<1> QED BY <1>2, <1>3

\* CycleSync, the informers, the starts of calls and the ends of the process.
LEMMA RestSimulated ==
  ASSUME IInv, TypeOK', [Next]_vars,
         \/ Process \/ Informers \/ CycleStep \/ (\E b \in Backups : StartCycle(b))
         \/ (\E w \in Workers, b \in Backups : Start(w, b)) \/ UNCHANGED vars
  PROVE  Contract!Next
<1>1. TypeOK /\ Progress
  BY DEF IInv
<1>2. redis' = redis /\ (budget' = budget \/ Fault)
  BY DEF Process, Crash, Fatal, Panic, Restart, Informers, Deliver, Retry, Resync, Start,
         StartReconcile, ReconcileNothing, CycleStep, StartCycle, CycleFindMaster, CycleList,
         CycleDelete, envVars, vars
<1>3. budget'.edits = budget.edits
  BY <1>1, <1>2 DEF Fault, TypeOK, EnvTypeOK, Budget
<1>4. Contract!ForgetAsked /\ Contract!ForgetResults
  BY <1>2, <1>3, OthersForget
<1>5. CASE store' = store
  BY <1>4, <1>5, StoreKept DEF Contract!Next, Contract!Forget
<1>6. CASE CycleDelete
  <2>1. cycle.target \in Backups
    BY <1>1, <1>6 DEF CycleDelete, TypeOK, Progress, BusyCycle, IdleCycle
  <2>2. CronJobOf(cycle.target) \in Children
    BY <2>1, ChildObjects
  <2>3. Contract!Remove(CronJobOf(cycle.target))
    BY <1>1, <1>4, <1>6, <2>2, PutBuilt DEF CycleDelete, Contract!Remove, Built
  <2> QED BY <2>2, <2>3 DEF Contract!Next
<1> QED
  BY <1>5, <1>6
  DEF Process, Crash, Fatal, Panic, Restart, Relist, Informers, Deliver, TakeEvent, Retry, Resync,
      Start, StartReconcile, ReconcileNothing, CycleStep, StartCycle, CycleFindMaster, CycleList,
      apiVars, vars

\* At first the contract has nothing to keep.
LEMMA InitSimulated == Init => Contract!Init
<1> SUFFICES ASSUME Init
             PROVE  Contract!Init
  OBVIOUS
<1>1. /\ store = [k \in Objects |-> Absent] /\ cache = [k \in Objects |-> Absent]
      /\ watch = [k \in Objects |-> <<>>]
      /\ worker = [w \in Workers |-> Idle]
      /\ redis = [c \in Clusters |-> [k \in RedisKeys |-> Absent]]
  BY DEF Init, InitApiServer
<1>2. object = [b \in Backups |-> Absent] /\ child = [k \in Children |-> Absent]
  BY <1>1, ObjectNames, ChildNames DEF object, child
<1>3. \A b \in Backups : VersionsOf(b) = {}
  <2> TAKE b \in Backups
  <2>1. store[BackupOf(b)] = Absent /\ cache[BackupOf(b)] = Absent /\ watch[BackupOf(b)] = <<>>
    BY <1>1, ObjectNames
  <2>2. \A w \in Workers : worker[w].key # b
    BY <1>1, AbsentAssumption DEF Idle, AbsentAssumption
  <2> QED BY <2>1, <2>2 DEF VersionsOf
<1>4. asked = {}
  BY <1>3 DEF asked
<1>5. results = {}
  BY <1>1 DEF results, Idle
<1> QED BY <1>2, <1>4, <1>5 DEF Contract!Init

(***************************************************************************)
(* The operator implements BackupContract: through caches that lag, failed *)
(* calls, crashes, several workers and CycleSync, every change that a user *)
(* of RedisBackup objects sees is one that the contract allows.            *)
(***************************************************************************)
THEOREM Refinement == Spec => ImplementsContract
<1>1. Init => Contract!Init /\ UidsKnown /\ NewsOnly
  BY InitSimulated, InitUids, InitNews
<1>2. IInv /\ IInv' /\ UidsKnown /\ NewsOnly /\ [Next]_vars => (UidsKnown /\ NewsOnly)'
  BY UidsNext, NewsNext DEF IInv
<1>3. IInv /\ IInv' /\ UidsKnown /\ NewsOnly /\ [Next]_vars => [Contract!Next]_Contract!vars
  <2> SUFFICES ASSUME IInv, IInv', UidsKnown, NewsOnly, [Next]_vars
               PROVE  Contract!Next
    OBVIOUS
  <2>1. TypeOK'
    BY DEF IInv
  <2>2. CASE \E b \in Backups : User(b)
    BY <2>1, <2>2, UserSimulated
  <2>3. CASE Environment
    BY <2>1, <2>3, EnvironmentSimulated
  <2>4. CASE \E w \in Workers : Step(w)
    BY <2>1, <2>4, StepSimulated
  <2>5. CASE \/ Process \/ Informers \/ CycleStep \/ (\E b \in Backups : StartCycle(b))
             \/ (\E w \in Workers, b \in Backups : Start(w, b)) \/ UNCHANGED vars
    BY <2>1, <2>5, RestSimulated
  <2> QED BY <2>2, <2>3, <2>4, <2>5 DEF Next, Operator
<1> QED BY <1>1, <1>2, <1>3, Invariance, PTL DEF Spec, ImplementsContract, Contract!Spec
============================================================================
