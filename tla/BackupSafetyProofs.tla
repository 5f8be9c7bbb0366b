------------------------- MODULE BackupSafetyProofs -------------------------
(***************************************************************************)
(* Two more invariants of RedisBackup, each with an inductive invariant of *)
(* its own beside IInv: a RedisBackup does not lose its CronJob or its     *)
(* Job, and a run is recorded once.                                        *)
(***************************************************************************)
EXTENDS BackupProofs, SequenceTheorems

----------------------------------------------------------------------------
(***************************************************************************)
(* A RedisBackup does not lose its CronJob or its Job.  The invariant says *)
(* who has yet to look after one that has none: an event that is on its    *)
(* way, the queue, the back-off or a worker (Tended).  It rests on three   *)
(* facts.  A cache with no event on its way holds what is stored           *)
(* (Synced).  When neither an event nor the queue will start another call, *)
(* the call in progress looks after the child that the cached RedisBackup  *)
(* wants; and once it is past looking for it, the child is in the cache    *)
(* (Sees), so that it may end with nil.                                    *)
(***************************************************************************)

Synced(k) ==
  IF watch[k] = <<>> THEN cache[k] = store[k] ELSE watch[k][Len(watch[k])] = store[k]

\* Another call for b is certain to start.
Awaited(b) == b \in dirty \/ \E kind \in Kinds : watch[<<kind, b>>] # <<>>

Sees(w) ==
  LET b == worker[w].key
      k == ChildOf(b, worker[w].inst)
  IN  ~InPc(w, "idle") /\ ~Awaited(b) =>
        /\ ChildOf(b, cache[BackupOf(b)]) = k
        /\ worker[w].pc \in {"read", "append", "record"} => cache[k] # Absent

\* b is queued, delayed or being worked on.
Pending(b) == b \in dirty \cup processing \cup delayed

Tended(b) ==
  LET v == store[BackupOf(b)] IN
  v # Absent /\ ~gaveUp[b] /\ store[ChildOf(b, v)] = Absent => Awaited(b) \/ Pending(b)

ChildInv ==
  /\ \A k \in Objects : Synced(k)
  /\ \A w \in Workers : Sees(w)
  /\ \A b \in Backups : Tended(b)

----------------------------------------------------------------------------
\* What a step writes.

\* The caches stay, and what is written is the last event of its watch.
Writes ==
  /\ cache' = cache
  /\ \A k \in Objects :
       \/ watch'[k] = watch[k] /\ store'[k] = store[k]
       \/ watch'[k] # <<>> /\ watch'[k][Len(watch'[k])] = store'[k]

\* A write of any version is one.
LEMMA PutWrites ==
  ASSUME TypeOK, NEW k \in Objects, NEW v, Put(k, v)
  PROVE  Writes /\ watch'[k] # <<>>
<1>1. /\ store' = [store EXCEPT ![k] = v]
      /\ watch' = [watch EXCEPT ![k] = Append(@, v)]
      /\ cache' = cache
  BY DEF Put
<1>2. watch \in [Objects -> Seq(Object)] /\ DOMAIN store = Objects
  BY DEF TypeOK, ApiTypeOK
<1>3. watch[k] \in Seq(Object \cup {v})
  BY <1>2
<1>4. LET s == Append(watch[k], v) IN s # <<>> /\ s[Len(s)] = v
  BY <1>3
<1>5. watch'[k] = Append(watch[k], v) /\ store'[k] = v
  BY <1>1, <1>2
<1>6. \A j \in Objects \ {k} : watch'[j] = watch[j] /\ store'[j] = store[j]
  BY <1>1, <1>2
<1> QED BY <1>1, <1>4, <1>5, <1>6 DEF Writes

\* So is nothing.
LEMMA NothingWrites ==
  ASSUME UNCHANGED apiVars
  PROVE  Writes
BY DEF apiVars, Writes

\* And a new version of a RedisBackup.
LEMMA PutBackupWrites ==
  ASSUME TypeOK, NEW b \in Backups, NEW v, PutBackup(b, v)
  PROVE  Writes /\ watch'[BackupOf(b)] # <<>>
BY PutWrites, ObjectNames DEF PutBackup

\* Writes keep the caches in step with the store.
LEMMA WritesSynced ==
  ASSUME ChildInv, Writes
  PROVE  \A k \in Objects : Synced(k)'
BY DEF ChildInv, Synced, Writes

\* When no event of b is on its way after a write, nothing of b was written.
LEMMA WritesUnawaited ==
  ASSUME Writes, NEW b \in Backups, b \in dirty => b \in dirty', ~Awaited(b)'
  PROVE  /\ ~Awaited(b)
         /\ \A k \in {BackupOf(b), CronJobOf(b), JobOf(b)} :
              watch[k] = <<>> /\ store'[k] = store[k] /\ cache'[k] = cache[k]
<1>1. \A kind \in Kinds : <<kind, b>> \in Objects /\ watch'[<<kind, b>>] = <<>>
  BY DEF Awaited, Objects
<1>2. \A kind \in Kinds : watch[<<kind, b>>] = <<>> /\ store'[<<kind, b>>] = store[<<kind, b>>]
  BY <1>1 DEF Writes
<1> QED BY <1>1, <1>2 DEF Awaited, Writes, Kinds, BackupOf, CronJobOf, JobOf

\* A child that nobody has to look after is not lost by a write, unless the
\* last of those who had to gives it up.
LEMMA TendedKept ==
  ASSUME ChildInv, Writes, NEW b \in Backups, b \in dirty => b \in dirty',
         Pending(b) => Pending(b)', gaveUp[b] => gaveUp'[b]
  PROVE  Tended(b)'
<1> SUFFICES ASSUME ~Awaited(b)' PROVE Tended(b)'
  BY DEF Tended
<1>1. /\ ~Awaited(b)
      /\ \A k \in {BackupOf(b), CronJobOf(b), JobOf(b)} : store'[k] = store[k]
  BY WritesUnawaited
<1>2. \A v : ChildOf(b, v) \in {CronJobOf(b), JobOf(b)}
  BY ObjectNames
<1>3. Tended(b)
  BY DEF ChildInv
<1> QED BY <1>1, <1>2, <1>3 DEF Tended

\* Nor does a worker lose sight of it.
LEMMA SeesKept ==
  ASSUME TypeOK, ChildInv, Writes, NEW w \in Workers, ~InPc(w, "idle"),
         NEW b \in Backups, worker[w].key = b, worker'[w].key = b,
         b \in dirty => b \in dirty',
         ~Awaited(b)' =>
           LET k == ChildOf(b, worker[w].inst) IN
           /\ ChildOf(b, worker'[w].inst) = k
           /\ worker'[w].pc \in {"read", "append", "record"} =>
                worker[w].pc \in {"read", "append", "record"} \/ cache[k] # Absent
  PROVE  Sees(w)'
<1> SUFFICES ASSUME ~Awaited(b)' PROVE Sees(w)'
  BY DEF Sees
<1>1. /\ ~Awaited(b) /\ cache'[BackupOf(b)] = cache[BackupOf(b)]
      /\ \A k \in {CronJobOf(b), JobOf(b)} : cache'[k] = cache[k]
  BY WritesUnawaited
<1>2. \A v : ChildOf(b, v) \in {CronJobOf(b), JobOf(b)}
  BY ObjectNames
<1>3. Sees(w)
  BY DEF ChildInv
<1> QED BY <1>1, <1>2, <1>3 DEF Sees

\* A worker that is idle, or left alone, needs nothing else.
LEMMA SeesFrame ==
  ASSUME TypeOK, ChildInv, Writes, NEW w \in Workers, worker'[w] = worker[w],
         ~InPc(w, "idle") /\ worker[w].key \in dirty => worker[w].key \in dirty'
  PROVE  Sees(w)'
<1>1. CASE InPc(w, "idle")
  BY <1>1 DEF Sees, InPc
<1>2. CASE ~InPc(w, "idle")
  BY <1>2, BusyFields, SeesKept
<1> QED BY <1>1, <1>2

\* Steps that leave the calls and the queue alone.
LEMMA OthersKeep ==
  ASSUME TypeOK, ChildInv, Writes, worker' = worker, UNCHANGED queueVars, gaveUp' = gaveUp
  PROVE  ChildInv'
<1>1. \A w \in Workers : Sees(w)'
  BY SeesFrame DEF queueVars
<1>2. \A b \in Backups : Tended(b)'
  BY TendedKept DEF queueVars, Pending
<1> QED BY <1>1, <1>2, WritesSynced DEF ChildInv

----------------------------------------------------------------------------
\* The actions.

\* What the users write.
LEMMA UserKeeps ==
  ASSUME TypeOK, ChildInv, NEW b \in Backups, User(b)
  PROVE  ChildInv'
<1>1. Writes
  BY PutBackupWrites, PutWrites, ObjectNames DEF User, CreateBackup, EditBackup, DeleteBackup
<1>2. worker' = worker /\ UNCHANGED queueVars /\ gaveUp' = gaveUp
  BY DEF User, CreateBackup, EditBackup, DeleteBackup, opVars
<1> QED BY <1>1, <1>2, OthersKeep

\* What the rest of Kubernetes writes.
LEMMA EnvironmentKeeps ==
  ASSUME TypeOK, ChildInv, Environment
  PROVE  ChildInv'
<1>1. Writes
  <2>1. \A k \in Children : k \in Objects
    BY ChildNames
  <2>2. \A r \in running : r.child \in Children
    BY DEF TypeOK, EnvTypeOK, Run
  <2>3. CASE \E k \in Children : CollectChild(k) \/ ChildRuns(k)
    BY <2>1, <2>3, PutWrites DEF CollectChild, ChildRuns
  <2>4. CASE \E b \in Backups : JobExpires(b)
    BY <2>4, PutWrites, ObjectNames DEF JobExpires
  <2>5. CASE \E r \in running : PodPublishes(r) \/ PodFails(r)
    BY <2>1, <2>2, <2>5, PutWrites, NothingWrites DEF PodPublishes, PodFails, PodEnds
  <2>6. CASE \E c \in Clusters : MoveMaster(c) \/ \E b \in Backups : KeyExpires(c, b)
    BY <2>6, NothingWrites DEF MoveMaster, KeyExpires
  <2> QED BY <2>3, <2>4, <2>5, <2>6 DEF Environment
<1>2. worker' = worker /\ UNCHANGED queueVars /\ gaveUp' = gaveUp
  BY DEF Environment, MoveMaster, KeyExpires, CollectChild, ChildRuns, JobExpires,
         PodPublishes, PodFails, PodEnds, opVars
<1> QED BY <1>1, <1>2, OthersKeep

\* What CycleSync deletes.
LEMMA CycleKeeps ==
  ASSUME TypeOK, Progress, ChildInv, CycleStep \/ \E b \in Backups : StartCycle(b)
  PROVE  ChildInv'
<1>1. Writes
  <2>1. CASE CycleDelete
    <3>1. cycle.target \in Backups
      BY <2>1 DEF CycleDelete, TypeOK, Progress, BusyCycle, IdleCycle
    <3> QED BY <2>1, <3>1, PutWrites, ObjectNames DEF CycleDelete
  <2>2. CASE ~CycleDelete
    BY <2>2, NothingWrites DEF CycleStep, StartCycle, CycleFindMaster, CycleList
  <2> QED BY <2>1, <2>2
<1>2. worker' = worker /\ UNCHANGED queueVars /\ gaveUp' = gaveUp
  BY DEF CycleStep, StartCycle, CycleFindMaster, CycleList, CycleDelete
<1> QED BY <1>1, <1>2, OthersKeep

\* A new process finds every RedisBackup in its queue.
LEMMA RestartKeeps ==
  ASSUME TypeOK, Restart
  PROVE  ChildInv'
<1>1. \A k \in Objects : Synced(k)'
  BY DEF Restart, Relist, Synced
<1>2. \A w \in Workers : Sees(w)'
  BY IdleFields DEF Restart, Sees, InPc
<1>3. ASSUME NEW b \in Backups PROVE Tended(b)'
  <2>1. store' = store /\ (store[BackupOf(b)] # Absent => b \in dirty')
    BY DEF Restart, Relist, Refill, BackupOf, Kinds
  <2> QED BY <2>1 DEF Tended, Awaited
<1> QED BY <1>1, <1>2, <1>3 DEF ChildInv

\* The last event stays the last one when the first is delivered.
LEMMA LastEvent ==
  ASSUME NEW S, NEW s \in Seq(S), s # <<>>
  PROVE  /\ Tail(s) = <<>> => Head(s) = s[Len(s)]
         /\ Tail(s) # <<>> => Tail(s)[Len(Tail(s))] = s[Len(s)]
<1>1. /\ Tail(s) \in Seq(S) /\ Len(Tail(s)) = Len(s) - 1
      /\ \A i \in 1 .. Len(Tail(s)) : Tail(s)[i] = s[i + 1]
  BY HeadTailProperties
<1>2. /\ Len(s) \in Nat \ {0} /\ Len(Tail(s)) \in Nat
      /\ Tail(s) = <<>> => Len(Tail(s)) = 0
      /\ Tail(s) # <<>> => Len(Tail(s)) \in Nat \ {0}
  <2>1. \A t \in Seq(S) : t # <<>> => Len(t) \in Nat \ {0}
    BY EmptySeq
  <2>2. Len(<<>>) = 0
    OBVIOUS
  <2> QED BY <1>1, <2>1, <2>2, LenProperties
<1>3. Head(s) = s[1]
  OBVIOUS
<1>4. Tail(s) = <<>> => Len(s) = 1
  BY <1>1, <1>2
<1>5. Tail(s) # <<>> => Len(Tail(s)) \in 1 .. Len(Tail(s)) /\ Len(Tail(s)) + 1 = Len(s)
  BY <1>1, <1>2
<1> QED BY <1>1, <1>3, <1>4, <1>5

\* An event that is delivered puts the key in the queue.
LEMMA DeliverKeeps ==
  ASSUME TypeOK, ChildInv, NEW k \in Objects, Deliver(k)
  PROVE  ChildInv'
<1>1. /\ watch[k] \in Seq(Object) /\ watch[k] # <<>>
      /\ cache'[k] = Head(watch[k]) /\ watch'[k] = Tail(watch[k])
      /\ \A j \in Objects \ {k} : cache'[j] = cache[j] /\ watch'[j] = watch[j]
      /\ store' = store /\ worker' = worker /\ gaveUp' = gaveUp
      /\ dirty' = dirty \cup {k[2]} /\ processing' = processing /\ delayed' = delayed
  BY DEF Deliver, TakeEvent, Add, TypeOK, ApiTypeOK, opVars
<1>2. ASSUME NEW j \in Objects PROVE Synced(j)'
  <2>1. CASE j = k
    <3>1. watch[k][Len(watch[k])] = store[k]
      BY <1>1 DEF ChildInv, Synced
    <3>2. /\ Tail(watch[k]) = <<>> => Head(watch[k]) = watch[k][Len(watch[k])]
          /\ Tail(watch[k]) # <<>> =>
               Tail(watch[k])[Len(Tail(watch[k]))] = watch[k][Len(watch[k])]
      BY <1>1, LastEvent
    <3> QED BY <1>1, <2>1, <3>1, <3>2 DEF Synced
  <2>2. CASE j # k
    BY <1>1, <2>2 DEF ChildInv, Synced
  <2> QED BY <2>1, <2>2
<1>3. ASSUME NEW b \in Backups, b # k[2]
      PROVE  /\ ~Awaited(b)' => ~Awaited(b)
             /\ \A j \in {BackupOf(b), CronJobOf(b), JobOf(b)} : cache'[j] = cache[j]
  <2>1. \A kind \in Kinds : <<kind, b>> \in Objects /\ <<kind, b>> # k
    BY <1>3 DEF Objects
  <2> QED BY <1>1, <2>1 DEF Awaited, Kinds, BackupOf, CronJobOf, JobOf
<1>4. ASSUME NEW w \in Workers PROVE Sees(w)'
  <2> DEFINE b == worker[w].key
  <2>1. CASE InPc(w, "idle") \/ b = k[2]
    BY <1>1, <2>1 DEF Sees, InPc, Awaited
  <2>2. CASE ~InPc(w, "idle") /\ b # k[2]
    <3>1. b \in Backups
      BY <2>2, BusyFields
    <3>2. \A v : ChildOf(b, v) \in {CronJobOf(b), JobOf(b)}
      BY <3>1, ObjectNames
    <3>3. Sees(w)
      BY DEF ChildInv
    <3> QED BY <1>1, <1>3, <2>2, <3>1, <3>2, <3>3 DEF Sees, InPc
  <2> QED BY <2>1, <2>2
<1>5. ASSUME NEW b \in Backups PROVE Tended(b)'
  <2>1. CASE b = k[2]
    BY <1>1, <2>1 DEF Tended, Awaited
  <2>2. CASE b # k[2]
    <3>1. Tended(b)
      BY DEF ChildInv
    <3> QED BY <1>1, <1>3, <2>2, <3>1 DEF Tended, Pending
  <2> QED BY <2>1, <2>2
<1> QED BY <1>2, <1>4, <1>5 DEF ChildInv

\* A retry and a resync put the key in the queue too.
LEMMA InformersKeep ==
  ASSUME TypeOK, ChildInv, Informers
  PROVE  ChildInv'
<1>1. CASE \E k \in Objects : Deliver(k)
  BY <1>1, DeliverKeeps
<1>2. CASE \E b \in Backups : Retry(b) \/ Resync(b)
  <2>1. /\ Writes /\ worker' = worker /\ gaveUp' = gaveUp
        /\ dirty \subseteq dirty' /\ \A b \in Backups : Pending(b) => Pending(b)'
    BY <1>2, NothingWrites DEF Retry, Resync, Add, AddDelayed, opVars, Pending
  <2>2. \A w \in Workers : Sees(w)'
    BY <2>1, SeesFrame
  <2>3. \A b \in Backups : Tended(b)'
    BY <2>1, TendedKept
  <2> QED BY <2>1, <2>2, <2>3, WritesSynced DEF ChildInv
<1> QED BY <1>1, <1>2 DEF Informers

(***************************************************************************)
(* The start of a call: with the cached RedisBackup, or with none, and     *)
(* then none is stored unless an event says so.                            *)
(***************************************************************************)
LEMMA StartKeeps ==
  ASSUME TypeOK, KeysInProcess, ChildInv, NEW w \in Workers, NEW b \in Backups, Start(w, b)
  PROVE  ChildInv'
<1>1. /\ Writes /\ UNCHANGED apiVars
      /\ b \notin processing /\ dirty' = dirty \ {b} /\ delayed' = delayed
      /\ \A c \in Backups \ {b} : gaveUp'[c] = gaveUp[c]
  BY NothingWrites DEF Start, StartReconcile, ReconcileNothing, Get, TypeOK, EnvTypeOK
<1>2. \A v \in Workers : ~InPc(v, "idle") => worker[v].key # b
  BY <1>1 DEF KeysInProcess
<1>3. \A c \in Backups \ {b} : Pending(c) => Pending(c)'
  BY <1>1 DEF Start, StartReconcile, ReconcileNothing, Get, Pending
<1>4. \A c \in Backups \ {b} : Tended(c)'
  BY <1>1, <1>3, TendedKept
<1>5. CASE StartReconcile(w, b)
  <2>1. /\ worker'[w] = [pc |-> "pods", key |-> b, inst |-> cache[BackupOf(b)],
                         pvc |-> Absent, cond |-> Absent]
        /\ \A v \in Workers \ {w} : worker'[v] = worker[v]
        /\ b \in processing'
    BY <1>5 DEF StartReconcile, Get, Goto, TypeOK
  <2>2. Sees(w)'
    BY <1>1, <2>1 DEF Sees, apiVars
  <2>3. \A v \in Workers \ {w} : Sees(v)'
    BY <1>1, <1>2, <2>1, SeesFrame
  <2>4. Tended(b)'
    BY <2>1 DEF Tended, Pending
  <2> QED BY <1>1, <1>4, <2>2, <2>3, <2>4, WritesSynced DEF ChildInv
<1>6. CASE ReconcileNothing(w, b)
  <2>1. worker' = worker /\ cache[BackupOf(b)] = Absent
    BY <1>6 DEF ReconcileNothing
  <2>2. \A v \in Workers : Sees(v)'
    BY <1>1, <1>2, <2>1, SeesFrame
  <2>3. Tended(b)'
    <3>1. SUFFICES ASSUME ~Awaited(b)' PROVE store[BackupOf(b)] = Absent
      BY <1>1 DEF Tended, apiVars
    <3>2. watch[BackupOf(b)] = <<>>
      BY <1>1, <3>1 DEF Awaited, apiVars, Kinds, BackupOf
    <3> QED BY <2>1, <3>2, ObjectNames DEF ChildInv, Synced
  <2> QED BY <1>1, <1>4, <2>2, <2>3, WritesSynced DEF ChildInv
<1> QED BY <1>5, <1>6 DEF Start

----------------------------------------------------------------------------
\* The steps of a call.

\* An event of one of b's objects, on its way after a step, will start a call.
LEMMA WillStart ==
  ASSUME NEW b \in Backups, NEW k \in {BackupOf(b), CronJobOf(b), JobOf(b)}, watch'[k] # <<>>
  PROVE  Awaited(b)'
BY DEF Awaited, Kinds, BackupOf, CronJobOf, JobOf

\* A call that is past looking for the child may end with nil: the child is
\* stored, or another call will start.
LEMMA SeenTended ==
  ASSUME TypeOK, ChildInv, Writes, dirty' = dirty,
         NEW w \in Workers, worker[w].pc \in {"read", "append", "record"},
         NEW b \in Backups, worker[w].key = b
  PROVE  Tended(b)'
<1> DEFINE k == ChildOf(b, worker[w].inst)
<1> SUFFICES ASSUME ~Awaited(b)' PROVE Tended(b)'
  BY DEF Tended
<1>1. ~InPc(w, "idle")
  BY DEF InPc
<1>2. /\ ~Awaited(b)
      /\ \A j \in {BackupOf(b), CronJobOf(b), JobOf(b)} : watch[j] = <<>> /\ store'[j] = store[j]
  BY <1>1, WritesUnawaited
<1>3. ChildOf(b, cache[BackupOf(b)]) = k /\ cache[k] # Absent
  BY <1>1, <1>2 DEF ChildInv, Sees
<1>4. /\ k \in {CronJobOf(b), JobOf(b)}
      /\ \A j \in {BackupOf(b), CronJobOf(b), JobOf(b)} : cache[j] = store[j]
  BY <1>1, <1>2, ObjectNames DEF ChildInv, Synced
<1> QED BY <1>1, <1>2, <1>3, <1>4 DEF Tended

\* The end of a call: with an error the key is delayed.
LEMMA ReturnKeeps ==
  ASSUME TypeOK, ChildInv, Writes, NEW w \in Workers, ~InPc(w, "idle"), Return(w) \/ Fail(w),
         \A c \in Backups : gaveUp[c] => gaveUp'[c],
         Fail(w) \/ \A c \in Backups : c = worker[w].key => Tended(c)'
  PROVE  ChildInv'
<1>1. /\ worker'[w] = Idle /\ \A v \in Workers \ {w} : worker'[v] = worker[v]
      /\ dirty' = dirty
  BY DEF Return, Fail, Goto, Done, DoneWithError, TypeOK
<1>2. ASSUME NEW v \in Workers PROVE Sees(v)'
  <2>1. CASE v = w
    BY <1>1, <2>1, IdleFields DEF Sees, InPc
  <2>2. CASE v # w
    BY <1>1, <2>2, SeesFrame
  <2> QED BY <2>1, <2>2
<1>3. ASSUME NEW c \in Backups PROVE Tended(c)'
  <2>1. CASE c = worker[w].key /\ ~Fail(w)
    BY <2>1
  <2>2. CASE c # worker[w].key \/ Fail(w)
    <3>1. Pending(c) => Pending(c)'
      BY <2>2 DEF Return, Fail, Done, DoneWithError, Pending
    <3> QED BY <1>1, <3>1, TendedKept
  <2> QED BY <2>1, <2>2
<1> QED BY <1>2, <1>3, WritesSynced DEF ChildInv

\* A step within a call.
LEMMA GotoKeeps ==
  ASSUME TypeOK, ChildInv, Writes, NEW w \in Workers, NEW next, Goto(w, next),
         UNCHANGED queueVars, gaveUp' = gaveUp, Sees(w)'
  PROVE  ChildInv'
<1>1. \A v \in Workers \ {w} : worker'[v] = worker[v]
  BY DEF Goto, TypeOK
<1>2. \A v \in Workers : Sees(v)'
  BY <1>1, SeesFrame DEF queueVars
<1>3. \A c \in Backups : Tended(c)'
  BY TendedKept DEF queueVars, Pending
<1> QED BY <1>2, <1>3, WritesSynced DEF ChildInv

\* A step within a call that writes one of b's objects will be followed by
\* another call.
LEMMA WritingSees ==
  ASSUME NEW w \in Workers, NEW b \in Backups, worker'[w].key = b,
         NEW k \in {BackupOf(b), CronJobOf(b), JobOf(b)}, watch'[k] # <<>>
  PROVE  Sees(w)'
BY WillStart DEF Sees

\* The steps that only look something up.
LEMMA LookupKeeps ==
  ASSUME TypeOK, Progress, ChildInv, NEW w \in Workers,
         FindMaster(w) \/ GetChild(w) \/ CompareClaim(w) \/ RedisConn(w)
  PROVE  ChildInv'
<1> DEFINE self == worker[w]
<1>1. /\ ~InPc(w, "idle") /\ Writes
      /\ self \in Busy /\ self.key \in Backups /\ worker \in [Workers -> Busy \cup {Idle}]
  <2>1. ~InPc(w, "idle")
    BY DEF FindMaster, GetChild, CompareClaim, RedisConn, ReadRedis, InPc
  <2> QED BY <2>1, BusyFields, NothingWrites
          DEF TypeOK, FindMaster, GetChild, CompareClaim, RedisConn, ReadRedis
<1> PICK b \in Backups : self.key = b
  BY <1>1
<1>2. ASSUME NEW next, Goto(w, next), UNCHANGED queueVars, gaveUp' = gaveUp,
             next.key = b, next.inst = self.inst,
             next.pc \in {"read", "append", "record"} =>
               self.pc = "read" \/ cache[ChildOf(b, self.inst)] # Absent
      PROVE  ChildInv'
  <2>1. worker'[w] = next
    BY <1>1, <1>2 DEF Goto
  <2>2. Sees(w)'
    BY <1>1, <1>2, <2>1, SeesKept DEF queueVars
  <2> QED BY <1>1, <1>2, <2>2, GotoKeeps
<1>3. CASE FindMaster(w)
  <2>1. CASE Return(w)
    <3>1. gaveUp' = [gaveUp EXCEPT ![b] = TRUE]
      BY <1>3, <2>1, <1>1, IdleFields DEF FindMaster, Return, Goto, Busy
    <3>2. \A c \in Backups : (gaveUp[c] => gaveUp'[c]) /\ (c = b => Tended(c)')
      BY <3>1 DEF Tended, TypeOK, EnvTypeOK
    <3> QED BY <1>1, <2>1, <3>2, ReturnKeeps
  <2>2. CASE ~Return(w)
    <3> PICK p \in Pvcs : /\ Goto(w, [self EXCEPT !.pc = "child", !.pvc = p])
                          /\ UNCHANGED <<queueVars, gaveUp>>
      BY <1>3, <2>2 DEF FindMaster
    <3> DEFINE next == [self EXCEPT !.pc = "child", !.pvc = p]
    <3>1. next.key = b /\ next.inst = self.inst /\ next.pc = "child"
      BY <1>1 DEF Busy
    <3> QED BY <1>2, <3>1
  <2> QED BY <2>1, <2>2
<1>4. CASE GetChild(w)
  <2> DEFINE child == cache[ChildOf(b, self.inst)]
  <2> PICK pc : /\ Goto(w, [self EXCEPT !.pc = pc]) /\ UNCHANGED <<queueVars, gaveUp>>
                /\ child = Absent => pc = "create"
    BY <1>4 DEF GetChild
  <2> DEFINE next == [self EXCEPT !.pc = pc]
  <2>1. next.key = b /\ next.inst = self.inst /\ next.pc = pc
    BY <1>1 DEF Busy
  <2> QED BY <1>2, <2>1
<1>5. CASE CompareClaim(w)
  <2>1. ChildOf(b, self.inst) = CronJobOf(b) /\ cache[CronJobOf(b)] # Absent
    BY <1>5 DEF CompareClaim, Progress, ChildOf
  <2> PICK pc : Goto(w, [self EXCEPT !.pc = pc]) /\ UNCHANGED <<queueVars, gaveUp>>
    BY <1>5 DEF CompareClaim
  <2> DEFINE next == [self EXCEPT !.pc = pc]
  <2>2. next.key = b /\ next.inst = self.inst
    BY <1>1 DEF Busy
  <2> QED BY <1>2, <2>1, <2>2
<1>6. CASE RedisConn(w)
  <2>1. self.pc = "read" /\ gaveUp' = gaveUp
    BY <1>6 DEF RedisConn, ReadRedis, InPc
  <2>2. CASE Return(w)
    <3>1. \A c \in Backups : c = self.key => Tended(c)'
      BY <1>1, <2>1, <2>2, SeenTended DEF Return, Done
    <3> QED BY <1>1, <2>1, <2>2, <3>1, ReturnKeeps
  <2>3. CASE ~Return(w)
    <3> PICK pc, c : Goto(w, [self EXCEPT !.pc = pc, !.cond = c]) /\ UNCHANGED queueVars
      BY <1>6, <2>3 DEF RedisConn, ReadRedis
    <3> DEFINE next == [self EXCEPT !.pc = pc, !.cond = c]
    <3>1. next.key = b /\ next.inst = self.inst
      BY <1>1 DEF Busy
    <3> QED BY <1>2, <2>1, <3>1
  <2> QED BY <2>2, <2>3
<1> QED BY <1>3, <1>4, <1>5, <1>6

\* The steps that end the call with an error, or for want of the pods.
LEMMA FailureKeeps ==
  ASSUME TypeOK, ChildInv, NEW w \in Workers,
         CallFails(w) \/ UpdateRefused(w) \/ PodListFails(w)
  PROVE  ChildInv'
<1>1. ~InPc(w, "idle") /\ Writes
  BY NothingWrites, IdleFields DEF CallFails, UpdateRefused, PodListFails, InPc
<1>2. CASE CallFails(w) \/ UpdateRefused(w)
  <2>1. Fail(w) /\ gaveUp' = gaveUp
    BY <1>2 DEF CallFails, UpdateRefused
  <2> QED BY <1>1, <2>1, ReturnKeeps
<1>3. CASE PodListFails(w)
  <2>1. Return(w) /\ gaveUp' = [gaveUp EXCEPT ![worker[w].key] = TRUE]
    BY <1>3 DEF PodListFails
  <2>2. \A c \in Backups : (gaveUp[c] => gaveUp'[c]) /\ (c = worker[w].key => Tended(c)')
    BY <2>1 DEF Tended, TypeOK, EnvTypeOK
  <2> QED BY <1>1, <2>1, <2>2, ReturnKeeps
<1> QED BY <1>2, <1>3

\* The steps that create or delete the child.
LEMMA ChildStepKeeps ==
  ASSUME TypeOK, ChildInv, NEW w \in Workers, CreateChild(w) \/ DeleteCronJob(w)
  PROVE  ChildInv'
<1> DEFINE self == worker[w]
<1>1. /\ ~InPc(w, "idle") /\ gaveUp' = gaveUp
      /\ self \in Busy /\ self.key \in Backups /\ worker \in [Workers -> Busy \cup {Idle}]
  <2>1. ~InPc(w, "idle") /\ gaveUp' = gaveUp
    BY DEF CreateChild, DeleteCronJob, InPc
  <2> QED BY <2>1, BusyFields DEF TypeOK
<1> PICK b \in Backups : self.key = b
  BY <1>1
<1>2. CASE Fail(w) /\ UNCHANGED apiVars
  BY <1>1, <1>2, NothingWrites, ReturnKeeps
<1>3. CASE ~(Fail(w) /\ UNCHANGED apiVars)
  <2> PICK k \in {CronJobOf(b), JobOf(b)} : \E v : Put(k, v)
    BY <1>3, ObjectNames DEF CreateChild, DeleteCronJob
  <2>1. Writes /\ watch'[k] # <<>>
    BY ObjectNames, PutWrites
  <2>2. CASE Return(w)
    <3>1. Tended(b)'
      BY <2>1, WillStart DEF Tended
    <3> QED BY <1>1, <2>1, <2>2, <3>1, ReturnKeeps
  <2>3. CASE ~Return(w)
    <3> DEFINE next == [self EXCEPT !.pc = "record"]
    <3>1. Goto(w, next) /\ UNCHANGED queueVars
      BY <1>3, <2>3 DEF CreateChild, DeleteCronJob
    <3>2. worker'[w].key = b
      BY <1>1, <3>1 DEF Goto, Busy
    <3>3. Sees(w)'
      BY <2>1, <3>2, WritingSees
    <3> QED BY <1>1, <2>1, <3>1, <3>3, GotoKeeps
  <2> QED BY <2>2, <2>3
<1> QED BY <1>2, <1>3

(***************************************************************************)
(* The updates of the status.  An update that changes nothing is accepted  *)
(* only of the stored version, so the call goes on with the one it has.    *)
(***************************************************************************)
LEMMA UpdateKeeps ==
  ASSUME IInv, ChildInv, NEW w \in Workers, AppendCondition(w) \/ RecordInfo(w)
  PROVE  ChildInv'
<1> DEFINE self == worker[w]
<1>1. /\ TypeOK /\ ~InPc(w, "idle") /\ gaveUp' = gaveUp /\ self.pc \in {"append", "record"}
      /\ self \in Busy /\ self.key \in Backups /\ worker \in [Workers -> Busy \cup {Idle}]
  <2>1. /\ TypeOK /\ ~InPc(w, "idle") /\ gaveUp' = gaveUp /\ self.pc \in {"append", "record"}
    BY DEF IInv, AppendCondition, RecordInfo, InPc
  <2> QED BY <2>1, BusyFields DEF TypeOK
<1> PICK b \in Backups : self.key = b
  BY <1>1
<1>2. \/ UNCHANGED apiVars /\ Current(b, self.inst)
      \/ \E v : PutBackup(b, v)
  BY DEF AppendCondition, RecordInfo, UpdateStatus
<1>3. Writes
  BY <1>1, <1>2, NothingWrites, PutBackupWrites
<1>4. CASE Return(w)
  <2>1. \A c \in Backups : c = self.key => Tended(c)'
    BY <1>1, <1>3, <1>4, SeenTended DEF Return, Done
  <2> QED BY <1>1, <1>3, <1>4, <2>1, ReturnKeeps
<1>5. CASE ~Return(w)
  <2> DEFINE next == [self EXCEPT !.pc = "record", !.inst = store'[BackupOf(b)]]
  <2>1. Goto(w, next) /\ UNCHANGED queueVars
    BY <1>5 DEF AppendCondition, RecordInfo
  <2>2. worker'[w].key = b /\ worker'[w].inst = store'[BackupOf(b)]
    BY <1>1, <2>1 DEF Goto, Busy
  <2>3. CASE \E v : PutBackup(b, v)
    <3>1. watch'[BackupOf(b)] # <<>>
      BY <1>1, <2>3, PutBackupWrites
    <3>2. Sees(w)'
      BY <2>2, <3>1, WritingSees
    <3> QED BY <1>1, <1>3, <2>1, <3>2, GotoKeeps
  <2>4. CASE UNCHANGED apiVars /\ Current(b, self.inst)
    <3>1. worker'[w].inst = self.inst
      BY <1>1, <2>2, <2>4, CurrentIsStored DEF apiVars
    <3>2. Sees(w)'
      BY <1>1, <1>3, <2>1, <2>2, <3>1, SeesKept DEF queueVars
    <3> QED BY <1>1, <1>3, <2>1, <3>2, GotoKeeps
  <2> QED BY <1>2, <2>3, <2>4
<1> QED BY <1>4, <1>5

----------------------------------------------------------------------------
\* The invariant holds at first: there are no objects.
LEMMA ChildInit == Init => ChildInv
BY ObjectNames, IdleFields DEF Init, InitApiServer, ChildInv, Synced, Sees, Tended, InPc

\* Every step keeps it.
LEMMA ChildNext == IInv /\ ChildInv /\ [Next]_vars => ChildInv'
<1> SUFFICES ASSUME IInv, ChildInv, [Next]_vars PROVE ChildInv'
  OBVIOUS
<1>1. TypeOK /\ Progress /\ KeysInProcess
  BY DEF IInv
<1>2. CASE \E w \in Workers : Step(w)
  BY <1>1, <1>2, LookupKeeps, FailureKeeps, ChildStepKeeps, UpdateKeeps DEF Step
<1>3. CASE \E w \in Workers, b \in Backups : Start(w, b)
  BY <1>1, <1>3, StartKeeps
<1>4. CASE CycleStep \/ \E b \in Backups : StartCycle(b)
  BY <1>1, <1>4, CycleKeeps
<1>5. CASE Process
  BY <1>1, <1>5, RestartKeeps DEF Process, Crash, Fatal, Panic
<1>6. CASE UNCHANGED vars
  BY <1>1, <1>6, NothingWrites, OthersKeep DEF vars
<1> QED BY <1>1, <1>2, <1>3, <1>4, <1>5, <1>6, UserKeeps, EnvironmentKeeps, InformersKeep
        DEF Next, Operator

(***************************************************************************)
(* Once the operator is at rest, a RedisBackup has its CronJob or its Job, *)
(* unless the last Reconcile ended for want of a master.                   *)
(***************************************************************************)
THEOREM ChildNotLost == Spec => []NeverLosesChild
<1>1. ChildInv => NeverLosesChild
  BY ObjectNames DEF ChildInv, Tended, Awaited, Pending, NeverLosesChild, Settled
<1> QED BY <1>1, ChildInit, ChildNext, Invariance, PTL DEF Spec

----------------------------------------------------------------------------
(***************************************************************************)
(* A run is recorded once.  Reconcile compares the value of the key with   *)
(* the last condition only; that is enough, because a run publishes once:  *)
(* a value that has been replaced does not come back (Past), and a run     *)
(* whose result was read has ended (Gone).  So no condition but the last   *)
(* can be the value of the key.  A RedisBackup that is moved to another    *)
(* cluster and back finds a value again, hence OneCluster.                 *)
(***************************************************************************)

OneCluster == \A m, n \in ClusterNames : m = n

\* The run of the file f has ended.
Gone(f) == f > budget.runs /\ \A r \in running : r.file # f

\* The file f is not the value of the key of the CronJobs of c.
Past(c, f) == redis[c][CronKey] = Absent \/ redis[c][CronKey].file # f

RunsOnce ==
  \A r \in running : r.file > budget.runs /\ \A s \in running : s.file = r.file => s = r

ResultsGone ==
  \A c \in Clusters, k \in RedisKeys : redis[c][k] # Absent => Gone(redis[c][k].file)

\* The conditions in list are of runs that have ended, each of a run of its
\* own, and only the last can be the value of the key.
Logged(c, list) ==
  /\ \A i \in DOMAIN list : Gone(list[i].file)
  /\ \A i \in DOMAIN list : i # Len(list) => Past(c, list[i].file)
  /\ \A i, j \in DOMAIN list : list[i].file = list[j].file => i = j

\* No condition in list is of the file f or the value of the key.
AllPast(c, list, f) == \A i \in DOMAIN list : list[i].file # f /\ Past(c, list[i].file)

\* What w is about to append to the stored version has not been recorded.
Ready(w) ==
  LET self == worker[w]
      v == self.inst
  IN  InPc(w, "append") /\ Current(self.key, v) =>
        /\ Gone(self.cond.file)
        /\ IsScheduled(v) => AllPast(ClusterOf(self.key, v), v.conditions, self.cond.file)

LogInv ==
  /\ RunsOnce /\ ResultsGone
  /\ \A b \in Backups :
       LET v == store[BackupOf(b)] IN v # Absent => Logged(ClusterOf(b, v), v.conditions)
  /\ \A w \in Workers : Ready(w)

----------------------------------------------------------------------------
\* The runs and their results.

\* A step starts a run, ends one that publishes its result, or ends runs and
\* removes results.
RunsMove ==
  \/ /\ running' \subseteq running /\ budget'.runs = budget.runs
     /\ \A c \in Clusters, k \in RedisKeys : redis'[c][k] \in {redis[c][k], Absent}
  \/ /\ budget.runs > 0 /\ budget'.runs = budget.runs - 1 /\ redis' = redis
     /\ \E r \in Run : r.file = budget.runs /\ running' = running \cup {r}
  \/ \E r \in running :
       /\ running' = running \ {r} /\ budget'.runs = budget.runs
       /\ \A c \in Clusters, k \in RedisKeys :
            redis'[c][k] = redis[c][k] \/ (redis'[c][k] # Absent /\ redis'[c][k].file = r.file)

\* Every step is one of these.
LEMMA RunsOfNext ==
  ASSUME TypeOK, [Next]_vars
  PROVE  RunsMove
<1>1. /\ budget \in Budget /\ running \subseteq Run
      /\ redis \in [Clusters -> [RedisKeys -> Condition \cup {Absent}]]
  BY DEF TypeOK, EnvTypeOK
<1>2. CASE UNCHANGED <<redis, running>> /\ budget'.runs = budget.runs
  BY <1>2 DEF RunsMove
<1>3. CASE \E c \in Clusters, b \in Backups : KeyExpires(c, b)
  <2> PICK c \in Clusters, b \in Backups : KeyExpires(c, b)
    BY <1>3
  <2>1. \A d \in Clusters, k \in RedisKeys : redis'[d][k] \in {redis[d][k], Absent}
    BY <1>1 DEF KeyExpires, RedisKeys
  <2> QED BY <2>1 DEF KeyExpires, RunsMove
<1>4. CASE \E k \in Children : ChildRuns(k)
  <2> PICK k \in Children : ChildRuns(k)
    BY <1>4
  <2> DEFINE r == [child |-> k, cluster |-> store[k].cluster, file |-> budget.runs]
  <2>1. store[k] \in Child /\ budget.runs \in Nat
    BY <1>1, ChildNames DEF ChildRuns, TypeOK, ApiTypeOK, Budget
  <2>2. r \in Run /\ r.file = budget.runs /\ running' = running \cup {r}
    BY <2>1, ChildFields DEF ChildRuns, Run
  <2>3. budget.runs > 0 /\ budget'.runs = budget.runs - 1 /\ redis' = redis
    BY <1>1 DEF ChildRuns, Budget
  <2> QED BY <2>2, <2>3 DEF RunsMove
<1>5. CASE \E r \in running : PodFails(r)
  BY <1>1, <1>5 DEF PodFails, PodEnds, RunsMove
<1>6. CASE \E r \in running : PodPublishes(r)
  <2> PICK r \in running : PodPublishes(r)
    BY <1>6
  <2> DEFINE v == [file |-> r.file, object |-> r.child[2]]
  <2>1. v \in Condition /\ v.file = r.file
    BY <1>1, ChildNames DEF Run, Condition
  <2>2. v # Absent
    BY <2>1, AbsentAssumption DEF AbsentAssumption
  <2>3. redis' = [redis EXCEPT ![<<Ns[r.child[2]], r.cluster>>][KeyOfRun(r)] = v]
    BY DEF PodPublishes
  <2> HIDE DEF v
  <2>4. \A c \in Clusters, k \in RedisKeys : redis'[c][k] \in {redis[c][k], v}
    BY <1>1, <2>3
  <2>5. \A c \in Clusters, k \in RedisKeys :
          redis'[c][k] = redis[c][k] \/ (redis'[c][k] # Absent /\ redis'[c][k].file = r.file)
    BY <2>1, <2>2, <2>4
  <2> QED BY <2>5 DEF PodPublishes, PodEnds, RunsMove
<1>7. CASE \E b \in Backups : User(b)
  BY <1>1, <1>2, <1>7 DEF User, CreateBackup, EditBackup, DeleteBackup, Edit, Budget, envVars
<1>8. CASE Environment
  BY <1>1, <1>2, <1>3, <1>4, <1>5, <1>6, <1>8
     DEF Environment, MoveMaster, CollectChild, JobExpires, Budget, envVars
<1>9. CASE Process \/ Informers \/ UNCHANGED vars
  BY <1>1, <1>2, <1>9
     DEF Process, Crash, Fatal, Panic, Restart, Fault, Budget, Informers, Deliver, Retry, Resync,
         envVars, vars
<1>10. CASE Operator
  BY <1>1, <1>2, <1>10
     DEF Operator, Step, FindMaster, PodListFails, CallFails, GetChild, CompareClaim, CreateChild,
         DeleteCronJob, RedisConn, ReadRedis, AppendCondition, RecordInfo, UpdateRefused,
         Start, StartReconcile, ReconcileNothing, CycleStep, StartCycle, CycleFindMaster,
         CycleList, CycleDelete, Fault, Budget
<1> QED BY <1>7, <1>8, <1>9, <1>10 DEF Next

\* What has ended does not run again, and what was replaced does not come back.
LEMMA RunsKept ==
  ASSUME TypeOK, RunsOnce, ResultsGone, RunsMove
  PROVE  /\ RunsOnce' /\ ResultsGone'
         /\ \A f \in Nat : Gone(f) => Gone(f)'
         /\ \A f \in Nat, c \in Clusters : Gone(f) /\ Past(c, f) => Past(c, f)'
<1>1. /\ budget.runs \in Nat /\ CronKey \in RedisKeys
      /\ \A r \in running : r.file \in Nat
      /\ \A c \in Clusters, k \in RedisKeys : redis[c][k] # Absent => redis[c][k].file \in Nat
  BY DEF TypeOK, EnvTypeOK, Budget, Run, RedisKeys, Condition
<1>2. CASE /\ running' \subseteq running /\ budget'.runs = budget.runs
           /\ \A c \in Clusters, k \in RedisKeys : redis'[c][k] \in {redis[c][k], Absent}
  <2>1. \A f \in Nat : Gone(f) => Gone(f)'
    BY <1>2 DEF Gone
  <2>2. RunsOnce'
    BY <1>2 DEF RunsOnce
  <2> QED BY <1>1, <1>2, <2>1, <2>2 DEF ResultsGone, Past
<1>3. CASE /\ budget.runs > 0 /\ budget'.runs = budget.runs - 1 /\ redis' = redis
           /\ \E r \in Run : r.file = budget.runs /\ running' = running \cup {r}
  <2>1. \A f \in Nat : Gone(f) => Gone(f)'
    BY <1>1, <1>3 DEF Gone
  <2>2. RunsOnce'
    BY <1>1, <1>3 DEF RunsOnce
  <2> QED BY <1>1, <1>3, <2>1, <2>2 DEF ResultsGone, Past
<1>4. CASE \E r \in running :
             /\ running' = running \ {r} /\ budget'.runs = budget.runs
             /\ \A c \in Clusters, k \in RedisKeys :
                  redis'[c][k] = redis[c][k] \/ (redis'[c][k] # Absent /\ redis'[c][k].file = r.file)
  <2> PICK r \in running :
        /\ running' = running \ {r} /\ budget'.runs = budget.runs
        /\ \A c \in Clusters, k \in RedisKeys :
             redis'[c][k] = redis[c][k] \/ (redis'[c][k] # Absent /\ redis'[c][k].file = r.file)
    BY <1>4
  <2>1. \A f \in Nat : Gone(f) => Gone(f)' /\ f # r.file
    BY <1>1 DEF Gone
  <2>2. RunsOnce' /\ r.file \in Nat
    BY <1>1 DEF RunsOnce
  <2>3. Gone(r.file)'
    BY <1>1 DEF Gone, RunsOnce
  <2>4. ResultsGone'
    BY <1>1, <2>1, <2>3 DEF ResultsGone
  <2> QED BY <1>1, <2>1, <2>2, <2>4 DEF Past
<1> QED BY <1>2, <1>3, <1>4 DEF RunsMove

----------------------------------------------------------------------------
\* The lists of conditions.

\* What RunsKept says of a step.
Onward ==
  /\ \A f \in Nat : Gone(f) => Gone(f)'
  /\ \A f \in Nat, c \in Clusters : Gone(f) /\ Past(c, f) => Past(c, f)'

\* A list stays as it is described.
LEMMA ListKept ==
  ASSUME Onward, NEW c \in Clusters, NEW list \in Seq(Condition), NEW f \in Nat
  PROVE  /\ Logged(c, list) => Logged(c, list)'
         /\ (Logged(c, list) /\ AllPast(c, list, f)) => AllPast(c, list, f)'
<1>1. \A i \in DOMAIN list : list[i].file \in Nat
  <2>1. \A i \in DOMAIN list : list[i] \in Condition
    OBVIOUS
  <2> QED BY <2>1 DEF Condition
<1>2. ASSUME Logged(c, list)
      PROVE  /\ Logged(c, list)'
             /\ \A i \in DOMAIN list : Past(c, list[i].file) => Past(c, list[i].file)'
  <2>1. \A i \in DOMAIN list : Gone(list[i].file)
    BY <1>2 DEF Logged
  <2>2. \A i \in DOMAIN list : Gone(list[i].file)'
    BY <1>1, <2>1 DEF Onward
  <2>3. \A i \in DOMAIN list : Past(c, list[i].file) => Past(c, list[i].file)'
    BY <1>1, <2>1 DEF Onward
  <2> QED BY <1>2, <2>2, <2>3 DEF Logged
<1> QED BY <1>2 DEF AllPast

\* A new condition at the end of the list.
LEMMA AppendLogged ==
  ASSUME NEW c \in Clusters, NEW list \in Seq(Condition), NEW d \in Condition,
         Logged(c, list), Gone(d.file), AllPast(c, list, d.file)
  PROVE  Logged(c, Append(list, d))
<1> DEFINE new == Append(list, d)
           n == Len(list)
<1>1. /\ n \in Nat /\ DOMAIN list = 1 .. n /\ DOMAIN new = 1 .. n + 1 /\ Len(new) = n + 1
      /\ new[n + 1] = d /\ \A i \in 1 .. n : new[i] = list[i]
  OBVIOUS
<1> HIDE DEF new, n
<1>2. \A i \in DOMAIN new : i \in DOMAIN list \/ i = n + 1
  BY <1>1
<1>3. \A i \in DOMAIN list : i # n + 1 /\ new[i] = list[i] /\ list[i].file # d.file
  BY <1>1 DEF AllPast
<1>4. \A i \in DOMAIN new : Gone(new[i].file)
  BY <1>1, <1>2, <1>3 DEF Logged
<1>5. \A i \in DOMAIN new : i # Len(new) => Past(c, new[i].file)
  BY <1>1, <1>2, <1>3 DEF AllPast
<1>6. \A i, j \in DOMAIN new : new[i].file = new[j].file => i = j
  BY <1>1, <1>2, <1>3 DEF Logged
<1> QED BY <1>4, <1>5, <1>6 DEF Logged, new

\* A list of one condition, or of none.
LEMMA ShortLogged ==
  ASSUME NEW c \in Clusters
  PROVE  /\ Logged(c, <<>>)
         /\ \A d \in Condition : Gone(d.file) => Logged(c, <<d>>)
BY DEF Logged

\* The cluster of b never changes.
LEMMA SameCluster ==
  ASSUME OneCluster, NEW b \in Backups, NEW v \in RedisBackup
  PROVE  /\ ClusterOf(b, v) \in Clusters
         /\ \A u \in RedisBackup : ClusterOf(b, u) = ClusterOf(b, v)
BY BackupFields, BackupAssumption DEF OneCluster, ClusterOf, Clusters, BackupAssumption

\* A condition that is new is none of those recorded, and these are past.
LEMMA NewIsPast ==
  ASSUME NEW v \in RedisBackup, NEW c \in Clusters, Logged(c, v.conditions),
         redis[c][CronKey] # Absent, IsNew(v, redis[c][CronKey])
  PROVE  AllPast(c, v.conditions, redis[c][CronKey].file)
<1> DEFINE list == v.conditions
<1>1. list \in Seq(Condition)
  BY BackupFields
<1>2. list # <<>> => list[Len(list)].file # redis[c][CronKey].file
  BY DEF IsNew
<1>3. ASSUME NEW i \in DOMAIN list PROVE list # <<>>
  BY <1>1, <1>3
<1>4. ASSUME NEW i \in DOMAIN list PROVE list[i].file # redis[c][CronKey].file
  BY <1>2, <1>3 DEF Logged, Past
<1> QED BY <1>4 DEF AllPast, Past

----------------------------------------------------------------------------
\* The stored versions and the calls.

\* A version that is the stored one after a step was so before.
LEMMA CurrentBefore ==
  ASSUME TypeOK, ApiStep, NEW b \in Backups, NEW v \in RedisBackup, Known(b, v), Current(b, v)'
  PROVE  Current(b, v)
<1>1. CASE store' = store
  BY <1>1 DEF Current
<1>2. CASE \E k \in Objects, u \in Child \cup {Absent} :
             (k \in Children \/ u = Absent) /\ Put(k, u) /\ UNCHANGED rev
  <2>1. store'[BackupOf(b)] \in {store[BackupOf(b)], Absent}
    BY <1>2, PutEffect
  <2> QED BY <2>1 DEF Current
<1>3. CASE \E c \in Backups, u \in RedisBackup : PutBackup(c, u)
  <2> PICK c \in Backups, u \in RedisBackup : PutBackup(c, u)
    BY <1>3
  <2>1. CASE c # b
    BY <2>1, PutBackupEffect DEF Current
  <2>2. CASE c = b
    <3>1. v.rv \in Nat /\ v.rv <= rev[b]
      BY BackupFields, AbsentAssumption DEF Known, AbsentAssumption
    <3> QED BY <2>2, <3>1, PutBackupEffect DEF Current
  <2> QED BY <2>1, <2>2
<1> QED BY <1>1, <1>2, <1>3 DEF ApiStep, TakeEvent, Relist, apiVars

\* The stored conditions after a step are as LogInv says.
LEMMA StoreLogged ==
  ASSUME OneCluster, IInv, TypeOK', LogInv, Onward, [Next]_vars,
         NEW b \in Backups, store'[BackupOf(b)] # Absent
  PROVE  Logged(ClusterOf(b, store[BackupOf(b)]), store[BackupOf(b)].conditions)'
<1> DEFINE k == BackupOf(b)
           old == store[k]
           new == store'[k]
<1>1. old \in RedisBackup \cup {Absent} /\ new \in RedisBackup
  BY ObjectNames DEF IInv, TypeOK, ApiTypeOK
<1> PICK c \in Clusters : c = ClusterOf(b, new) /\ \A u \in RedisBackup : ClusterOf(b, u) = c
  BY <1>1, SameCluster
<1>2. ASSUME NEW list, list = new.conditions, Logged(c, list)'
      PROVE  Logged(ClusterOf(b, store[BackupOf(b)]), store[BackupOf(b)].conditions)'
  BY <1>2 DEF Logged, Past, ClusterOf
<1>3. CASE new.conditions = <<>>
  <2>1. Logged(c, <<>>)'
    BY DEF Logged
  <2> QED BY <1>2, <1>3, <2>1
<1>4. CASE old # Absent /\ new.conditions = old.conditions
  <2> PICK list \in Seq(Condition) : list = old.conditions
    BY <1>1, <1>4, BackupFields
  <2>1. Logged(c, list)
    BY <1>1, <1>4 DEF LogInv
  <2>2. Logged(c, list)'
    BY <2>1, ListKept, BackupAssumption DEF Condition
  <2> QED BY <1>2, <1>4, <2>2
<1>5. ASSUME NEW w \in Workers, AppendCondition(w), worker[w].key = b, worker[w].inst = old,
             worker[w].cond \in Condition,
             new.conditions = WithCondition(old, worker[w].cond).conditions
      PROVE  Logged(ClusterOf(b, store[BackupOf(b)]), store[BackupOf(b)].conditions)'
  <2>1. InPc(w, "append") /\ Current(b, old) /\ old \in RedisBackup
    BY <1>1, <1>5 DEF AppendCondition, UpdateStatus, Current
  <2> PICK list \in Seq(Condition) : list = old.conditions
    BY <2>1, BackupFields
  <2> PICK d \in Condition : d = worker[w].cond
    BY <1>5
  <2>2. /\ Gone(d.file) /\ Logged(c, list)
        /\ IsScheduled(old) => AllPast(c, list, d.file)
    BY <1>5, <2>1 DEF LogInv, Ready, Current
  <2>3. new.conditions = IF IsScheduled(old) THEN Append(list, d) ELSE <<d>>
    BY <1>5, <2>1 DEF WithCondition, RedisBackup
  <2> PICK longer : longer = new.conditions
    OBVIOUS
  <2>4. Logged(c, longer)
    BY <2>2, <2>3, AppendLogged, ShortLogged
  <2>5. Logged(c, longer)'
    BY <1>5, <2>4 DEF AppendCondition, Logged, Past, Gone
  <2> QED BY <1>2, <2>5
<1>6. \/ new.conditions = <<>>
      \/ old # Absent /\ new.conditions = old.conditions
      \/ \E w \in Workers :
           /\ AppendCondition(w) /\ worker[w].key = b /\ worker[w].inst = old
           /\ worker[w].cond \in Condition
           /\ new.conditions = WithCondition(old, worker[w].cond).conditions
  BY StatusWrites
<1> HIDE DEF k, old, new
<1> QED BY <1>3, <1>4, <1>5, <1>6

\* What a call is about to append it has just read.
LEMMA ReadByCall ==
  ASSUME TypeOK, NEW w \in Workers, RedisConn(w), worker'[w].pc = "append"
  PROVE  LET self == worker[w]
             d == worker'[w].cond
         IN  /\ d = redis[ClusterOf(self.key, self.inst)][KeyOf(self.key, self.inst)]
             /\ d # Absent /\ (IsScheduled(self.inst) => IsNew(self.inst, d))
             /\ redis' = redis /\ running' = running /\ budget'.runs = budget.runs
<1> DEFINE self == worker[w]
<1>1. self \in Busy /\ worker \in [Workers -> Busy \cup {Idle}] /\ budget \in Budget
  BY BusyFields DEF RedisConn, ReadRedis, InPc, TypeOK, EnvTypeOK
<1>2. ASSUME NEW d, ReadRedis(w, d)
      PROVE  /\ worker'[w].cond = d /\ d # Absent /\ (IsScheduled(self.inst) => IsNew(self.inst, d))
             /\ redis' = redis /\ running' = running
  <2> DEFINE pc == IF d # Absent /\ (IsScheduled(self.inst) => IsNew(self.inst, d))
                   THEN "append" ELSE "record"
             next == [self EXCEPT !.pc = pc, !.cond = d]
  <2>1. worker'[w] = next
    <3>1. ~Return(w)
      BY <1>1, IdleFields DEF Return, Goto, WorkerPc
    <3>2. worker' = [worker EXCEPT ![w] = next]
      BY <1>2, <3>1 DEF ReadRedis, Goto
    <3> HIDE DEF next
    <3> QED BY <1>1, <3>2
  <2>2. next.pc = pc /\ next.cond = d
    BY <1>1 DEF Busy
  <2> QED BY <1>2, <2>1, <2>2 DEF ReadRedis
<1>3. budget'.runs = budget.runs
  BY <1>1 DEF RedisConn, Fault, Budget
<1> QED BY <1>2, <1>3 DEF RedisConn

\* What a call is about to append after a step is as LogInv says.
LEMMA ReadyNext ==
  ASSUME OneCluster, IInv, IInv', LogInv, Onward, [Next]_vars, NEW w \in Workers
  PROVE  Ready(w)'
<1> SUFFICES ASSUME InPc(w, "append")', Current(worker[w].key, worker[w].inst)'
             PROVE  Ready(w)'
  BY DEF Ready
<1>1. worker'[w].pc = "append" /\ worker'[w].key \in Backups /\ worker'[w].inst \in RedisBackup
  BY IdleFields DEF InPc, IInv, TypeOK, Busy, Idle
<1> PICK b \in Backups, v \in RedisBackup : worker'[w].key = b /\ worker'[w].inst = v
  BY <1>1
<1> PICK c \in Clusters : c = ClusterOf(b, v) /\ \A u \in RedisBackup : ClusterOf(b, u) = c
  BY SameCluster
<1>2. ASSUME NEW d, worker'[w].cond = d, Gone(d.file)',
             IsScheduled(v) => AllPast(c, v.conditions, d.file)'
      PROVE  Ready(w)'
  BY <1>2 DEF Ready, AllPast, Past, IsScheduled
<1>3. worker'[w] = worker[w] \/ RedisConn(w)
  BY <1>1, CondOfNext DEF IInv, CondStep
<1>4. /\ ~InPc(w, "idle") /\ worker[w].key = b /\ worker[w].inst = v /\ worker[w] \in Busy
  <2>1. ~InPc(w, "idle")
    BY <1>1, <1>3 DEF InPc, RedisConn, ReadRedis
  <2>2. worker[w] \in Busy
    BY <2>1, BusyFields DEF IInv
  <2>3. CASE RedisConn(w)
    <3> PICK pc, d : worker' = [worker EXCEPT ![w] = [worker[w] EXCEPT !.pc = pc, !.cond = d]]
                     \/ worker' = [worker EXCEPT ![w] = Idle]
      BY <2>3 DEF RedisConn, ReadRedis, Return, Goto
    <3>1. worker'[w] = [worker[w] EXCEPT !.pc = pc, !.cond = d]
      BY <1>1, IdleFields DEF IInv, TypeOK
    <3> QED BY <2>1, <2>2, <3>1 DEF Busy
  <2> QED BY <1>3, <2>1, <2>2, <2>3
<1>5. Current(b, v) /\ v = store[BackupOf(b)] /\ Logged(c, v.conditions)
  <2>1. Known(b, v) /\ TypeOK /\ ApiStep
    BY <1>4, NextApi DEF IInv, Coherent
  <2>2. Current(b, v)'
    BY <1>1 DEF Current
  <2>3. Current(b, v) /\ v # Absent
    BY <2>1, <2>2, CurrentBefore, AbsentAssumption DEF AbsentAssumption
  <2> QED BY <2>1, <2>3 DEF Known, LogInv
<1>6. CASE worker'[w] = worker[w]
  <2> PICK d \in Condition : d = worker[w].cond
    BY <1>1, <1>4, <1>6 DEF IInv, Progress, InPc, Busy
  <2>1. d.file \in Nat /\ v.conditions \in Seq(Condition)
    BY BackupFields DEF Condition
  <2>2. Gone(d.file) /\ (IsScheduled(v) => AllPast(c, v.conditions, d.file))
    BY <1>1, <1>4, <1>5, <1>6 DEF LogInv, Ready, InPc
  <2>3. Gone(d.file)' /\ (IsScheduled(v) => AllPast(c, v.conditions, d.file)')
    BY <1>5, <2>1, <2>2, ListKept DEF Onward
  <2> QED BY <1>2, <1>6, <2>3
<1>7. CASE RedisConn(w)
  <2> PICK d : worker'[w].cond = d
    OBVIOUS
  <2>1. /\ d = redis[c][KeyOf(b, v)] /\ d # Absent /\ (IsScheduled(v) => IsNew(v, d))
        /\ redis' = redis /\ running' = running /\ budget'.runs = budget.runs
    BY <1>1, <1>4, <1>7, ReadByCall DEF IInv
  <2>2. KeyOf(b, v) \in RedisKeys /\ (IsScheduled(v) => KeyOf(b, v) = CronKey)
    BY DEF KeyOf, RedisKeys
  <2>3. Gone(d.file) /\ (IsScheduled(v) => AllPast(c, v.conditions, d.file))
    BY <1>5, <2>1, <2>2, NewIsPast DEF LogInv, ResultsGone
  <2>4. Gone(d.file)' /\ (IsScheduled(v) => AllPast(c, v.conditions, d.file)')
    BY <2>1, <2>3 DEF Gone, AllPast, Past
  <2> QED BY <1>2, <2>4
<1> QED BY <1>3, <1>6, <1>7

----------------------------------------------------------------------------
\* The invariant holds at first: there are no runs and no results.
LEMMA LogInit == Init => LogInv
BY ObjectNames, IdleFields
   DEF Init, InitApiServer, LogInv, RunsOnce, ResultsGone, Ready, InPc

\* Every step keeps it.
LEMMA LogNext ==
  ASSUME OneCluster, IInv, IInv', LogInv, [Next]_vars
  PROVE  LogInv'
<1>1. TypeOK /\ TypeOK' /\ RunsOnce /\ ResultsGone /\ RunsMove
  BY RunsOfNext DEF IInv, LogInv
<1>2. RunsOnce' /\ ResultsGone' /\ Onward
  BY <1>1, RunsKept DEF Onward
<1>3. \A b \in Backups :
        store'[BackupOf(b)] # Absent =>
          Logged(ClusterOf(b, store[BackupOf(b)]), store[BackupOf(b)].conditions)'
  BY <1>1, <1>2, StoreLogged
<1>4. \A w \in Workers : Ready(w)'
  BY <1>2, ReadyNext
<1> QED BY <1>2, <1>3, <1>4 DEF LogInv

(***************************************************************************)
(* A RedisBackup whose cluster is the only one records no run twice,       *)
(* whatever is retried, restarted or read from old versions.               *)
(***************************************************************************)
THEOREM RunRecordedOnce ==
  ASSUME OneCluster
  PROVE  Spec => []NoDuplicateCondition
<1>1. LogInv => NoDuplicateCondition
  BY DEF LogInv, Logged, NoDuplicateCondition
<1>2. IInv /\ LogInv /\ IInv' /\ [Next]_vars => LogInv'
  BY LogNext
<1> QED BY <1>1, <1>2, LogInit, Invariance, PTL DEF Spec
============================================================================
