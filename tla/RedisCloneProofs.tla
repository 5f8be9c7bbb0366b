-------------------------- MODULE RedisCloneProofs --------------------------
(***************************************************************************)
(* Proofs about RedisClone, for any number of RedisClones, workers and     *)
(* clusters and any bounds on the environment: IInv is inductive, and at   *)
(* rest the status names the destination of the spec.                      *)
(*                                                                         *)
(* An accepted update has read what is stored (UpdateInv, RefreshInv): a   *)
(* call of Reconcile leaves a status that names the destination, and one   *)
(* of CloneInfoSync never makes it name another one.  So the status only   *)
(* falls behind when the spec changes, which is an event that passes the   *)
(* predicate (WriteInv); its key stays with the queue, the back-off or a   *)
(* worker until an update has been accepted.                               *)
(***************************************************************************)
EXTENDS RedisClone, CustomResourceProofs, FiniteSetTheorems

\* What the fields of a condition hold.
LEMMA ConditionFields ==
  ASSUME NEW c \in CloneCondition
  PROVE  c.dest \in DestClusters /\ c # NoCondition
BY CloneAbsent DEF CloneCondition, NoCondition

\* A condition that tells a report is a condition for the same destination.
LEMMA ConditionTells ==
  ASSUME NEW c \in CloneCondition, NEW o \in Offsets, NEW l \in Links
  PROVE  /\ [c EXCEPT !.offset = o, !.link = l] \in CloneCondition
         /\ [c EXCEPT !.offset = o, !.link = l].dest = c.dest
BY DEF CloneCondition

\* What the fields of a RedisClone hold.
LEMMA CloneFields ==
  ASSUME NEW v \in RedisClone
  PROVE  /\ v.dest \in DestClusters /\ v.condition \in CloneCondition \cup {NoCondition}
         /\ v # Absent
         /\ \A r \in Nat : [v EXCEPT !.rv = r] \in RedisClone
         /\ \A d \in DestClusters : [v EXCEPT !.dest = d] \in RedisClone
         /\ \A c \in CloneCondition : [v EXCEPT !.condition = c] \in RedisClone
<1>1. v # Absent
  BY CloneAbsent
<1>2. v.dest \in DestClusters /\ v.condition \in CloneCondition \cup {NoCondition}
  BY DEF RedisClone
<1>3. ASSUME NEW r \in Nat PROVE [v EXCEPT !.rv = r] \in RedisClone
  BY DEF RedisClone
<1>4. ASSUME NEW d \in DestClusters PROVE [v EXCEPT !.dest = d] \in RedisClone
  BY DEF RedisClone
<1>5. ASSUME NEW c \in CloneCondition PROVE [v EXCEPT !.condition = c] \in RedisClone
  BY DEF RedisClone
<1> QED BY <1>1, <1>2, <1>3, <1>4, <1>5

\* The bound on the resourceVersions is a number.
LEMMA BoundIsNat == MaxLag + 4 + Cardinality(Workers) \in Nat
BY FS_CardinalityType, LagAssumption, CloneAssumption DEF LagAssumption, CloneAssumption

\* What a call in progress has read is a copy of its RedisClone.
LEMMA CallFields ==
  ASSUME IInv
  PROVE  /\ \A w \in Workers : call[w].pc # "idle" =>
              /\ call[w] \in Busy(CloneCondition)
              /\ call[w].key \in Names /\ call[w].inst \in RedisClone
              /\ call[w].condition \in CloneCondition
              /\ call[w].condition.dest = call[w].inst.dest
              /\ call[w].inst \in Copies(call[w].key)
         /\ sync.pc # "idle" =>
              /\ sync.key \in Names /\ sync.inst \in RedisClone
              /\ sync.condition.dest \in {sync.inst.dest, sync.inst.condition.dest}
              /\ sync.inst \in Copies(sync.key)
              /\ sync.pc = "pods" => sync.condition \in CloneCondition \cup Started
              /\ sync.pc = "update" => sync.condition \in CloneCondition
<1>1. ASSUME NEW w \in Workers, call[w].pc # "idle"
      PROVE  /\ call[w] \in Busy(CloneCondition)
             /\ call[w].key \in Names /\ call[w].inst \in RedisClone
             /\ call[w].condition \in CloneCondition
  BY <1>1 DEF IInv, TypeOK, Busy, Idle
<1>2. \A w \in Workers : call[w].pc # "idle" => call[w].inst \in Copies(call[w].key)
  BY DEF Copies, Calls
<1>3. sync.pc # "idle" =>
        /\ sync.key \in Names /\ sync.inst \in RedisClone
        /\ sync.pc = "pods" => sync.condition \in CloneCondition \cup Started
        /\ sync.pc = "update" => sync.condition \in CloneCondition
  BY DEF IInv, TypeOK, Busy, Idle
<1>4. sync.inst \in Copies(sync.key)
  BY DEF Copies, Calls
<1> QED BY <1>1, <1>2, <1>3, <1>4 DEF IInv, KeepsDest

\* A new version keeps destination and condition, and no copy has its number.
LEMMA PutVersionIsPut ==
  ASSUME NEW n \in Names, NEW v \in RedisClone, PutVersion(n, v)
  PROVE  \E w \in RedisClone :
           /\ Put(n, w) /\ w.dest = v.dest /\ w.condition = v.condition
           /\ \A c \in Copies(n) \ {Absent} : c.rv # w.rv
<1>1. PICK r \in 1 .. MaxLag + 4 + Cardinality(Workers) :
        /\ Put(n, [v EXCEPT !.rv = r])
        /\ r \notin {c.rv : c \in Copies(n) \ {Absent}}
  BY DEF PutVersion
<1> DEFINE w == [v EXCEPT !.rv = r]
<1>2. w \in RedisClone /\ w.rv = r /\ w.dest = v.dest /\ w.condition = v.condition
  BY BoundIsNat, <1>1, CloneFields DEF RedisClone
<1>3. \A c \in Copies(n) \ {Absent} : c.rv # w.rv
  BY <1>1, <1>2
<1> QED BY <1>1, <1>2, <1>3

\* A bound that is not used up may be lowered.
LEMMA BudgetTyped ==
  ASSUME TypeOK
  PROVE  /\ Fault => budget' \in Budget
         /\ Edit => budget' \in Budget
         /\ budget.moves > 0 => [budget EXCEPT !.moves = @ - 1] \in Budget
BY DEF TypeOK, Budget, Fault, Edit

\* The initial states satisfy the invariant.
LEMMA InitInv == Init => IInv
<1> SUFFICES ASSUME Init PROVE IInv
  OBVIOUS
<1>1. ResourcesIn(RedisClone) /\ \A n \in Names : Synced(n) /\ store[n] = Absent
  BY InitKeeps DEF Init, InitResources
<1>2. budget \in Budget
  BY CloneAssumption DEF Init, CloneAssumption, Budget
<1>3. TypeOK
  <2>1. replication \in [DestClusters -> Answers]
    BY DEF Init
  <2> QED BY <1>1, <1>2, <2>1 DEF Init, InitWorkQueue, TypeOK
<1>4. \A n \in Names : Coherent(n) /\ Carried(n)
  BY <1>1 DEF Coherent, Carried, Outdated
<1>5. KeepsDest
  BY DEF Init, KeepsDest, Idle
<1> QED BY <1>1, <1>3, <1>4, <1>5 DEF IInv

----------------------------------------------------------------------------
\* What the steps have in common.

\* Every call holds a copy that there has been before the step.
OnlyCopies == \A n \in Names : \A c \in Calls' : c.key = n => c.inst \in Copies(n)

\* A key leaves the queue and the workers only if its status is up to date,
\* or an event that passes the predicate is on its way.
NoneDropped(n) == Pending(n) => Pending(n)' \/ ~Outdated(n) \/ Announced(n)

\* A step that leaves the resources alone.
LEMMA QuietInv ==
  ASSUME IInv, UNCHANGED resourceVars, TypeOK', KeepsDest', OnlyCopies,
         \A n \in Names : NoneDropped(n)
  PROVE  IInv'
<1> SUFFICES ASSUME NEW n \in Names PROVE Synced(n)' /\ Coherent(n)' /\ Carried(n)'
  BY DEF IInv
<1>1. Synced(n)'
  BY DEF IInv, resourceVars, Synced
<1>2. Copies(n)' \subseteq Copies(n)
  BY DEF resourceVars, OnlyCopies, Copies
<1>3. Coherent(n)'
  BY <1>2 DEF IInv, resourceVars, Coherent
<1>4. Carried(n)'
  BY DEF IInv, resourceVars, NoneDropped, Carried, Outdated, Announced
<1> QED BY <1>1, <1>3, <1>4

\* A step that leaves the calls of Reconcile and the queue alone as well.
LEMMA FrameInv ==
  ASSUME IInv, UNCHANGED <<resourceVars, queueVars, call, sync>>,
         replication' \in [DestClusters -> Answers], budget' \in Budget
  PROVE  IInv'
<1>1. TypeOK' /\ KeepsDest'
  BY DEF IInv, TypeOK, KeepsDest, ResourcesIn, resourceVars, queueVars
<1>2. OnlyCopies /\ \A n \in Names : NoneDropped(n)
  BY DEF OnlyCopies, Calls, Copies, NoneDropped, Pending, queueVars
<1> QED BY <1>1, <1>2, QuietInv

\* A write keeps the invariant if its version is new, and if it does not make
\* the status name another destination without changing the spec.
LEMMA WriteInv ==
  ASSUME IInv, NEW n \in Names, NEW v \in RedisClone \cup {Absent}, Put(n, v),
         TypeOK', KeepsDest', OnlyCopies, \A m \in Names \ {n} : Pending(m) => Pending(m)',
         v # Absent => \A c \in Copies(n) \ {Absent} : c.rv # v.rv,
         \/ v = Absent \/ v.condition.dest = v.dest
         \/ Passes(store[n], v) \/ (Outdated(n) /\ (Pending(n) => Pending(n)'))
  PROVE  IInv'
<1>1. ResourcesIn(RedisClone)
  BY DEF IInv, TypeOK
<1>2. /\ \A m \in Names : Synced(m)'
      /\ cache' = cache
      /\ \A m \in Names \ {n} : watch'[m] = watch[m] /\ store'[m] = store[m]
  BY <1>1, PutKeeps DEF IInv
<1>3. /\ store'[n] = v /\ Len(watch[n]) \in Nat
      /\ DOMAIN watch[n] = 1 .. Len(watch[n]) /\ DOMAIN watch'[n] = 1 .. Len(watch[n]) + 1
      /\ \A i \in 1 .. Len(watch[n]) : watch'[n][i] = watch[n][i]
      /\ watch'[n][Len(watch[n]) + 1] = v
  BY <1>1, PutAppends
<1>4. ASSUME NEW m \in Names \ {n} PROVE Coherent(m)' /\ Carried(m)'
  <2>1. Copies(m)' \subseteq Copies(m)
    BY <1>2 DEF OnlyCopies, Copies
  <2>2. Coherent(m) /\ Carried(m)
    BY DEF IInv
  <2> QED BY <1>2, <2>1, <2>2 DEF Coherent, Carried, Outdated, Announced
<1>5. Coherent(n)'
  <2>1. ASSUME NEW i \in DOMAIN watch'[n] PROVE watch'[n][i] \in Copies(n) \cup {v}
    <3>1. i \in 1 .. Len(watch[n]) \/ i = Len(watch[n]) + 1
      BY <1>3
    <3> QED BY <1>3, <3>1 DEF Copies
  <2>2. Copies(n)' = {v, cache[n]} \cup {watch'[n][i] : i \in DOMAIN watch'[n]}
                     \cup {c.inst : c \in {c \in Calls' : c.key = n}}
    BY <1>2, <1>3 DEF Copies
  <2>3. cache[n] \in Copies(n) /\ \A c \in {c \in Calls' : c.key = n} : c.inst \in Copies(n)
    BY DEF OnlyCopies, Copies
  <2>4. \A c \in Copies(n)' : c \in Copies(n) \cup {v}
    BY <2>1, <2>2, <2>3
  <2> QED BY <1>3, <2>4 DEF Coherent
<1>6. Carried(n)'
  <2>1. ASSUME Announced(n) PROVE Announced(n)'
    <3>1. PICK i \in 1 .. Len(watch[n]) :
            Passes(IF i = 1 THEN cache[n] ELSE watch[n][i - 1], watch[n][i])
      BY <1>3, <2>1 DEF Announced
    <3>2. i \in DOMAIN watch'[n] /\ (i # 1 => i - 1 \in 1 .. Len(watch[n]))
      BY <1>3
    <3> QED BY <1>2, <1>3, <3>1, <3>2 DEF Announced
  <2>2. ASSUME Passes(store[n], v) PROVE Announced(n)'
    <3> DEFINE k == Len(watch[n]) + 1
    <3>1. k \in DOMAIN watch'[n] /\ watch'[n][k] = v /\ (k # 1 => k - 1 = Len(watch[n]))
      BY <1>3
    <3>2. k = 1 => cache[n] = store[n]
      BY <1>1, EmptySeq DEF IInv, Synced, ResourcesIn
    <3>3. k # 1 => k - 1 \in 1 .. Len(watch[n]) /\ watch[n][k - 1] = store[n]
      <4>1. k # 1 => watch[n] # <<>>
        BY <1>3
      <4> QED BY <1>3, <4>1 DEF IInv, Synced
    <3> QED BY <1>2, <1>3, <2>2, <3>1, <3>2, <3>3 DEF Announced
  <2>3. CASE v = Absent \/ v.condition.dest = v.dest
    BY <1>3, <2>3 DEF Carried, Outdated
  <2>4. CASE Outdated(n) /\ (Pending(n) => Pending(n)')
    BY <2>1, <2>4 DEF IInv, Carried
  <2> QED BY <2>2, <2>3, <2>4 DEF Carried
<1> QED BY <1>2, <1>4, <1>5, <1>6 DEF IInv

\* Calls that end, or go on as they are.
LEMMA CallsEnd ==
  ASSUME IInv, call' \in [Workers -> UNION {{call[w], Idle} : w \in Workers}],
         \A w \in Workers : call'[w] \in {call[w], Idle}, sync' \in {sync, Idle}
  PROVE  /\ OnlyCopies /\ KeepsDest'
         /\ call' \in [Workers -> Busy(CloneCondition) \cup {Idle}]
         /\ sync' \in Busy(CloneCondition \cup Started) \cup {Idle}
<1>1. KeepsDest'
  BY DEF IInv, KeepsDest, Idle
<1>2. \A n \in Names : n # Idle.key
  BY CloneAbsent DEF Idle
<1>3. \A c \in Calls' : c \in Calls \/ c = Idle
  BY DEF Calls
<1>4. OnlyCopies
  BY <1>2, <1>3 DEF OnlyCopies, Copies
<1>5. \A w \in Workers : call'[w] \in Busy(CloneCondition) \cup {Idle}
  BY DEF IInv, TypeOK
<1>6. sync' \in Busy(CloneCondition \cup Started) \cup {Idle}
  BY DEF IInv, TypeOK
<1> QED BY <1>1, <1>4, <1>5, <1>6

\* The end of one call of Reconcile.
LEMMA CallEnds ==
  ASSUME IInv, NEW w \in Workers, call' = [call EXCEPT ![w] = Idle], UNCHANGED sync
  PROVE  /\ OnlyCopies /\ KeepsDest'
         /\ call' \in [Workers -> Busy(CloneCondition) \cup {Idle}]
<1>1. call \in [Workers -> Busy(CloneCondition) \cup {Idle}]
  BY DEF IInv, TypeOK
<1>2. \A u \in Workers : call'[u] \in {call[u], Idle}
  BY <1>1
<1>3. call' \in [Workers -> UNION {{call[u], Idle} : u \in Workers}]
  BY <1>1, <1>2
<1> QED BY <1>2, <1>3, CallsEnd

\* The next state of one call of Reconcile.
LEMMA CallGoesOn ==
  ASSUME IInv, NEW w \in Workers, NEW c \in Busy(CloneCondition),
         c.condition.dest = c.inst.dest, c.inst \in Copies(c.key),
         call' = [call EXCEPT ![w] = c], UNCHANGED sync
  PROVE  /\ OnlyCopies /\ KeepsDest'
         /\ call' \in [Workers -> Busy(CloneCondition) \cup {Idle}]
<1>1. call \in [Workers -> Busy(CloneCondition) \cup {Idle}]
  BY DEF IInv, TypeOK
<1>2. \A u \in Workers : call'[u] = c \/ call'[u] = call[u]
  BY <1>1
<1>3. \A d \in Calls' : d \in Calls \/ d = c
  BY <1>2 DEF Calls
<1>4. OnlyCopies
  BY <1>3 DEF OnlyCopies, Copies
<1>5. KeepsDest'
  BY <1>2 DEF IInv, KeepsDest
<1> QED BY <1>1, <1>4, <1>5

\* The next state of the call of CloneInfoSync.
LEMMA SyncGoesOn ==
  ASSUME IInv, sync'.pc # "idle", sync'.inst \in Copies(sync'.key),
         sync'.condition.dest \in {sync'.inst.dest, sync'.inst.condition.dest},
         UNCHANGED call
  PROVE  OnlyCopies /\ KeepsDest'
<1>1. \A d \in Calls' : d \in Calls \/ d = sync'
  BY DEF Calls
<1>2. OnlyCopies
  BY <1>1 DEF OnlyCopies, Copies
<1>3. KeepsDest'
  BY DEF IInv, KeepsDest
<1> QED BY <1>2, <1>3

----------------------------------------------------------------------------
\* The calls of Reconcile.

\* The start of a call reads the cache; a key without an object leaves the
\* queue, but its creation is on its way if there is one.
LEMMA StartInv ==
  ASSUME IInv, NEW n \in Names, Start(n)
  PROVE  IInv'
<1>1. ASSUME NEW w \in Workers, StartReconcile(w, n)
      PROVE  IInv'
  <2> DEFINE new == [dest |-> cache[n].dest, offset |-> NoOffset, link |-> LinkDown]
             c == [pc |-> "pods", key |-> n, inst |-> cache[n], condition |-> new]
  <2>1. cache[n] \in RedisClone
    BY <1>1 DEF StartReconcile, IInv, TypeOK, ResourcesIn
  <2>2. new \in CloneCondition /\ new.dest = cache[n].dest
    BY <2>1, CloneFields DEF CloneCondition
  <2>3. c \in Busy(CloneCondition)
    <3> HIDE DEF new
    <3> QED BY <2>1, <2>2 DEF Busy
  <2>4. c.inst \in Copies(c.key) /\ c.condition.dest = c.inst.dest
    BY <2>2 DEF Copies
  <2>5. /\ call' = [call EXCEPT ![w] = c]
        /\ dirty' = dirty \ {n} /\ processing' = processing \cup {n} /\ delayed' = delayed
        /\ UNCHANGED <<resourceVars, sync, replication, budget>>
    BY <1>1 DEF StartReconcile, Get
  <2> HIDE DEF c
  <2>6. /\ OnlyCopies /\ KeepsDest'
        /\ call' \in [Workers -> Busy(CloneCondition) \cup {Idle}]
    BY <2>3, <2>4, <2>5, CallGoesOn
  <2>7. TypeOK'
    BY <2>5, <2>6 DEF resourceVars, IInv, TypeOK, ResourcesIn
  <2>8. \A m \in Names : NoneDropped(m)
    BY <2>5 DEF NoneDropped, Pending
  <2> QED BY <2>5, <2>6, <2>7, <2>8, QuietInv
<1>2. ASSUME NEW w \in Workers, ReconcileNothing(w, n)
      PROVE  IInv'
  <2>1. /\ cache[n] = Absent /\ dirty' = dirty \ {n}
        /\ UNCHANGED <<resourceVars, processing, delayed, call, sync, replication, budget>>
    BY <1>2 DEF ReconcileNothing
  <2>2. TypeOK' /\ KeepsDest'
    BY <2>1 DEF resourceVars, IInv, TypeOK, ResourcesIn, KeepsDest
  <2>3. OnlyCopies
    BY <2>1 DEF OnlyCopies, Calls, Copies
  <2>4. Outdated(n) => Announced(n)
    <3>1. watch[n] \in Seq(RedisClone \cup {Absent}) /\ Synced(n)
      BY DEF IInv, TypeOK, ResourcesIn
    <3>2. Outdated(n) => watch[n] # <<>>
      BY <2>1, <3>1 DEF Outdated, Synced
    <3>3. Outdated(n) => 1 \in DOMAIN watch[n]
      BY <3>1, <3>2, EmptySeq, LenProperties
    <3> QED BY <2>1, <3>3 DEF Announced, Passes
  <2>5. \A m \in Names : NoneDropped(m)
    BY <2>1, <2>4 DEF NoneDropped, Pending
  <2> QED BY <2>1, <2>2, <2>3, <2>5, QuietInv
<1> QED BY <1>1, <1>2 DEF Start

\* The reading of the replication leaves the destination of the condition alone.
LEMMA ReadInv ==
  ASSUME IInv, NEW w \in Workers, ReadReplication(w)
  PROVE  IInv'
<1> PICK found \in replication[call[w].inst.dest] :
       call' = [call EXCEPT ![w].pc = "update", ![w].condition = Shown(@, found)]
  BY DEF ReadReplication
<1> DEFINE new == Shown(call[w].condition, found)
           c == [call[w] EXCEPT !.pc = "update", !.condition = new]
<1>1. /\ call[w].pc = "pods" /\ call[w] \in Busy(CloneCondition)
      /\ call[w].condition \in CloneCondition
      /\ call[w].condition.dest = call[w].inst.dest
      /\ call[w].inst \in Copies(call[w].key)
  BY CallFields DEF ReadReplication
<1>2. new \in CloneCondition /\ new.dest = call[w].inst.dest
  <2>1. CASE found \in Report
    <3>1. found.offset \in Offsets /\ found.link \in Links
      BY <2>1 DEF Report
    <3>2. new = [call[w].condition EXCEPT !.offset = found.offset, !.link = found.link]
      BY <2>1 DEF Shown
    <3> HIDE DEF new
    <3> QED BY <1>1, <3>1, <3>2, ConditionTells
  <2>2. CASE found \notin Report
    BY <1>1, <2>2 DEF Shown
  <2> QED BY <2>1, <2>2
<1>3. /\ call' = [call EXCEPT ![w] = c]
      /\ UNCHANGED <<resourceVars, queueVars, sync, replication, budget>>
  BY DEF ReadReplication, IInv, TypeOK
<1> HIDE DEF new
<1>4. c \in Busy(CloneCondition) /\ c.inst = call[w].inst /\ c.key = call[w].key /\ c.condition = new
  BY <1>1, <1>2 DEF Busy
<1> HIDE DEF c
<1>5. /\ OnlyCopies /\ KeepsDest'
      /\ call' \in [Workers -> Busy(CloneCondition) \cup {Idle}]
  BY <1>1, <1>2, <1>3, <1>4, CallGoesOn
<1>6. TypeOK'
  BY <1>3, <1>5 DEF resourceVars, queueVars, IInv, TypeOK, ResourcesIn
<1>7. \A m \in Names : NoneDropped(m)
  BY <1>3 DEF NoneDropped, Pending, queueVars
<1> QED BY <1>3, <1>5, <1>6, <1>7, QuietInv

\* A call that fails leaves its key to the back-off.
LEMMA FailsInv ==
  ASSUME IInv, NEW w \in Workers, PodListFails(w) \/ UpdateFails(w)
  PROVE  IInv'
<1>1. call[w].key \in Names
  BY CallFields DEF PodListFails, UpdateFails
<1>2. budget' \in Budget
  BY BudgetTyped DEF PodListFails, UpdateFails, IInv, TypeOK
<1>3. /\ call' = [call EXCEPT ![w] = Idle]
      /\ processing' = processing \ {call[w].key} /\ delayed' = delayed \cup {call[w].key}
      /\ UNCHANGED <<resourceVars, dirty, sync, replication>>
  BY DEF PodListFails, UpdateFails, Fail, DoneWithError
<1>4. /\ OnlyCopies /\ KeepsDest'
      /\ call' \in [Workers -> Busy(CloneCondition) \cup {Idle}]
  BY <1>3, CallEnds
<1>5. TypeOK'
  BY <1>1, <1>2, <1>3, <1>4 DEF resourceVars, IInv, TypeOK, ResourcesIn
<1>6. \A m \in Names : NoneDropped(m)
  BY <1>3 DEF NoneDropped, Pending
<1> QED BY <1>3, <1>4, <1>5, <1>6, QuietInv

\* The stored version is the only copy with its resourceVersion.
LEMMA CurrentIsStored ==
  ASSUME IInv, NEW n \in Names, NEW v \in RedisClone, v \in Copies(n), Current(n, v)
  PROVE  store[n] = v
<1>1. v # Absent
  BY CloneFields
<1> QED BY <1>1 DEF IInv, Coherent, Current

\* An accepted update of Reconcile leaves a status that names the destination.
LEMMA UpdateInv ==
  ASSUME IInv, NEW w \in Workers, UpdateConditions(w)
  PROVE  IInv'
<1> DEFINE k == call[w].key
           v == call[w].inst
           c == call[w].condition
<1>1. /\ k \in Names /\ v \in RedisClone /\ c \in CloneCondition /\ c.dest = v.dest
      /\ store[k] = v
  BY CallFields, CurrentIsStored DEF UpdateConditions
<1>2. /\ call' = [call EXCEPT ![w] = Idle] /\ processing' = processing \ {k}
      /\ UNCHANGED <<dirty, delayed, sync, replication, budget>>
  BY DEF UpdateConditions, Return, Done
<1>3. /\ OnlyCopies /\ KeepsDest'
      /\ call' \in [Workers -> Busy(CloneCondition) \cup {Idle}]
  BY <1>2, CallEnds
<1>4. CASE c = v.condition /\ UNCHANGED resourceVars
  <2>1. TypeOK'
    BY <1>2, <1>3, <1>4 DEF resourceVars, IInv, TypeOK, ResourcesIn
  <2>2. \A m \in Names : NoneDropped(m)
    BY <1>1, <1>2, <1>4 DEF NoneDropped, Pending, Outdated
  <2> QED BY <1>3, <1>4, <2>1, <2>2, QuietInv
<1>5. CASE PutVersion(k, [v EXCEPT !.condition = c])
  <2> DEFINE new == [v EXCEPT !.condition = c]
  <2>1. PutVersion(k, new) /\ new \in RedisClone /\ new.dest = v.dest /\ new.condition = c
    BY <1>1, <1>5, CloneFields DEF RedisClone
  <2> HIDE DEF new, k
  <2>2. PICK u \in RedisClone :
          /\ Put(k, u) /\ u.dest = v.dest /\ u.condition = c
          /\ \A d \in Copies(k) \ {Absent} : d.rv # u.rv
    BY <1>1, <2>1, PutVersionIsPut
  <2>3. ResourcesIn(RedisClone)'
    BY <1>1, <2>2, PutKeeps DEF IInv, TypeOK
  <2>4. TypeOK'
    BY <1>2, <1>3, <2>3 DEF IInv, TypeOK
  <2>5. \A m \in Names \ {k} : Pending(m) => Pending(m)'
    BY <1>2 DEF Pending
  <2> QED BY <1>1, <1>3, <2>2, <2>4, <2>5, WriteInv
<1> QED BY <1>4, <1>5 DEF UpdateConditions, UpdateStatus

----------------------------------------------------------------------------
\* The calls of CloneInfoSync.

\* A call of CloneInfoSync reads the cache.
LEMMA StartSyncInv ==
  ASSUME IInv, NEW n \in Names, StartSync(n)
  PROVE  IInv'
<1> DEFINE old == cache[n].condition
           new == IF old = NoCondition THEN [old EXCEPT !.dest = cache[n].dest] ELSE old
<1>1. cache[n] \in RedisClone
  BY DEF StartSync, IInv, TypeOK, ResourcesIn
<1>2. /\ cache[n].dest \in DestClusters /\ old \in CloneCondition \cup {NoCondition}
  BY <1>1, CloneFields
<1>3. new \in CloneCondition \cup Started /\ new.dest \in {cache[n].dest, old.dest}
  <2>1. CASE old = NoCondition
    <3>1. new = [NoCondition EXCEPT !.dest = cache[n].dest]
      BY <2>1
    <3> HIDE DEF new
    <3> QED BY <1>2, <3>1 DEF NoCondition, Started
  <2>2. CASE old \in CloneCondition
    <3>1. old # NoCondition
      BY <2>2, ConditionFields
    <3> QED BY <2>2, <3>1
  <2> QED BY <1>2, <2>1, <2>2
<1>4. /\ sync' = [pc |-> "pods", key |-> n, inst |-> cache[n], condition |-> new]
      /\ UNCHANGED <<resourceVars, queueVars, call, replication, budget>>
  BY DEF StartSync
<1> HIDE DEF new
<1>5. /\ sync' \in Busy(CloneCondition \cup Started)
      /\ sync'.pc # "idle" /\ sync'.inst \in Copies(sync'.key)
      /\ sync'.condition.dest \in {sync'.inst.dest, sync'.inst.condition.dest}
  BY <1>1, <1>3, <1>4 DEF Busy, Copies
<1>6. TypeOK'
  BY <1>4, <1>5 DEF resourceVars, queueVars, IInv, TypeOK, ResourcesIn
<1>7. \A m \in Names : NoneDropped(m)
  BY <1>4 DEF NoneDropped, Pending, queueVars
<1> QED BY <1>4, <1>5, <1>6, <1>7, SyncGoesOn, QuietInv

\* The reading of the replication leaves the destination of the condition alone.
LEMMA RefreshReadInv ==
  ASSUME IInv, RefreshReplication
  PROVE  IInv'
<1> PICK found \in replication[sync.inst.dest] :
       sync' = [sync EXCEPT !.pc = "update", !.condition = Refreshed(@, found)]
  BY DEF RefreshReplication
<1> DEFINE c == sync.condition
           new == Refreshed(c, found)
<1>1. /\ c \in CloneCondition \cup Started /\ sync.key \in Names /\ sync.inst \in RedisClone
      /\ c.dest \in {sync.inst.dest, sync.inst.condition.dest}
      /\ sync.inst \in Copies(sync.key)
  BY CallFields DEF RefreshReplication
<1>2. new \in CloneCondition /\ new.dest = c.dest
  <2>1. CASE found \in Report
    <3>1. found.offset \in Offsets /\ found.link \in Links
      BY <2>1 DEF Report
    <3>2. new = [c EXCEPT !.offset = found.offset, !.link = found.link]
      BY <2>1 DEF Refreshed
    <3> HIDE DEF new, c
    <3> QED BY <1>1, <3>1, <3>2 DEF CloneCondition, Started
  <2>2. CASE found \notin Report
    <3>1. new = [c EXCEPT !.link = LagUnknown]
      BY <2>2 DEF Refreshed
    <3> HIDE DEF new, c
    <3> QED BY <1>1, <3>1 DEF CloneCondition, Started
  <2> QED BY <2>1, <2>2
<1>3. /\ sync' = [sync EXCEPT !.pc = "update", !.condition = new]
      /\ UNCHANGED <<resourceVars, queueVars, call, replication, budget>>
  BY DEF RefreshReplication
<1> HIDE DEF new, c
<1>4. sync \in Busy(CloneCondition \cup Started)
  BY DEF RefreshReplication, IInv, TypeOK, Idle
<1>5. /\ sync' \in Busy(CloneCondition \cup Started)
      /\ sync'.pc # "idle" /\ sync'.inst = sync.inst /\ sync'.key = sync.key
      /\ sync'.condition = new
  BY <1>1, <1>2, <1>3, <1>4 DEF Busy
<1>6. TypeOK'
  BY <1>3, <1>5 DEF resourceVars, queueVars, IInv, TypeOK, ResourcesIn
<1>7. \A m \in Names : NoneDropped(m)
  BY <1>3 DEF NoneDropped, Pending, queueVars
<1>8. OnlyCopies /\ KeepsDest'
  BY <1>1, <1>2, <1>3, <1>5, SyncGoesOn
<1> QED BY <1>3, <1>6, <1>7, <1>8, QuietInv

\* An accepted update of CloneInfoSync keeps the destination that the status
\* has, or takes that of the spec.
LEMMA RefreshInv ==
  ASSUME IInv, RefreshConditions
  PROVE  IInv'
<1> DEFINE k == sync.key
           v == sync.inst
           c == sync.condition
<1>1. /\ k \in Names /\ v \in RedisClone /\ c \in CloneCondition
      /\ c.dest \in {v.dest, v.condition.dest}
      /\ v \in Copies(k)
  BY CallFields DEF RefreshConditions
<1>2. /\ sync' = Idle /\ UNCHANGED <<queueVars, call, replication>> /\ budget' \in Budget
  BY BudgetTyped DEF RefreshConditions, IInv, TypeOK
<1>3. OnlyCopies /\ KeepsDest'
  <2>1. call' \in [Workers -> UNION {{call[w], Idle} : w \in Workers}]
    BY <1>2 DEF IInv, TypeOK
  <2> QED BY <1>2, <2>1, CallsEnd
<1>4. \A m \in Names : Pending(m) => Pending(m)'
  BY <1>2 DEF Pending, queueVars
<1>5. CASE UNCHANGED resourceVars
  <2>1. TypeOK'
    BY <1>2, <1>5 DEF resourceVars, queueVars, IInv, TypeOK, ResourcesIn
  <2>2. \A m \in Names : NoneDropped(m)
    BY <1>4 DEF NoneDropped
  <2> QED BY <1>3, <1>5, <2>1, <2>2, QuietInv
<1>6. CASE Current(k, v) /\ PutVersion(k, [v EXCEPT !.condition = c])
  <2>1. store[k] = v
    BY <1>1, <1>6, CurrentIsStored
  <2> DEFINE new == [v EXCEPT !.condition = c]
  <2>2. PutVersion(k, new) /\ new \in RedisClone /\ new.dest = v.dest /\ new.condition = c
    BY <1>1, <1>6, CloneFields DEF RedisClone
  <2> HIDE DEF new, k
  <2>3. PICK u \in RedisClone :
          /\ Put(k, u) /\ u.dest = v.dest /\ u.condition = c
          /\ \A d \in Copies(k) \ {Absent} : d.rv # u.rv
    BY <1>1, <2>2, PutVersionIsPut
  <2>4. TypeOK'
    BY <1>1, <1>2, <2>3, PutKeeps DEF queueVars, IInv, TypeOK
  <2>5. u.condition.dest = u.dest \/ Outdated(k)
    BY <1>1, <2>1, <2>3, CloneFields DEF Outdated
  <2> QED BY <1>1, <1>3, <1>4, <2>3, <2>4, <2>5, WriteInv
<1> QED BY <1>5, <1>6 DEF RefreshConditions, UpdateStatus

----------------------------------------------------------------------------
\* The process, users, informers and pods.

\* The queue of a new process holds every object.
LEMMA CrashInv ==
  ASSUME IInv, Crash
  PROVE  IInv'
<1>1. ResourcesIn(RedisClone)' /\ \A m \in Names : Synced(m)'
  BY RelistKeeps DEF Crash, IInv, TypeOK
<1>2. /\ cache' = store /\ store' = store /\ watch' = [n \in Names |-> <<>>]
      /\ dirty' = {n \in Names : store[n] # Absent}
      /\ processing' = {} /\ delayed' = {} /\ call' = [w \in Workers |-> Idle] /\ sync' = Idle
      /\ UNCHANGED replication /\ budget' \in Budget
  BY BudgetTyped DEF Crash, Relist, Refill, IInv, TypeOK
<1>3. TypeOK' /\ KeepsDest'
  BY <1>1, <1>2 DEF IInv, TypeOK, KeepsDest, Idle
<1>4. ASSUME NEW n \in Names PROVE Coherent(n)' /\ Carried(n)'
  <2>1. n # Idle.key
    BY CloneAbsent DEF Idle
  <2>2. \A c \in Calls' : c = Idle
    BY <1>2 DEF Calls
  <2>3. DOMAIN watch'[n] = {}
    BY <1>2
  <2>4. Copies(n)' \subseteq {store'[n]}
    BY <1>2, <2>1, <2>2, <2>3 DEF Copies
  <2> QED BY <1>2, <2>4 DEF Coherent, Carried, Outdated, Pending
<1> QED BY <1>1, <1>3, <1>4 DEF IInv

\* What users apply is an event that passes the predicate, and what they
\* delete needs no status; pods and the clock touch no object.
LEMMA EnvironmentInv ==
  ASSUME IInv, Environment
  PROVE  IInv'
<1>1. ASSUME NEW n \in Names, NEW v \in RedisClone \cup {Absent}, Put(n, v), Edit,
             UNCHANGED <<queueVars, call, sync, replication>>,
             v # Absent => \A c \in Copies(n) \ {Absent} : c.rv # v.rv,
             v = Absent \/ v.condition.dest = v.dest \/ Passes(store[n], v)
      PROVE  IInv'
  <2>1. TypeOK'
    BY <1>1, PutKeeps, BudgetTyped DEF queueVars, IInv, TypeOK
  <2>2. KeepsDest' /\ OnlyCopies
    BY <1>1 DEF IInv, KeepsDest, OnlyCopies, Calls, Copies
  <2>3. \A m \in Names : Pending(m) => Pending(m)'
    BY <1>1 DEF queueVars, Pending
  <2> QED BY <1>1, <2>1, <2>2, <2>3, WriteInv
<1>2. ASSUME NEW n \in Names, NEW d \in DestClusters, Apply(n, d)
      PROVE  IInv'
  <2> DEFINE new == IF store[n] = Absent
                    THEN [rv |-> 0, dest |-> d, condition |-> NoCondition]
                    ELSE [store[n] EXCEPT !.dest = d]
  <2>1. [rv |-> 0, dest |-> d, condition |-> NoCondition] \in RedisClone
    BY DEF RedisClone
  <2>2. store[n] # Absent => store[n] \in RedisClone
    BY DEF IInv, TypeOK, ResourcesIn
  <2>3. new \in RedisClone /\ new.dest = d
    BY <2>1, <2>2, CloneFields DEF RedisClone
  <2>4. store[n] # Absent => store[n].dest # d
    <3>1. ASSUME store[n] # Absent, store[n].dest = d PROVE [store[n] EXCEPT !.dest = d] = store[n]
      BY <2>2, <3>1 DEF RedisClone
    <3> QED BY <1>2, <3>1 DEF Apply
  <2>5. PutVersion(n, new) /\ Edit /\ UNCHANGED <<queueVars, call, sync, replication>>
    BY <1>2 DEF Apply
  <2> HIDE DEF new
  <2>6. PICK u \in RedisClone :
          /\ Put(n, u) /\ u.dest = new.dest
          /\ \A c \in Copies(n) \ {Absent} : c.rv # u.rv
    BY <2>3, <2>5, PutVersionIsPut
  <2>7. Passes(store[n], u)
    BY <2>3, <2>4, <2>6 DEF Passes
  <2> QED BY <1>1, <2>5, <2>6, <2>7
<1>3. ASSUME NEW n \in Names, Delete(n)
      PROVE  IInv'
  BY <1>1, <1>3 DEF Delete
<1>4. ASSUME NEW c \in DestClusters, MoveReplication(c)
      PROVE  IInv'
  <2>1. replication' \in [DestClusters -> Answers] /\ budget' \in Budget
    BY <1>4, BudgetTyped DEF MoveReplication, IInv, TypeOK
  <2> QED BY <1>4, <2>1, FrameInv DEF MoveReplication, IInv, TypeOK
<1> QED BY <1>2, <1>3, <1>4, CrashInv DEF Environment

\* An event that passes queues its key; a back-off only adds to the queue.
LEMMA InformerInv ==
  ASSUME IInv, NEW n \in Names, Deliver(n) \/ Retry(n)
  PROVE  IInv'
<1>1. CASE Deliver(n)
  <2>1. /\ ResourcesIn(RedisClone)' /\ \A m \in Names : Synced(m)'
        /\ \A m \in Names \ {n} : watch'[m] = watch[m] /\ cache'[m] = cache[m]
    BY <1>1, TakeEventKeeps DEF Deliver, IInv, TypeOK
  <2>2. /\ Len(watch[n]) \in Nat \ {0} /\ DOMAIN watch[n] = 1 .. Len(watch[n])
        /\ DOMAIN watch'[n] = 1 .. Len(watch[n]) - 1
        /\ cache'[n] = watch[n][1] /\ cache'[n] = Head(watch[n])
        /\ \A i \in 1 .. Len(watch[n]) - 1 : watch'[n][i] = watch[n][i + 1]
    BY <1>1, TakeEventShifts DEF Deliver, IInv, TypeOK
  <2>3. /\ dirty' = IF Passes(cache[n], Head(watch[n])) THEN dirty \cup {n} ELSE dirty
        /\ UNCHANGED <<store, processing, delayed, call, sync, replication, budget>>
    BY <1>1 DEF Deliver, Add, queueVars, TakeEvent
  <2>4. TypeOK' /\ KeepsDest'
    BY <2>1, <2>3 DEF IInv, TypeOK, KeepsDest
  <2>5. ASSUME NEW m \in Names PROVE Coherent(m)'
    <3>1. \A i \in DOMAIN watch'[m] : \E j \in DOMAIN watch[m] : watch'[m][i] = watch[m][j]
      <4>1. \A i \in 1 .. Len(watch[n]) - 1 : i + 1 \in 1 .. Len(watch[n])
        BY <2>2
      <4>2. CASE m = n
        BY <2>2, <4>1, <4>2
      <4>3. CASE m # n
        BY <2>1, <4>3
      <4> QED BY <4>2, <4>3
    <3>2. cache'[m] \in {cache[m]} \cup {watch[m][i] : i \in DOMAIN watch[m]}
      BY <2>1, <2>2
    <3>3. Copies(m)' \subseteq Copies(m)
      BY <2>3, <3>1, <3>2 DEF Copies, Calls
    <3> QED BY <2>3, <3>3 DEF IInv, Coherent
  <2>6. ASSUME NEW m \in Names \ {n} PROVE Carried(m)'
    BY <2>1, <2>3 DEF IInv, Carried, Outdated, Announced, Pending
  <2>7. Carried(n)'
    <3>1. ASSUME Announced(n), ~Passes(cache[n], Head(watch[n])) PROVE Announced(n)'
      <4>1. PICK i \in 1 .. Len(watch[n]) :
              Passes(IF i = 1 THEN cache[n] ELSE watch[n][i - 1], watch[n][i])
        BY <2>2, <3>1 DEF Announced
      <4>2. i # 1
        BY <2>2, <3>1, <4>1
      <4>3. /\ i - 1 \in DOMAIN watch'[n] /\ watch'[n][i - 1] = watch[n][i]
            /\ i - 1 # 1 => watch'[n][i - 1 - 1] = watch[n][i - 1]
            /\ i - 1 = 1 => cache'[n] = watch[n][i - 1]
        BY <2>2, <4>2
      <4> QED BY <4>1, <4>2, <4>3 DEF Announced
    <3> QED BY <2>3, <3>1 DEF IInv, Carried, Outdated, Pending
  <2> QED BY <2>1, <2>4, <2>5, <2>6, <2>7 DEF IInv
<1>2. CASE Retry(n)
  <2>1. /\ dirty' = dirty \cup {n} /\ delayed' = delayed \ {n}
        /\ UNCHANGED <<resourceVars, processing, call, sync, replication, budget>>
    BY <1>2 DEF Retry, AddDelayed
  <2>2. TypeOK' /\ KeepsDest'
    BY <2>1 DEF resourceVars, IInv, TypeOK, ResourcesIn, KeepsDest
  <2>3. OnlyCopies /\ \A m \in Names : NoneDropped(m)
    BY <2>1 DEF OnlyCopies, Calls, Copies, NoneDropped, Pending
  <2> QED BY <2>1, <2>2, <2>3, QuietInv
<1> QED BY <1>1, <1>2

\* Every step keeps the invariant.
LEMMA NextInv == IInv /\ [Next]_vars => IInv'
<1> SUFFICES ASSUME IInv, [Next]_vars PROVE IInv'
  OBVIOUS
<1>1. CASE UNCHANGED vars
  BY <1>1, FrameInv DEF vars, IInv, TypeOK
<1>2. CASE Environment
  BY <1>2, EnvironmentInv
<1>3. CASE \E n \in Names : Deliver(n) \/ Retry(n)
  BY <1>3, InformerInv
<1>4. CASE \E w \in Workers : Step(w)
  BY <1>4, ReadInv, FailsInv, UpdateInv DEF Step
<1>5. CASE \E n \in Names : Start(n)
  BY <1>5, StartInv
<1>6. CASE SyncStep
  BY <1>6, RefreshReadInv, RefreshInv DEF SyncStep
<1>7. CASE \E n \in Names : StartSync(n)
  BY <1>7, StartSyncInv
<1> QED BY <1>1, <1>2, <1>3, <1>4, <1>5, <1>6, <1>7 DEF Next

(***************************************************************************)
(* The invariant holds: a copy with the stored resourceVersion is what is  *)
(* stored, and a status that names another destination than its spec is    *)
(* with the queue, the back-off or a worker, or an event that passes the   *)
(* predicate is on its way.                                                *)
(***************************************************************************)
THEOREM CloneInvariant == Spec => []IInv
<1> QED BY InitInv, NextInv, PTL DEF Spec

(***************************************************************************)
(* At rest the status names the destination of the spec, whichever of the  *)
(* writers of the status was the last one and whatever failed.             *)
(***************************************************************************)
THEOREM DestShown == Spec => []StatusNamesDest
<1>1. IInv => StatusNamesDest
  <2> SUFFICES ASSUME IInv, NEW n \in Names, Settled(n), Outdated(n) PROVE FALSE
    BY DEF StatusNamesDest
  <2>1. ~Announced(n)
    BY DEF Settled, Announced
  <2> QED BY <2>1 DEF IInv, Carried, Settled
<1> QED BY <1>1, CloneInvariant, PTL
=============================================================================
