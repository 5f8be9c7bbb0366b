------------------------- MODULE RedisOperateProofs -------------------------
(***************************************************************************)
(* Proofs about RedisOperate, for any number of Redisoperates and clusters *)
(* and any bounds on the environment: IInv is inductive, and no request is *)
(* left lying.                                                             *)
(*                                                                         *)
(* The proof has one lemma for each group of actions.  A call ends without *)
(* an error in two ways.  Either it has seen no request, and then there is *)
(* none in the cache unless the key is queued again (ReadFromCache); or it *)
(* has taken the flag back, and then either the flag was already down or   *)
(* an event is on its way, which queues the key again (Synced).            *)
(***************************************************************************)
EXTENDS RedisOperate, CustomResourceProofs

\* What the fields of a Redisoperate hold.
LEMMA OperateFields ==
  ASSUME NEW v \in Redisoperate
  PROVE  /\ v.cluster \in Clusters /\ v.flag \in {0, 1} /\ v # Absent
         /\ Patched(v) \in Redisoperate
         /\ \A c \in Clusters, f \in {0, 1} :
              [v EXCEPT !.cluster = c, !.flag = f] \in Redisoperate
         /\ v.flag = 1 => Patched(v) # v
<1>1. v # Absent
  BY OperateAbsent
<1>2. Patched(v).flag = 0
  BY DEF Redisoperate, Patched
<1>3. v.cluster \in Clusters /\ v.flag \in {0, 1} /\ Patched(v) \in Redisoperate
  BY DEF Redisoperate, Patched
<1>4. ASSUME NEW c \in Clusters, NEW f \in {0, 1}
      PROVE  [v EXCEPT !.cluster = c, !.flag = f] \in Redisoperate
  BY DEF Redisoperate
<1>5. v.flag = 1 => Patched(v) # v
  BY <1>2
<1>6. \A c \in Clusters, f \in {0, 1} : [v EXCEPT !.cluster = c, !.flag = f] \in Redisoperate
  BY <1>4
<1> QED BY <1>1, <1>3, <1>5, <1>6

\* The call that a key in process names is the one there is.
LEMMA OneCall ==
  ASSUME IInv
  PROVE  /\ call.pc = "idle" => processing = {} /\ call = Idle
         /\ call.pc # "idle" => /\ processing = {call.key} /\ call.key \in Names
                                /\ call.inst \in Redisoperate
                                /\ call.pc \in {"list", "failover", "patch"}
<1>1. CASE call.pc = "idle"
  BY <1>1 DEF IInv, TypeOK, CallOf, Busy
<1>2. CASE call.pc # "idle"
  BY <1>2 DEF IInv, TypeOK, CallOf, Busy, Idle
<1> QED BY <1>1, <1>2

\* The initial states satisfy the invariant.
LEMMA InitInv == Init => IInv
<1> SUFFICES ASSUME Init PROVE IInv
  OBVIOUS
<1>1. ResourcesIn(Redisoperate) /\ \A n \in Names : Synced(n) /\ cache[n] = Absent
  BY InitKeeps DEF Init
<1>2. budget \in Budget
  BY OperateAssumption DEF Init, OperateAssumption, Budget
<1>3. TypeOK
  BY <1>1, <1>2 DEF Init, InitWorkQueue, TypeOK
<1>4. ASSUME NEW n \in Names PROVE CallOf(n) /\ ReadFromCache(n) /\ Carried(n)
  BY <1>1 DEF Init, InitWorkQueue, CallOf, ReadFromCache, Carried, Idle
<1> QED BY <1>1, <1>3, <1>4 DEF IInv

\* A step that changes the environment only.
LEMMA FrameInv ==
  ASSUME IInv, UNCHANGED <<resourceVars, queueVars, call>>,
         sentinels' \subseteq Clusters, budget' \in Budget
  PROVE  IInv'
BY DEF IInv, TypeOK, ResourcesIn, Synced, CallOf, ReadFromCache, Carried, resourceVars, queueVars

\* A bound that is not used up may be lowered.
LEMMA BudgetTyped ==
  ASSUME TypeOK
  PROVE  /\ Fault => budget' \in Budget
         /\ Edit => budget' \in Budget
         /\ budget.moves > 0 => [budget EXCEPT !.moves = @ - 1] \in Budget
BY DEF TypeOK, Budget, Fault, Edit

\* The start of a call reads the cache; a key without an object leaves the queue.
LEMMA StartInv ==
  ASSUME IInv, NEW n \in Names, Start(n)
  PROVE  IInv'
<1>1. CASE StartReconcile(n)
  <2>1. cache[n] \in Redisoperate
    BY <1>1 DEF StartReconcile, IInv, TypeOK, ResourcesIn
  <2>2. /\ dirty' = dirty \ {n} /\ processing' = {n} /\ delayed' = delayed
        /\ call' = [pc |-> "list", key |-> n, inst |-> cache[n]] /\ call' \in Busy
    BY <1>1, <2>1, OneCall DEF StartReconcile, Get, Busy
  <2>3. TypeOK'
    BY <1>1, <2>2 DEF StartReconcile, resourceVars, IInv, TypeOK, ResourcesIn
  <2>4. ASSUME NEW m \in Names
        PROVE  Synced(m)' /\ CallOf(m)' /\ ReadFromCache(m)' /\ Carried(m)'
    BY <1>1, <2>2 DEF StartReconcile, resourceVars, IInv, Synced, CallOf, ReadFromCache, Carried
  <2> QED BY <2>3, <2>4 DEF IInv
<1>2. CASE ReconcileNothing(n)
  <2>1. TypeOK'
    BY <1>2 DEF ReconcileNothing, resourceVars, IInv, TypeOK, ResourcesIn
  <2>2. ASSUME NEW m \in Names
        PROVE  Synced(m)' /\ CallOf(m)' /\ ReadFromCache(m)' /\ Carried(m)'
    BY <1>2, OneCall
    DEF ReconcileNothing, resourceVars, IInv, Synced, CallOf, ReadFromCache, Carried
  <2> QED BY <2>1, <2>2 DEF IInv
<1> QED BY <1>1, <1>2 DEF Start

\* The call lists the sentinels, and ends here when no flag is up.
LEMMA ListInv ==
  ASSUME IInv, ListSentinels
  PROVE  IInv'
<1> DEFINE k == call.key
<1>1. /\ processing = {k} /\ k \in Names /\ call.inst \in Redisoperate
  BY OneCall DEF ListSentinels
<1>2. CASE call.inst.flag # 1 /\ Return
  <2>1. TypeOK'
    BY <1>2 DEF ListSentinels, Return, Done, resourceVars, IInv, TypeOK, ResourcesIn
  <2>2. ASSUME NEW m \in Names PROVE Synced(m)' /\ CallOf(m)' /\ ReadFromCache(m)'
    BY <1>1, <1>2 DEF ListSentinels, Return, Done, resourceVars, IInv, Synced, CallOf,
      ReadFromCache, Idle
  <2>3. ASSUME NEW m \in Names PROVE Carried(m)'
    BY <1>1, <1>2 DEF ListSentinels, Return, Done, resourceVars, IInv, ReadFromCache, Carried
  <2> QED BY <2>1, <2>2, <2>3 DEF IInv
<1>3. CASE call' = [call EXCEPT !.pc = "failover"] /\ UNCHANGED queueVars
  <2>1. call' \in Busy /\ call'.key = call.key /\ call'.inst = call.inst /\ call'.pc = "failover"
    BY <1>3, OneCall DEF ListSentinels, IInv, TypeOK, Busy, Idle
  <2>2. TypeOK'
    BY <1>3, <2>1 DEF ListSentinels, resourceVars, queueVars, IInv, TypeOK, ResourcesIn
  <2>3. ASSUME NEW m \in Names
        PROVE  Synced(m)' /\ CallOf(m)' /\ ReadFromCache(m)' /\ Carried(m)'
    BY <1>3, <2>1
    DEF ListSentinels, resourceVars, queueVars, IInv, Synced, CallOf, ReadFromCache, Carried
  <2> QED BY <2>2, <2>3 DEF IInv
<1> QED BY <1>2, <1>3 DEF ListSentinels

\* The failover leaves the objects and the queue alone.
LEMMA FailOverInv ==
  ASSUME IInv, FailOverOperate
  PROVE  IInv'
<1>1. call' \in Busy /\ call'.key = call.key /\ call'.inst = call.inst /\ call'.pc = "patch"
  BY OneCall DEF FailOverOperate, IInv, TypeOK, Busy, Idle
<1>2. TypeOK'
  BY <1>1 DEF FailOverOperate, resourceVars, queueVars, IInv, TypeOK, ResourcesIn
<1>3. ASSUME NEW m \in Names
      PROVE  Synced(m)' /\ CallOf(m)' /\ ReadFromCache(m)' /\ Carried(m)'
  BY <1>1 DEF FailOverOperate, resourceVars, queueVars, IInv, Synced, CallOf, ReadFromCache, Carried
<1> QED BY <1>2, <1>3 DEF IInv

\* The patch ends the call: the flag is down already, or the write is an event.
LEMMA PatchInv ==
  ASSUME IInv, Patch
  PROVE  IInv'
<1> DEFINE k == call.key
<1>1. processing = {k} /\ k \in Names
  BY OneCall DEF Patch
<1>2. /\ call' = Idle /\ processing' = {} /\ UNCHANGED <<dirty, delayed, sentinels, budget>>
  BY <1>1 DEF Patch, Return, Done
<1>3. store[k] \in Redisoperate
  BY <1>1 DEF Patch, IInv, TypeOK, ResourcesIn
<1>4. CASE Patched(store[k]) = store[k] /\ UNCHANGED resourceVars
  <2>1. store[k].flag # 1
    BY <1>3, <1>4, OperateFields
  <2>2. TypeOK'
    BY <1>2, <1>4 DEF resourceVars, IInv, TypeOK, ResourcesIn
  <2>3. ASSUME NEW m \in Names PROVE Synced(m)' /\ CallOf(m)' /\ ReadFromCache(m)'
    BY <1>2, <1>4 DEF resourceVars, IInv, Synced, CallOf, ReadFromCache, Idle
  <2>4. ASSUME NEW m \in Names PROVE Carried(m)'
    BY <1>1, <1>2, <1>4, <2>1 DEF resourceVars, IInv, Synced, Carried
  <2> QED BY <2>2, <2>3, <2>4 DEF IInv
<1>5. CASE Put(k, Patched(store[k]))
  <2>1. /\ ResourcesIn(Redisoperate)' /\ \A m \in Names : Synced(m)'
        /\ watch'[k] # <<>> /\ cache' = cache
        /\ \A m \in Names \ {k} : watch'[m] = watch[m]
    BY <1>1, <1>3, <1>5, OperateFields, PutKeeps DEF IInv, TypeOK
  <2>2. TypeOK'
    BY <1>2, <2>1 DEF IInv, TypeOK
  <2>3. ASSUME NEW m \in Names PROVE CallOf(m)' /\ ReadFromCache(m)' /\ Carried(m)'
    BY <1>1, <1>2, <2>1 DEF IInv, CallOf, ReadFromCache, Carried, Idle
  <2> QED BY <2>1, <2>2, <2>3 DEF IInv
<1> QED BY <1>4, <1>5 DEF Patch

\* A patch that fails leaves the key to the back-off.
LEMMA PatchFailsInv ==
  ASSUME IInv, PatchFails
  PROVE  IInv'
<1>1. processing = {call.key} /\ call.key \in Names
  BY OneCall DEF PatchFails
<1>2. budget' \in Budget
  BY BudgetTyped DEF PatchFails, IInv, TypeOK
<1>3. /\ call' = Idle /\ processing' = {} /\ delayed' = delayed \cup {call.key}
      /\ UNCHANGED <<resourceVars, dirty, sentinels>>
  BY <1>1 DEF PatchFails, Fail, DoneWithError
<1>4. TypeOK'
  BY <1>1, <1>2, <1>3 DEF resourceVars, IInv, TypeOK, ResourcesIn
<1>5. ASSUME NEW m \in Names
      PROVE  Synced(m)' /\ CallOf(m)' /\ ReadFromCache(m)' /\ Carried(m)'
  BY <1>1, <1>3 DEF resourceVars, IInv, Synced, CallOf, ReadFromCache, Carried, Idle
<1> QED BY <1>4, <1>5 DEF IInv

\* The queue of a new process holds every object.
LEMMA RestartInv ==
  ASSUME IInv, Restart, budget' \in Budget
  PROVE  IInv'
<1>1. ResourcesIn(Redisoperate)' /\ \A m \in Names : Synced(m)'
  BY RelistKeeps DEF Restart, IInv, TypeOK
<1>2. /\ cache' = store /\ dirty' = {n \in Names : store[n] # Absent}
      /\ processing' = {} /\ delayed' = {} /\ call' = Idle
      /\ UNCHANGED sentinels
  BY DEF Restart, Relist, Refill
<1>3. TypeOK'
  BY <1>1, <1>2 DEF IInv, TypeOK
<1>4. ASSUME NEW m \in Names PROVE CallOf(m)' /\ ReadFromCache(m)' /\ Carried(m)'
  BY <1>2 DEF CallOf, ReadFromCache, Carried, Idle
<1> QED BY <1>1, <1>3, <1>4 DEF IInv

\* A write of a user is an event.
LEMMA UserInv ==
  ASSUME IInv, NEW n \in Names, NEW v \in Redisoperate \cup {Absent}, Put(n, v), Edit,
         UNCHANGED <<queueVars, call, sentinels>>
  PROVE  IInv'
<1>1. /\ ResourcesIn(Redisoperate)' /\ \A m \in Names : Synced(m)'
      /\ watch'[n] # <<>> /\ cache' = cache
      /\ \A m \in Names \ {n} : watch'[m] = watch[m]
  BY PutKeeps DEF IInv, TypeOK
<1>2. TypeOK'
  BY <1>1, BudgetTyped DEF queueVars, IInv, TypeOK
<1>3. ASSUME NEW m \in Names PROVE CallOf(m)' /\ ReadFromCache(m)' /\ Carried(m)'
  BY <1>1 DEF queueVars, IInv, CallOf, ReadFromCache, Carried
<1> QED BY <1>1, <1>2, <1>3 DEF IInv

\* What a user applies or deletes is such a write.
LEMMA EnvironmentInv ==
  ASSUME IInv, Environment
  PROVE  IInv'
<1>1. ASSUME NEW n \in Names, NEW c \in Clusters, NEW f \in {0, 1}, Apply(n, c, f)
      PROVE  IInv'
  <2> DEFINE new == IF store[n] = Absent THEN [cluster |-> c, flag |-> f]
                    ELSE [store[n] EXCEPT !.cluster = c, !.flag = f]
  <2>1. [cluster |-> c, flag |-> f] \in Redisoperate
    BY DEF Redisoperate
  <2>2. store[n] # Absent => store[n] \in Redisoperate
    BY DEF IInv, TypeOK, ResourcesIn
  <2>3. new \in Redisoperate
    BY <2>1, <2>2, OperateFields
  <2>4. Put(n, new) /\ Edit /\ UNCHANGED <<queueVars, call, sentinels>>
    BY <1>1 DEF Apply
  <2> HIDE DEF new
  <2> QED BY <2>3, <2>4, UserInv
<1>2. ASSUME NEW n \in Names, Delete(n)
      PROVE  IInv'
  BY <1>2, UserInv DEF Delete
<1>3. ASSUME NEW c \in Clusters, MoveSentinel(c)
      PROVE  IInv'
  <2>1. sentinels' \subseteq Clusters /\ budget' \in Budget
    BY <1>3, BudgetTyped DEF MoveSentinel, IInv, TypeOK
  <2> QED BY <1>3, <2>1, FrameInv DEF MoveSentinel, IInv, TypeOK
<1> QED BY <1>1, <1>2, <1>3 DEF Environment

\* An event queues its key; a back-off and a resync only add to the queue.
LEMMA InformerInv ==
  ASSUME IInv, NEW n \in Names, Deliver(n) \/ Retry(n) \/ Resync(n)
  PROVE  IInv'
<1>1. CASE Deliver(n)
  <2>1. /\ ResourcesIn(Redisoperate)' /\ \A m \in Names : Synced(m)'
        /\ \A m \in Names \ {n} : watch'[m] = watch[m] /\ cache'[m] = cache[m]
    BY <1>1, TakeEventKeeps DEF Deliver, IInv, TypeOK
  <2>2. /\ dirty' = dirty \cup {n}
        /\ UNCHANGED <<processing, delayed, call, sentinels, budget>>
    BY <1>1 DEF Deliver, Add
  <2>3. TypeOK'
    BY <2>1, <2>2 DEF IInv, TypeOK
  <2>4. ASSUME NEW m \in Names PROVE CallOf(m)' /\ ReadFromCache(m)' /\ Carried(m)'
    BY <2>1, <2>2 DEF IInv, CallOf, ReadFromCache, Carried
  <2> QED BY <2>1, <2>3, <2>4 DEF IInv
<1>2. CASE Retry(n) \/ Resync(n)
  <2>1. /\ dirty' = dirty \cup {n} /\ delayed' \in {delayed, delayed \ {n}}
        /\ UNCHANGED <<resourceVars, processing, call, sentinels, budget>>
    BY <1>2 DEF Retry, AddDelayed, Resync, Add
  <2>2. TypeOK'
    BY <2>1 DEF resourceVars, IInv, TypeOK, ResourcesIn
  <2>3. ASSUME NEW m \in Names
        PROVE  Synced(m)' /\ CallOf(m)' /\ ReadFromCache(m)' /\ Carried(m)'
    BY <2>1 DEF resourceVars, IInv, Synced, CallOf, ReadFromCache, Carried
  <2> QED BY <2>2, <2>3 DEF IInv
<1> QED BY <1>1, <1>2

\* Every step keeps the invariant.
LEMMA NextInv == IInv /\ [Next]_vars => IInv'
<1> SUFFICES ASSUME IInv, [Next]_vars PROVE IInv'
  OBVIOUS
<1>1. CASE UNCHANGED vars
  BY <1>1, FrameInv DEF vars, IInv, TypeOK
<1>2. CASE Environment
  BY <1>2, EnvironmentInv
<1>3. CASE \E n \in Names : Deliver(n) \/ Retry(n) \/ Resync(n)
  BY <1>3, InformerInv
<1>4. CASE Step
  BY <1>4, ListInv, FailOverInv, PatchInv, PatchFailsInv DEF Step
<1>5. CASE \E n \in Names : Start(n)
  BY <1>5, StartInv
<1>6. CASE Crash
  BY <1>6, BudgetTyped, RestartInv DEF Crash, IInv
<1>7. CASE Panic
  <2>1. budget' \in Budget
    BY <1>7, BudgetTyped DEF Panic, IInv, TypeOK
  <2> QED BY <1>7, <2>1, RestartInv DEF Panic
<1> QED BY <1>1, <1>2, <1>3, <1>4, <1>5, <1>6, <1>7 DEF Next

(***************************************************************************)
(* The invariant holds: what the call of Reconcile has read of the cache,  *)
(* the queue and the events on their way together account for each request *)
(* in the cache.                                                           *)
(***************************************************************************)
THEOREM OperateInvariant == Spec => []IInv
<1> QED BY InitInv, NextInv, PTL DEF Spec

(***************************************************************************)
(* A request to fail over is not left lying, whatever fails or crashes: at *)
(* rest the cache is what is stored, so that a flag that is up would be    *)
(* with the queue, the back-off or the call.                               *)
(***************************************************************************)
THEOREM RequestNotForgotten == Spec => []NeverForgetsRequest
<1>1. IInv => NeverForgetsRequest
  <2> SUFFICES ASSUME IInv, NEW n \in Names, Settled(n), store[n] # Absent
               PROVE  store[n].flag = 0
    BY DEF NeverForgetsRequest
  <2>1. watch[n] = <<>> /\ cache[n] = store[n]
    BY DEF IInv, Synced, Settled
  <2>2. store[n] \in Redisoperate
    BY DEF IInv, TypeOK, ResourcesIn
  <2>3. store[n].flag # 1
    BY <2>1 DEF IInv, Carried, Settled
  <2> QED BY <2>2, <2>3, OperateFields
<1> QED BY <1>1, OperateInvariant, PTL
=============================================================================
