----------------------------- MODULE RedisClone -----------------------------
(***************************************************************************)
(* RedisCloneReconciler: the status of a RedisClone shows the state of the *)
(* replication of its destination cluster.  It has two writers.  Reconcile *)
(* rewrites the status when a RedisClone is created or its spec changes;   *)
(* CloneInfoSync, which an informer of main.go calls every five seconds    *)
(* and for each update, refreshes it.  The calls of CloneInfoSync follow   *)
(* each other, beside the workers of the controller.                       *)
(***************************************************************************)
EXTENDS CustomResource, WorkQueue, FiniteSets

CONSTANTS
  Workers,       \* the workers of the controller
  DestClusters,  \* names of destination clusters
  Offsets,       \* replication offsets
  Links,         \* what a pod reports of its link: lag and status
  LinkDown,      \* "down" and no lag, or lag -1: what is written without a report
  LagUnknown,
  NoOffset,      \* the empty offset
  NoReport,      \* the cluster has no pods, or the one that is asked does not answer
  Answers,       \* what the pods of a cluster may answer, as sets
  MaxEdits, MaxFaults, MaxMoves   \* bounds on the environment

ASSUME CloneAssumption ==
  /\ {MaxEdits, MaxFaults, MaxMoves} \subseteq Nat
  /\ {LinkDown, LagUnknown} \cap Links = {}
  /\ NoOffset \notin Offsets
  /\ IsFiniteSet(Workers)

(***************************************************************************)
(* The CloneCondition; of the fields copied from the spec it keeps the     *)
(* destination.  StartTime is empty in NoCondition only.                   *)
(***************************************************************************)
CloneCondition == [dest : DestClusters, offset : Offsets \cup {NoOffset},
                   link : Links \cup {LinkDown, LagUnknown}]
Started == [dest : DestClusters, offset : {NoOffset}, link : {Absent}]
NoCondition == [dest |-> Absent, offset |-> NoOffset, link |-> Absent]
RedisClone == [rv : Nat, dest : DestClusters, condition : CloneCondition \cup {NoCondition}]

ASSUME CloneAbsent ==
  /\ Absent \notin RedisClone \cup Names \cup CloneCondition \cup DestClusters
  /\ Absent \notin Links \cup {LinkDown, LagUnknown}

(***************************************************************************)
(* INFO replication of one pod of a cluster.  The first of the listed pods *)
(* is asked; the cache lists them in no particular order and none is       *)
(* picked by its role, so that it is any of them, and a cluster answers a  *)
(* set.                                                                    *)
(***************************************************************************)
Report == [offset : Offsets, link : Links]
Replications == Report \cup {NoReport}

ASSUME AnswersAssumption == Answers \subseteq (SUBSET Replications) \ {{}}

VARIABLES
  call,          \* call[w]: the call of Reconcile in progress in worker w
  sync,          \* the call of CloneInfoSync in progress
  replication,   \* replication[c]: what the pods of cluster c answer
  budget         \* what is left of the bounds

vars == <<resourceVars, queueVars, call, sync, replication, budget>>

Idle == [pc |-> "idle", key |-> Absent, inst |-> Absent, condition |-> Absent]

\* The calls that have a condition in C before they read the replication.
Busy(C) == [pc : {"pods"}, key : Names, inst : RedisClone, condition : C]
           \cup [pc : {"update"}, key : Names, inst : RedisClone, condition : CloneCondition]
Budget == [edits : Nat, faults : Nat, moves : Nat]

TypeOK ==
  /\ ResourcesIn(RedisClone)
  /\ dirty \subseteq Names /\ processing \subseteq Names /\ delayed \subseteq Names
  /\ call \in [Workers -> Busy(CloneCondition) \cup {Idle}]
  /\ sync \in Busy(CloneCondition \cup Started) \cup {Idle}
  /\ replication \in [DestClusters -> Answers]
  /\ budget \in Budget

Init ==
  /\ InitResources
  /\ InitWorkQueue
  /\ call = [w \in Workers |-> Idle]
  /\ sync = Idle
  /\ \E r \in Answers : replication = [c \in DestClusters |-> r]
  /\ budget = [edits |-> MaxEdits, faults |-> MaxFaults, moves |-> MaxMoves]

\* The calls that write a status, and the copies there are of n.
Calls == {call[w] : w \in Workers} \cup {sync}
Copies(n) ==
  {store[n], cache[n]} \cup {watch[n][i] : i \in DOMAIN watch[n]}
  \cup {c.inst : c \in {c \in Calls : c.key = n}}

(***************************************************************************)
(* A resourceVersion is only ever compared with the stored one, so that a  *)
(* new version may take the least number that no copy has.                 *)
(***************************************************************************)
PutVersion(n, v) ==
  LET used == {c.rv : c \in Copies(n) \ {Absent}}
  IN  \E r \in 1 .. MaxLag + 4 + Cardinality(Workers) :
        /\ r \notin used /\ 1 .. r - 1 \subseteq used
        /\ Put(n, [v EXCEPT !.rv = r])

Fault ==
  /\ budget.faults > 0
  /\ budget' = [budget EXCEPT !.faults = @ - 1]

----------------------------------------------------------------------------
\* Reconcile.

Return(w) ==
  /\ call' = [call EXCEPT ![w] = Idle]
  /\ Done(call[w].key)

Fail(w) ==
  /\ call' = [call EXCEPT ![w] = Idle]
  /\ DoneWithError(call[w].key)

\* The condition is made anew.
StartReconcile(w, n) ==
  /\ call[w].pc = "idle"
  /\ Get(n)
  /\ cache[n] # Absent
  /\ call' = [call EXCEPT ![w] =
       [pc |-> "pods", key |-> n, inst |-> cache[n],
        condition |-> [dest |-> cache[n].dest, offset |-> NoOffset, link |-> LinkDown]]]
  /\ UNCHANGED <<resourceVars, sync, replication, budget>>

ReconcileNothing(w, n) ==
  /\ call[w].pc = "idle"
  /\ n \in dirty \ processing
  /\ cache[n] = Absent
  /\ dirty' = dirty \ {n}
  /\ UNCHANGED <<resourceVars, processing, delayed, call, sync, replication, budget>>

\* Without pods and without an answer the condition says that the link is down.
Shown(condition, found) ==
  IF found \in Report
  THEN [condition EXCEPT !.offset = found.offset, !.link = found.link]
  ELSE condition

ReadReplication(w) ==
  /\ call[w].pc = "pods"
  /\ \E found \in replication[call[w].inst.dest] :
       call' = [call EXCEPT ![w].pc = "update", ![w].condition = Shown(@, found)]
  /\ UNCHANGED <<resourceVars, queueVars, sync, replication, budget>>

\* Mutated form of PodListFails: the error is logged and swallowed.
PodListFailsQuietly(w) ==
  /\ call[w].pc = "pods"
  /\ Fault
  /\ Return(w)
  /\ UNCHANGED <<resourceVars, sync, replication>>

PodListFails(w) ==
  /\ call[w].pc = "pods"
  /\ Fault
  /\ Fail(w)
  /\ UNCHANGED <<resourceVars, sync, replication>>

\* Mutated form of Current: an update is accepted for any version.
CurrentAnyVersion(n, v) == store[n] # Absent

\* An update is accepted for the stored version only.
Current(n, v) == store[n] # Absent /\ store[n].rv = v.rv

(***************************************************************************)
(* An update that changes nothing is no write.  It may be one all the same *)
(* when only StartTime, which is not modelled, is another second.          *)
(***************************************************************************)
UpdateStatus(c, anew) ==
  \/ c.condition = c.inst.condition /\ UNCHANGED resourceVars
  \/ /\ c.condition # c.inst.condition \/ anew
     /\ PutVersion(c.key, [c.inst EXCEPT !.condition = c.condition])

UpdateConditions(w) ==
  /\ call[w].pc = "update"
  /\ Current(call[w].key, call[w].inst)
  /\ UpdateStatus(call[w], TRUE)
  /\ Return(w)
  /\ UNCHANGED <<sync, replication, budget>>

UpdateFails(w) ==
  /\ call[w].pc = "update"
  /\ \/ ~Current(call[w].key, call[w].inst) /\ UNCHANGED budget
     \/ Fault
  /\ Fail(w)
  /\ UNCHANGED <<resourceVars, sync, replication>>

----------------------------------------------------------------------------
\* CloneInfoSync.

\* The condition of the status, filled in from the spec when it has no StartTime.
StartSync(n) ==
  /\ sync.pc = "idle"
  /\ cache[n] # Absent
  /\ LET old == cache[n].condition
     IN  sync' = [pc |-> "pods", key |-> n, inst |-> cache[n],
                  condition |-> IF old = NoCondition THEN [old EXCEPT !.dest = cache[n].dest]
                                ELSE old]
  /\ UNCHANGED <<resourceVars, queueVars, call, replication, budget>>

\* Mutated form of Refreshed: what there is in the status is good enough.
RefreshedOnce(condition, found) ==
  IF condition.link # Absent THEN condition
  ELSE IF found \in Report
       THEN [condition EXCEPT !.offset = found.offset, !.link = found.link]
       ELSE [condition EXCEPT !.link = LagUnknown]

\* Without pods and without an answer the offset stays.
Refreshed(condition, found) ==
  IF found \in Report
  THEN [condition EXCEPT !.offset = found.offset, !.link = found.link]
  ELSE [condition EXCEPT !.link = LagUnknown]

RefreshReplication ==
  /\ sync.pc = "pods"
  /\ \E found \in replication[sync.inst.dest] :
       sync' = [sync EXCEPT !.pc = "update", !.condition = Refreshed(@, found)]
  /\ UNCHANGED <<resourceVars, queueVars, call, replication, budget>>

\* Whatever the update answers, the call ends with nil.
RefreshConditions ==
  /\ sync.pc = "update"
  /\ \/ /\ Current(sync.key, sync.inst)
        /\ UpdateStatus(sync, FALSE)
        /\ UNCHANGED budget
     \/ /\ ~Current(sync.key, sync.inst)
        /\ UNCHANGED <<resourceVars, budget>>
     \/ Fault /\ UNCHANGED resourceVars
  /\ sync' = Idle
  /\ UNCHANGED <<queueVars, call, replication>>

----------------------------------------------------------------------------
\* The process, users, informers and pods.

\* Also the fatal error of CloneInfoSync, whose List of pods has failed.
Crash ==
  /\ Fault
  /\ Relist
  /\ Refill({n \in Names : store[n] # Absent})
  /\ call' = [w \in Workers |-> Idle]
  /\ sync' = Idle
  /\ UNCHANGED replication

Edit ==
  /\ budget.edits > 0
  /\ budget' = [budget EXCEPT !.edits = @ - 1]

Apply(n, dest) ==
  LET new == IF store[n] = Absent
             THEN [rv |-> 0, dest |-> dest, condition |-> NoCondition]
             ELSE [store[n] EXCEPT !.dest = dest]
  IN  /\ new # store[n]
      /\ Edit
      /\ PutVersion(n, new)
      /\ UNCHANGED <<queueVars, call, sync, replication>>

Delete(n) ==
  /\ store[n] # Absent
  /\ Edit
  /\ Put(n, Absent)
  /\ UNCHANGED <<queueVars, call, sync, replication>>

(***************************************************************************)
(* GenerationChangedPredicate: an event that follows old with new starts a *)
(* call if the object is created or deleted, or its spec has changed.      *)
(***************************************************************************)
Passes(old, new) == IF Absent \in {old, new} THEN TRUE ELSE old.dest # new.dest

\* Resyncs bring the same version again, and pass as little as a status does.
Deliver(n) ==
  /\ TakeEvent(n)
  /\ IF Passes(cache[n], Head(watch[n])) THEN Add(n) ELSE UNCHANGED queueVars
  /\ UNCHANGED <<call, sync, replication, budget>>

Retry(n) ==
  /\ AddDelayed(n)
  /\ UNCHANGED <<resourceVars, call, sync, replication, budget>>

MoveReplication(c) ==
  /\ budget.moves > 0
  /\ budget' = [budget EXCEPT !.moves = @ - 1]
  /\ \E r \in Answers \ {replication[c]} : replication' = [replication EXCEPT ![c] = r]
  /\ UNCHANGED <<resourceVars, queueVars, call, sync>>

----------------------------------------------------------------------------
Step(w) == ReadReplication(w) \/ PodListFails(w) \/ UpdateConditions(w) \/ UpdateFails(w)

Start(n) == \E w \in Workers : StartReconcile(w, n) \/ ReconcileNothing(w, n)

SyncStep == RefreshReplication \/ RefreshConditions

Environment ==
  \/ \E n \in Names : Delete(n) \/ \E c \in DestClusters : Apply(n, c)
  \/ \E c \in DestClusters : MoveReplication(c)
  \/ Crash

Next ==
  \/ Environment
  \/ \E n \in Names : Deliver(n) \/ Retry(n)
  \/ \E w \in Workers : Step(w)
  \/ \E n \in Names : Start(n)
  \/ SyncStep \/ \E n \in Names : StartSync(n)

Spec == Init /\ [][Next]_vars

(***************************************************************************)
(* The workers and CloneInfoSync go on with their calls and take each key  *)
(* in its turn, events are delivered and a back-off elapses.               *)
(***************************************************************************)
Fairness ==
  /\ WF_vars(SyncStep) /\ \A w \in Workers : WF_vars(Step(w))
  /\ \A n \in Names : SF_vars(Start(n)) /\ SF_vars(StartSync(n)) /\ WF_vars(Deliver(n)) /\ WF_vars(Retry(n))

FairSpec == Spec /\ Fairness

----------------------------------------------------------------------------
\* Properties.

\* n is queued, delayed or being worked on.
Pending(n) == n \in dirty \cup processing \cup delayed

\* Nor is anything about n on its way.
Settled(n) == ~Pending(n) /\ watch[n] = <<>>

\* The status names another destination than the spec.
Outdated(n) == store[n] # Absent /\ store[n].condition.dest # store[n].dest

(***************************************************************************)
(* When the operator is at rest, the status names the destination of the   *)
(* spec, though no event follows a status that is written over: the call   *)
(* of Reconcile that a change of the spec has started ends without an      *)
(* error only once it has written the destination, and CloneInfoSync,      *)
(* which keeps the destination it finds, does not bring an old one back.   *)
(***************************************************************************)
StatusNamesDest ==
  \A n \in Names : Settled(n) => ~Outdated(n)

\* The condition says what one of the pods of cluster c answers.
Tells(condition, c) ==
  \E found \in replication[c] :
    IF found \in Report
    THEN condition.offset = found.offset /\ condition.link = found.link
    ELSE condition.link \in {LinkDown, LagUnknown}

(***************************************************************************)
(* When the replication of a cluster stays as it is, the status ends up    *)
(* telling what one of its pods answers, and when they agree that is what  *)
(* all of them do: what none answers any more goes, though nothing tells   *)
(* the operator of the change and the two writers may refuse each other's  *)
(* versions.  Where the pods differ it may go from one to another forever. *)
(***************************************************************************)
StatusTellsReplication ==
  \A n \in Names, c \in DestClusters :
    <>[](store[n] # Absent /\ store[n].dest = c)
      => <>[](store[n] # Absent /\ Tells(store[n].condition, c))

(***************************************************************************)
(* The inductive invariant behind StatusNamesDest.  A copy with the stored *)
(* resourceVersion is what is stored.  A call of Reconcile writes the      *)
(* destination it has read, and CloneInfoSync that of the status it has    *)
(* read or the same.  When the status names another destination than the   *)
(* spec, an event that passes the predicate is on its way, or the key is   *)
(* with the queue, the back-off or a worker.                               *)
(***************************************************************************)
Coherent(n) ==
  \A v \in Copies(n) \ {Absent} :
    store[n] # Absent /\ v.rv = store[n].rv => v = store[n]

KeepsDest ==
  /\ \A w \in Workers : call[w].pc # "idle" => call[w].condition.dest = call[w].inst.dest
  /\ sync.pc # "idle" => sync.condition.dest \in {sync.inst.dest, sync.inst.condition.dest}

Announced(n) ==
  \E i \in DOMAIN watch[n] :
    Passes(IF i = 1 THEN cache[n] ELSE watch[n][i - 1], watch[n][i])

Carried(n) == Outdated(n) => Announced(n) \/ Pending(n)

IInv ==
  /\ TypeOK /\ KeepsDest
  /\ \A n \in Names : Synced(n) /\ Coherent(n) /\ Carried(n)
============================================================================
