---------------------------- MODULE RedisOperate ----------------------------
(***************************************************************************)
(* RedisoperateReconciler: a user asks for a failover of a Redis cluster   *)
(* by setting failoverFlag to 1; Reconcile sends SENTINEL FAILOVER to a    *)
(* sentinel of the cluster and takes the flag back with a patch.  The      *)
(* controller has one worker.                                              *)
(***************************************************************************)
EXTENDS CustomResource, WorkQueue

CONSTANTS
  Clusters,    \* names of Redis clusters
  MaxEdits, MaxFaults, MaxMoves   \* bounds on the environment

ASSUME OperateAssumption == {MaxEdits, MaxFaults, MaxMoves} \subseteq Nat

Redisoperate == [cluster : Clusters, flag : {0, 1}]

ASSUME OperateAbsent == Absent \notin Redisoperate \cup Names \cup Clusters

VARIABLES
  call,        \* the call of Reconcile in progress
  sentinels,   \* clusters that have a sentinel pod, as the pod informer has it
  budget       \* what is left of the bounds

vars == <<resourceVars, queueVars, call, sentinels, budget>>

Idle == [pc |-> "idle", key |-> Absent, inst |-> Absent]
Busy == [pc : {"list", "failover", "patch"}, key : Names, inst : Redisoperate]
Budget == [edits : Nat, faults : Nat, moves : Nat]

TypeOK ==
  /\ ResourcesIn(Redisoperate)
  /\ dirty \subseteq Names /\ processing \subseteq Names /\ delayed \subseteq Names
  /\ call \in Busy \cup {Idle}
  /\ sentinels \subseteq Clusters
  /\ budget \in Budget

Init ==
  /\ InitResources
  /\ InitWorkQueue
  /\ call = Idle
  /\ sentinels \in SUBSET Clusters
  /\ budget = [edits |-> MaxEdits, faults |-> MaxFaults, moves |-> MaxMoves]

Fault ==
  /\ budget.faults > 0
  /\ budget' = [budget EXCEPT !.faults = @ - 1]

----------------------------------------------------------------------------
\* Reconcile.

Return ==
  /\ call' = Idle
  /\ Done(call.key)

Fail ==
  /\ call' = Idle
  /\ DoneWithError(call.key)

StartReconcile(n) ==
  /\ call.pc = "idle"
  /\ Get(n)
  /\ cache[n] # Absent
  /\ call' = [pc |-> "list", key |-> n, inst |-> cache[n]]
  /\ UNCHANGED <<resourceVars, sentinels, budget>>

ReconcileNothing(n) ==
  /\ call.pc = "idle"
  /\ n \in dirty \ processing
  /\ cache[n] = Absent
  /\ dirty' = dirty \ {n}
  /\ UNCHANGED <<resourceVars, processing, delayed, call, sentinels, budget>>

\* List the sentinels and look at the flag.
ListSentinels ==
  /\ call.pc = "list"
  /\ \/ /\ call.inst.flag # 1
        /\ Return
     \/ /\ call.inst.flag = 1 /\ call.inst.cluster \in sentinels
        /\ call' = [call EXCEPT !.pc = "failover"]
        /\ UNCHANGED queueVars
  /\ UNCHANGED <<resourceVars, sentinels, budget>>

\* The attempt, which Sentinel may refuse: a failure is logged and forgotten.
FailOverOperate ==
  /\ call.pc = "failover"
  /\ call' = [call EXCEPT !.pc = "patch"]
  /\ UNCHANGED <<resourceVars, queueVars, sentinels, budget>>

\* Mutated form of Patched: the copy is taken after the flag is set.
PatchedNothing(v) == v

\* The merge patch has the flag and no resourceVersion, and is no write when
\* the flag is down.
Patched(v) == [v EXCEPT !.flag = 0]

Patch ==
  LET stored == store[call.key] IN
  /\ call.pc = "patch"
  /\ stored # Absent
  /\ \/ Patched(stored) = stored /\ UNCHANGED resourceVars
     \/ Patched(stored) # stored /\ Put(call.key, Patched(stored))
  /\ Return
  /\ UNCHANGED <<sentinels, budget>>

\* Mutated form of PatchFails: the error is logged and swallowed.
PatchFailsQuietly ==
  /\ call.pc = "patch"
  /\ \/ store[call.key] = Absent /\ UNCHANGED budget
     \/ Fault
  /\ Return
  /\ UNCHANGED <<resourceVars, sentinels>>

PatchFails ==
  /\ call.pc = "patch"
  /\ \/ store[call.key] = Absent /\ UNCHANGED budget
     \/ Fault
  /\ Fail
  /\ UNCHANGED <<resourceVars, sentinels>>

----------------------------------------------------------------------------
\* The end of the process and the start of the next one.

Restart ==
  /\ Relist
  /\ Refill({n \in Names : store[n] # Absent})
  /\ call' = Idle
  /\ UNCHANGED sentinels

Crash == Fault /\ Restart

\* The first item of an empty list is read; the list is empty also when the
\* List has failed.
Panic ==
  /\ call.pc = "list" /\ call.inst.flag = 1
  /\ \/ call.inst.cluster \notin sentinels /\ UNCHANGED budget
     \/ Fault
  /\ Restart

----------------------------------------------------------------------------
\* Users, informers and pods.

Edit ==
  /\ budget.edits > 0
  /\ budget' = [budget EXCEPT !.edits = @ - 1]

\* A user creates n, or changes its cluster or its flag.
Apply(n, cluster, flag) ==
  LET new == IF store[n] = Absent
             THEN [cluster |-> cluster, flag |-> flag]
             ELSE [store[n] EXCEPT !.cluster = cluster, !.flag = flag]
  IN  /\ new # store[n]
      /\ Edit
      /\ Put(n, new)
      /\ UNCHANGED <<queueVars, call, sentinels>>

Delete(n) ==
  /\ store[n] # Absent
  /\ Edit
  /\ Put(n, Absent)
  /\ UNCHANGED <<queueVars, call, sentinels>>

Deliver(n) ==
  /\ TakeEvent(n)
  /\ Add(n)
  /\ UNCHANGED <<call, sentinels, budget>>

Retry(n) ==
  /\ AddDelayed(n)
  /\ UNCHANGED <<resourceVars, call, sentinels, budget>>

Resync(n) ==
  /\ cache[n] # Absent
  /\ Add(n)
  /\ UNCHANGED <<resourceVars, call, sentinels, budget>>

MoveSentinel(c) ==
  /\ budget.moves > 0
  /\ budget' = [budget EXCEPT !.moves = @ - 1]
  /\ sentinels' = IF c \in sentinels THEN sentinels \ {c} ELSE sentinels \cup {c}
  /\ UNCHANGED <<resourceVars, queueVars, call>>

----------------------------------------------------------------------------
Step == ListSentinels \/ FailOverOperate \/ Patch \/ PatchFails

Start(n) == StartReconcile(n) \/ ReconcileNothing(n)

Environment ==
  \/ \E n \in Names : Delete(n) \/ \E c \in Clusters, flag \in {0, 1} : Apply(n, c, flag)
  \/ \E c \in Clusters : MoveSentinel(c)

Next ==
  \/ Environment
  \/ \E n \in Names : Deliver(n) \/ Retry(n) \/ Resync(n)
  \/ Step \/ \E n \in Names : Start(n)
  \/ Crash \/ Panic

Spec == Init /\ [][Next]_vars

(***************************************************************************)
(* The worker goes on with its call and takes each key of the queue,       *)
(* events are delivered, a back-off elapses and a panic takes its course.  *)
(***************************************************************************)
Fairness ==
  /\ WF_vars(Step)
  /\ WF_vars(Panic)
  /\ \A n \in Names : SF_vars(Start(n)) /\ WF_vars(Deliver(n)) /\ WF_vars(Retry(n))

FairSpec == Spec /\ Fairness

----------------------------------------------------------------------------
\* Properties.

\* Nothing about n is on its way, queued, delayed or being worked on.
Settled(n) == n \notin dirty \cup processing \cup delayed /\ watch[n] = <<>>

(***************************************************************************)
(* A request to fail over is not left lying: when the operator is at rest, *)
(* no flag is up, whatever failed or crashed.  It says that the flag was   *)
(* taken down, not by which call: the patch names no version, so one that  *)
(* ends a call may take down the flag of a request that came meanwhile and *)
(* was never tried, and such a run satisfies the property.                 *)
(***************************************************************************)
NeverForgetsRequest ==
  \A n \in Names : Settled(n) /\ store[n] # Absent => store[n].flag = 0

(***************************************************************************)
(* Failovers come to an end: once the users have stopped asking, a cluster *)
(* is not failed over again and again by retries, restarts, resyncs and    *)
(* stale reads.                                                            *)
(***************************************************************************)
NoFailoverStorm == <>[](call.pc # "failover")

(***************************************************************************)
(* The inductive invariant behind NeverForgetsRequest.  What the call for  *)
(* n has read is what the cache holds, unless n has been added to the      *)
(* queue again; and when no event about n is on its way, a request in the  *)
(* cache is with the queue, the back-off or the call.                      *)
(***************************************************************************)
CallOf(n) == n \in processing <=> call.pc # "idle" /\ call.key = n

ReadFromCache(n) == n \in processing \ dirty => call.inst = cache[n]

Carried(n) ==
  watch[n] = <<>> /\ cache[n] # Absent /\ cache[n].flag = 1
    => n \in dirty \cup processing \cup delayed

IInv ==
  /\ TypeOK
  /\ \A n \in Names : Synced(n) /\ CallOf(n) /\ ReadFromCache(n) /\ Carried(n)
============================================================================
