----------------------------- MODULE Reconcile -----------------------------
(***************************************************************************)
(* RedisBackupReconciler.Reconcile, one action for each call it makes to   *)
(* the caches, the API server or Redis.                                    *)
(***************************************************************************)
EXTENDS BackupState

InPc(w, pc) == worker[w].pc = pc
Goto(w, next) == worker' = [worker EXCEPT ![w] = next]

\* Reconcile returns a nil error, or an error that requeues the request.
Return(w) ==
  /\ Goto(w, Idle)
  /\ Done(worker[w].key)

\* Mutated form of Fail: the error is logged and swallowed.
FailSwallowed(w) ==
  /\ Goto(w, Idle)
  /\ Done(worker[w].key)

Fail(w) ==
  /\ Goto(w, Idle)
  /\ DoneWithError(worker[w].key)

----------------------------------------------------------------------------
(***************************************************************************)
(* A worker takes b from the queue and reads the RedisBackup.  It is done  *)
(* when there is none.                                                     *)
(***************************************************************************)
StartReconcile(w, b) ==
  /\ InPc(w, "idle")
  /\ Get(b)
  /\ cache[BackupOf(b)] # Absent
  /\ Goto(w, [pc |-> "pods", key |-> b, inst |-> cache[BackupOf(b)],
              pvc |-> Absent, cond |-> Absent])
  /\ gaveUp' = [gaveUp EXCEPT ![b] = FALSE]
  /\ UNCHANGED <<apiVars, cycle, master, redis, running, budget>>

ReconcileNothing(w, b) ==
  /\ InPc(w, "idle")
  /\ b \in dirty \ processing
  /\ cache[BackupOf(b)] = Absent
  /\ dirty' = dirty \ {b}
  /\ gaveUp' = [gaveUp EXCEPT ![b] = FALSE]
  /\ UNCHANGED <<apiVars, processing, delayed, worker, cycle, master, redis, running, budget>>

\* Mutated form of FindMaster: the phase of the master is not looked at.
FindMasterAnyPhase(w) ==
  LET self == worker[w] IN
  /\ InPc(w, "pods")
  /\ \E found \in MasterFound(self.inst.spec.cluster) :
       \/ /\ found \notin {NoMaster, NoClaim}
          /\ Goto(w, [self EXCEPT !.pc = "child", !.pvc = found])
          /\ UNCHANGED <<queueVars, gaveUp>>
       \/ /\ found = NoMaster
          /\ Return(w)
          /\ gaveUp' = [gaveUp EXCEPT ![self.key] = TRUE]
  /\ UNCHANGED <<apiVars, cycle, master, redis, running, budget>>

(***************************************************************************)
(* Read the password and list the pods.  A missing password is an error;   *)
(* a failed List, a master that is not Running and no master at all end    *)
(* the call with nil, and nothing will start the next one.  See Panic for  *)
(* a master without a claim.                                               *)
(***************************************************************************)
FindMaster(w) ==
  LET self == worker[w] IN
  /\ InPc(w, "pods")
  /\ \E found \in MasterFound(self.inst.spec.cluster) :
       \/ /\ found \in Pvcs
          /\ Goto(w, [self EXCEPT !.pc = "child", !.pvc = found])
          /\ UNCHANGED <<queueVars, gaveUp>>
       \/ /\ found \in {NoMaster, Down}
          /\ Return(w)
          /\ gaveUp' = [gaveUp EXCEPT ![self.key] = TRUE]
  /\ UNCHANGED <<apiVars, cycle, master, redis, running, budget>>

PodListFails(w) ==
  /\ InPc(w, "pods")
  /\ Fault
  /\ Return(w)
  /\ gaveUp' = [gaveUp EXCEPT ![worker[w].key] = TRUE]
  /\ UNCHANGED <<apiVars, cycle, master, redis, running>>

(***************************************************************************)
(* A call to the API server or for the password fails for another reason   *)
(* than those of the other actions.                                        *)
(***************************************************************************)
CallFails(w) ==
  /\ worker[w].pc \in WorkerPc \ {"read"}
  /\ Fault
  /\ Fail(w)
  /\ UNCHANGED <<apiVars, cycle, master, redis, running, gaveUp>>

\* Mutated form of GetChild: a triple that was recorded needs no CronJob.
GetChildOnceRecorded(w) ==
  LET self == worker[w]
      next == IF self.inst.last = self.inst.spec.info THEN "read"
              ELSE IF cache[ChildOf(self.key, self.inst)] = Absent THEN "create"
              ELSE "delete"
  IN  /\ InPc(w, "child")
      /\ Goto(w, [self EXCEPT !.pc = next])
      /\ UNCHANGED <<apiVars, queueVars, cycle, master, redis, running, budget, gaveUp>>

(***************************************************************************)
(* Look for the CronJob, or for the Job when there is no schedule.  With   *)
(* batch/v1 a CronJob is rebuilt when the triple recorded in the status is *)
(* not the one of the spec.                                                *)
(***************************************************************************)
GetChild(w) ==
  LET self == worker[w]
      child == cache[ChildOf(self.key, self.inst)]
      next == IF child = Absent THEN "create"
              ELSE IF ~IsScheduled(self.inst) THEN "read"
              ELSE IF CronJobVersion = "batch/v1beta1" THEN "compare"
              ELSE IF self.inst.last # self.inst.spec.info THEN "delete"
              ELSE "read"
  IN  /\ InPc(w, "child")
      /\ Goto(w, [self EXCEPT !.pc = next])
      /\ UNCHANGED <<apiVars, queueVars, cycle, master, redis, running, budget, gaveUp>>

(***************************************************************************)
(* With batch/v1beta1 it is rebuilt when its claim is not the master's.    *)
(* The claim is read from a second Get; see Panic for a CronJob that has   *)
(* gone since the first.                                                   *)
(***************************************************************************)
CompareClaim(w) ==
  LET self == worker[w]
      found == cache[CronJobOf(self.key)]
  IN  /\ InPc(w, "compare")
      /\ found # Absent
      /\ Goto(w, [self EXCEPT !.pc = IF found.pvc # self.pvc THEN "delete" ELSE "read"])
      /\ UNCHANGED <<apiVars, queueVars, cycle, master, redis, running, budget, gaveUp>>

\* Mutated form of MakeCronJob: SetControllerReference is not called.
MakeCronJobOrphan(inst, pvc) ==
  [owner |-> 0, cluster |-> inst.spec.cluster, info |-> inst.spec.info,
   pvc |-> pvc, active |-> 0, done |-> FALSE]

\* The Job or CronJob that MakeCronJob builds.
MakeCronJob(inst, pvc) ==
  [owner |-> inst.uid, cluster |-> inst.spec.cluster, info |-> inst.spec.info,
   pvc |-> pvc, active |-> 0, done |-> FALSE]

\* A Job is done with; of a CronJob the status is recorded as well.
CreateChild(w) ==
  LET self == worker[w]
      k == ChildOf(self.key, self.inst)
  IN  /\ InPc(w, "create")
      /\ \/ /\ store[k] # Absent
            /\ Fail(w)
            /\ UNCHANGED apiVars
         \/ /\ store[k] = Absent
            /\ Put(k, MakeCronJob(self.inst, self.pvc))
            /\ UNCHANGED rev
            /\ \/ /\ IsScheduled(self.inst)
                  /\ Goto(w, [self EXCEPT !.pc = "record"])
                  /\ UNCHANGED queueVars
               \/ /\ ~IsScheduled(self.inst)
                  /\ Return(w)
      /\ UNCHANGED <<cycle, master, redis, running, budget, gaveUp>>

\* The deletion is by name.  The event it causes will start the next call.
DeleteCronJob(w) ==
  LET k == CronJobOf(worker[w].key) IN
  /\ InPc(w, "delete")
  /\ \/ /\ store[k] = Absent
        /\ Fail(w)
        /\ UNCHANGED apiVars
     \/ /\ store[k] # Absent
        /\ Put(k, Absent)
        /\ UNCHANGED rev
        /\ Return(w)
  /\ UNCHANGED <<cycle, master, redis, running, budget, gaveUp>>

\* Mutated forms of IsNew: the first condition is compared, or none.
IsNewToFirst(inst, cond) ==
  \/ inst.conditions = <<>>
  \/ Head(inst.conditions).file # cond.file
IsNewOnce(inst, cond) == inst.conditions = <<>>

(***************************************************************************)
(* RedisConn: the value of the key, and nothing when Redis does not        *)
(* answer.  A CronJob's condition is new when it is not the last of the    *)
(* status; a Job's always replaces the status.                             *)
(***************************************************************************)
IsNew(inst, cond) ==
  \/ inst.conditions = <<>>
  \/ inst.conditions[Len(inst.conditions)].file # cond.file

ReadRedis(w, cond) ==
  LET self == worker[w]
      next == IF cond # Absent /\ (IsScheduled(self.inst) => IsNew(self.inst, cond))
              THEN "append" ELSE "record"
  IN  /\ InPc(w, "read")
      /\ \/ /\ next = "record" /\ ~IsScheduled(self.inst)
            /\ Return(w)
         \/ /\ next = "append" \/ IsScheduled(self.inst)
            /\ Goto(w, [self EXCEPT !.pc = next, !.cond = cond])
            /\ UNCHANGED queueVars
      /\ UNCHANGED <<apiVars, cycle, master, redis, running, gaveUp>>

RedisConn(w) ==
  LET self == worker[w] IN
  \/ /\ ReadRedis(w, redis[ClusterOf(self.key, self.inst)][KeyOf(self.key, self.inst)])
     /\ UNCHANGED budget
  \/ /\ ReadRedis(w, Absent)
     /\ Fault

(***************************************************************************)
(* Status().Update of new, computed from the version inst: refused when    *)
(* inst is not the stored version any more, and no write at all when it    *)
(* changes nothing.                                                        *)
(***************************************************************************)
UpdateStatus(b, inst, new) ==
  /\ Current(b, inst)
  /\ \/ new = inst /\ UNCHANGED apiVars
     \/ new # inst /\ PutBackup(b, new)

UpdateRefused(w) ==
  /\ InPc(w, "append") \/ InPc(w, "record")
  /\ ~Current(worker[w].key, worker[w].inst)
  /\ Fail(w)
  /\ UNCHANGED <<apiVars, cycle, master, redis, running, budget, gaveUp>>

\* Mutated form of WithCondition: a CronJob's condition replaces the list too.
WithConditionOnly(inst, cond) == [inst EXCEPT !.conditions = <<cond>>]

\* A CronJob's condition is appended to the list, a Job's is all of it.
WithCondition(inst, cond) ==
  [inst EXCEPT !.conditions = IF IsScheduled(inst) THEN Append(@, cond) ELSE <<cond>>]

AppendCondition(w) ==
  LET self == worker[w]
  IN  /\ InPc(w, "append")
      /\ UpdateStatus(self.key, self.inst, WithCondition(self.inst, self.cond))
      /\ \/ /\ IsScheduled(self.inst)
            /\ Goto(w, [self EXCEPT !.pc = "record", !.inst = store'[BackupOf(self.key)]])
            /\ UNCHANGED queueVars
         \/ /\ ~IsScheduled(self.inst)
            /\ Return(w)
      /\ UNCHANGED <<cycle, master, redis, running, budget, gaveUp>>

RecordInfo(w) ==
  LET self == worker[w]
  IN  /\ InPc(w, "record")
      /\ UpdateStatus(self.key, self.inst, [self.inst EXCEPT !.last = self.inst.spec.info])
      /\ Return(w)
      /\ UNCHANGED <<cycle, master, redis, running, budget, gaveUp>>

----------------------------------------------------------------------------
\* The step of a call that has started, whatever it is.
Step(w) ==
  \/ FindMaster(w) \/ PodListFails(w) \/ CallFails(w)
  \/ GetChild(w) \/ CompareClaim(w)
  \/ CreateChild(w) \/ DeleteCronJob(w)
  \/ RedisConn(w) \/ AppendCondition(w) \/ RecordInfo(w) \/ UpdateRefused(w)

Start(w, b) == StartReconcile(w, b) \/ ReconcileNothing(w, b)
============================================================================
