--------------------------- MODULE BackupContract ---------------------------
(***************************************************************************)
(* What the operator promises of RedisBackup objects, told without caches, *)
(* queues, workers and resourceVersions: every change of a status is one   *)
(* atomic operation on what the object is at that moment, and a CronJob or *)
(* a Job is built for a spec that a user asked for, where there is none.   *)
(***************************************************************************)
EXTENDS Naturals, Sequences

CONSTANTS
  Absent,      \* no object
  Backups,     \* names of RedisBackup objects
  Children,    \* their CronJobs and Jobs: pairs of a kind and a name
  Specs,       \* what a user may ask for
  Scheduled,   \* triples with a schedule
  NoInfo       \* the zero LastBackupInfo

VARIABLES
  object,      \* object[b]: what the users see of RedisBackup b, or Absent
  asked,       \* specs that users asked for and that may yet be served
  child,       \* child[k]: what the CronJob or Job k was built for, or Absent
  results      \* results of runs that may yet be recorded

vars == <<object, asked, child, results>>

IsScheduled(v) == v.spec.info \in Scheduled

Init ==
  /\ object = [b \in Backups |-> Absent]
  /\ asked = {}
  /\ child = [k \in Children |-> Absent]
  /\ results = {}

\* Old wishes and old results may be forgotten at any step.
ForgetAsked == asked' \subseteq asked
ForgetResults == results' \subseteq results

----------------------------------------------------------------------------
\* The users.  Each RedisBackup gets a uid that no other has had.

Ask(b, spec) == asked' \subseteq asked \cup {[backup |-> b, uid |-> object'[b].uid, spec |-> spec]}

Create(b, spec) ==
  /\ object[b] = Absent
  /\ object'[b] # Absent
  /\ \A a \in asked : a.backup = b => a.uid # object'[b].uid
  /\ object' = [object EXCEPT ![b] = [uid |-> object'[b].uid, spec |-> spec,
                                      last |-> NoInfo, conditions |-> <<>>]]
  /\ Ask(b, spec)
  /\ UNCHANGED <<child, results>>

Edit(b, spec) ==
  /\ object[b] # Absent
  /\ object' = [object EXCEPT ![b].spec = spec]
  /\ Ask(b, spec)
  /\ UNCHANGED <<child, results>>

Delete(b) ==
  /\ object[b] # Absent
  /\ object' = [object EXCEPT ![b] = Absent]
  /\ ForgetAsked
  /\ UNCHANGED <<child, results>>

----------------------------------------------------------------------------
\* The status.

\* A run publishes its result.
Publish ==
  /\ \E c \in results' : results' \subseteq results \cup {c}
  /\ ForgetAsked
  /\ UNCHANGED <<object, child>>

\* The run that was recorded last is not recorded again.
IsNews(v, c) ==
  \/ v.conditions = <<>>
  \/ v.conditions[Len(v.conditions)].file # c.file

(***************************************************************************)
(* A published result goes to the end of the list of a scheduled           *)
(* RedisBackup and is all of the list of a one-time one.                   *)
(***************************************************************************)
Log(b, c) ==
  /\ object[b] # Absent
  /\ \/ /\ IsScheduled(object[b])
        /\ IsNews(object[b], c)
        /\ object' = [object EXCEPT ![b].conditions = Append(@, c)]
     \/ /\ ~IsScheduled(object[b])
        /\ object' = [object EXCEPT ![b].conditions = <<c>>]
  /\ ForgetAsked /\ ForgetResults
  /\ UNCHANGED child

\* The triple recorded is the one the spec has at that moment.
Record(b) ==
  /\ object[b] # Absent
  /\ object' = [object EXCEPT ![b].last = object[b].spec.info]
  /\ ForgetAsked /\ ForgetResults
  /\ UNCHANGED child

----------------------------------------------------------------------------
\* The CronJobs and Jobs.  One that is there never becomes another.

Build(k, a) ==
  /\ child[k] = Absent
  /\ k = <<IF IsScheduled(a) THEN "CronJob" ELSE "Job", a.backup>>
  /\ child' = [child EXCEPT ![k] = [uid |-> a.uid, spec |-> a.spec]]
  /\ ForgetAsked /\ ForgetResults
  /\ UNCHANGED object

Remove(k) ==
  /\ child' = [child EXCEPT ![k] = Absent]
  /\ ForgetAsked /\ ForgetResults
  /\ UNCHANGED object

Forget ==
  /\ ForgetAsked /\ ForgetResults
  /\ UNCHANGED <<object, child>>

Next ==
  \/ \E b \in Backups, spec \in Specs : Create(b, spec) \/ Edit(b, spec)
  \/ \E b \in Backups : Delete(b) \/ Record(b) \/ \E c \in results : Log(b, c)
  \/ \E k \in Children : Remove(k) \/ \E a \in asked : Build(k, a)
  \/ Publish \/ Forget

Spec == Init /\ [][Next]_vars
============================================================================
