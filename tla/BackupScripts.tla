--------------------------- MODULE BackupScripts ---------------------------
(***************************************************************************)
(* What the backup pods run: redis_backup.py where Redis is kept by        *)
(* sentinels ("failover"), redis_cluster_backup.py for a Redis Cluster     *)
(* ("cluster").  A pod packs each mounted directory into an archive,       *)
(* uploads the archives and publishes the result in Redis.  Pods run one   *)
(* after the other: a retry of the Job or the next run of the CronJob.     *)
(*                                                                         *)
(* Any command may fail, also those whose status the scripts ignore, and   *)
(* the pod may be killed between two commands.  What a command killed      *)
(* halfway leaves is what one that fails leaves.                           *)
(***************************************************************************)
EXTENDS Naturals

CONSTANTS
  NumberOfPrimaries,   \* directories a pod of a Redis Cluster mounts
  Absent,              \* no result
  MaxPods, MaxFaults   \* bounds on the pods and on what may fail

ASSUME ScriptAssumption ==
  /\ NumberOfPrimaries \in Nat \ {0}
  /\ {MaxPods, MaxFaults} \subseteq Nat

Deployments == {"failover", "cluster"}
Dirs == 1..NumberOfPrimaries

\* An archive is named after the second the pod started at and its directory.
File == (1..MaxPods) \X Dirs
Content == {"none", "torn", "whole"}

VARIABLES
  deployment,  \* how Redis is deployed
  pod,         \* the backup pod: pc is its next command, at directory dir
  lying,       \* lying[f]: the archive f in the pod's reach, not yet removed
  bucket,      \* bucket[f]: the archive f in the bucket
  result,      \* the value of the result key
  faults       \* what may still fail

backupVars == <<pod, lying, bucket, result>>

Result == [files : SUBSET File, status : {"Succeed", "Failed"}, expires : BOOLEAN]

ASSUME ResultAbsent == Absent \notin Result

BackupTypeOK ==
  /\ deployment \in Deployments
  /\ pod \in [pc : {"idle", "tar", "put", "clear", "undo", "publish", "expire"},
              id : 0..MaxPods, dir : Dirs, files : SUBSET File, status : {"Succeed", "Failed"}, once : BOOLEAN]
  /\ {lying, bucket} \subseteq [File -> Content]
  /\ result \in Result \cup {Absent}
  /\ faults \in 0..MaxFaults

BackupInit ==
  /\ deployment \in Deployments
  /\ pod = [pc |-> "idle", id |-> 0, dir |-> 1, files |-> {}, status |-> "Failed", once |-> FALSE]
  /\ lying = [f \in File |-> "none"]
  /\ bucket = [f \in File |-> "none"]
  /\ result = Absent
  /\ faults = MaxFaults

Fault == faults > 0 /\ faults' = faults - 1

Mounted == IF deployment = "cluster" THEN Dirs ELSE {1}
Here == {f \in File : f[2] = pod.dir /\ lying[f] # "none"}

\* Mutated form of Own: the time is not part of the name.
OwnUndated == <<1, pod.dir>>

Own == <<pod.id, pod.dir>>

\* Mutated form of NextDir: the loop goes past the last directory.
NextDirPast(loop, then) ==
  IF pod.dir \in Mounted THEN [pod EXCEPT !.dir = @ + 1, !.pc = loop]
  ELSE [pod EXCEPT !.dir = 1, !.pc = then]

\* A loop over the directories, that starts with the command loop.
NextDir(loop, then) ==
  IF pod.dir + 1 \in Mounted THEN [pod EXCEPT !.dir = @ + 1, !.pc = loop]
  ELSE [pod EXCEPT !.dir = 1, !.pc = then]
FailedAt(pc) == [pod EXCEPT !.pc = pc, !.status = "Failed"]

----------------------------------------------------------------------------
(***************************************************************************)
(* /tmp of a new pod is empty; the directories of a Redis Cluster keep     *)
(* what a pod that died left there.  The key is a one-time backup's or the *)
(* CronJobs' own.  A pod that finds another number of directories than it  *)
(* has primaries publishes a failure.                                      *)
(***************************************************************************)
StartPod ==
  /\ pod.pc = "idle"
  /\ pod.id < MaxPods
  /\ \E once \in BOOLEAN, pc \in {"tar", "publish"} :
       /\ pod' = [pc |-> pc, id |-> pod.id + 1, dir |-> 1, status |-> "Failed", once |-> once,
                  files |-> IF deployment = "cluster" THEN {} ELSE {<<pod.id + 1, 1>>}]
       /\ \/ pc = "tar" /\ UNCHANGED faults
          \/ pc = "publish" /\ deployment = "cluster" /\ Fault
  /\ lying' = IF deployment = "cluster" THEN lying ELSE [f \in File |-> "none"]
  /\ UNCHANGED <<deployment, bucket, result>>

\* redis_backup.py prints that tar failed and goes on.
Tar ==
  /\ pod.pc = "tar"
  /\ deployment = "failover"
  /\ \E c \in Content :
       /\ lying' = [lying EXCEPT ![Own] = c]
       /\ IF c = "whole" THEN UNCHANGED faults ELSE Fault
  /\ pod' = [pod EXCEPT !.pc = "put"]
  /\ UNCHANGED <<deployment, bucket, result>>

\* Mutated form of TarDir: tar's status is only printed, as in redis_backup.py.
TarDirPrints ==
  /\ pod.pc = "tar"
  /\ deployment = "cluster"
  /\ \E c \in Content :
       /\ lying' = [lying EXCEPT ![Own] = c]
       /\ IF c = "whole" THEN UNCHANGED faults ELSE Fault
  /\ pod' = [NextDir("tar", "put") EXCEPT !.files = @ \cup {Own}]
  /\ UNCHANGED <<deployment, bucket, result>>

\* redis_cluster_backup.py stops at a directory it cannot pack.
TarDir ==
  /\ pod.pc = "tar"
  /\ deployment = "cluster"
  /\ \E c \in Content :
       /\ lying' = [lying EXCEPT ![Own] = c]
       /\ \/ c = "whole" /\ pod' = [NextDir("tar", "put") EXCEPT !.files = @ \cup {Own}] /\ UNCHANGED faults
          \/ c # "whole" /\ pod' = FailedAt("publish") /\ Fault
  /\ UNCHANGED <<deployment, bucket, result>>

Upload(S) == bucket' = [f \in File |-> IF f \in S THEN lying[f] ELSE bucket[f]]

(***************************************************************************)
(* s3cmd put redis-bak-* sends every archive in the directory.  It fails   *)
(* when there is none; a failure may have sent some of them.               *)
(***************************************************************************)
Put ==
  /\ pod.pc = "put"
  /\ Here # {}
  /\ Upload(Here)
  /\ pod' = [pod EXCEPT !.pc = "clear"]
  /\ UNCHANGED <<deployment, lying, result, faults>>

PutFails ==
  /\ pod.pc = "put"
  /\ \E S \in SUBSET Here : Upload(S)
  /\ IF Here = {} THEN UNCHANGED faults ELSE Fault
  /\ pod' = FailedAt(IF deployment = "cluster" THEN "undo" ELSE "publish")
  /\ UNCHANGED <<deployment, lying, result>>

(***************************************************************************)
(* rm -rf redis-bak-*.  When it fails some of the archives stay, and       *)
(* nothing else: its status is ignored.                                    *)
(***************************************************************************)
Clear ==
  /\ pod.pc = "clear"
  /\ \E S \in SUBSET Here :
       /\ lying' = [f \in File |-> IF f \in Here \ S THEN "none" ELSE lying[f]]
       /\ IF S = {} THEN UNCHANGED faults ELSE Fault
  /\ pod' = [NextDir("put", "publish") EXCEPT !.status = "Succeed"]
  /\ UNCHANGED <<deployment, bucket, result>>

\* s3cmd del of the pod's archives, whatever each of the calls answers.
Undo ==
  /\ pod.pc = "undo"
  /\ \E S \in SUBSET pod.files :
       /\ bucket' = [f \in File |-> IF f \in S THEN "none" ELSE bucket[f]]
       /\ IF S = pod.files THEN UNCHANGED faults ELSE Fault
  /\ pod' = [pod EXCEPT !.pc = "publish"]
  /\ UNCHANGED <<deployment, lying, result>>

(***************************************************************************)
(* redis_conn: SET with EX, or SET and then EXPIRE.  When Redis does not   *)
(* answer this is printed.                                                 *)
(***************************************************************************)
Publish ==
  /\ pod.pc = "publish"
  /\ \/ /\ result' = [files |-> pod.files, status |-> pod.status,
                      expires |-> pod.once /\ deployment = "cluster"]
        /\ pod' = [pod EXCEPT !.pc = IF pod.once /\ deployment = "failover" THEN "expire" ELSE "idle"]
        /\ UNCHANGED faults
     \/ /\ pod' = [pod EXCEPT !.pc = "idle"]
        /\ Fault
        /\ UNCHANGED result
  /\ UNCHANGED <<deployment, lying, bucket>>

Expire ==
  /\ pod.pc = "expire"
  /\ \/ result' = [result EXCEPT !.expires = TRUE] /\ UNCHANGED faults
     \/ UNCHANGED result /\ Fault
  /\ pod' = [pod EXCEPT !.pc = "idle"]
  /\ UNCHANGED <<deployment, lying, bucket>>

KeyExpires ==
  /\ result # Absent
  /\ result.expires
  /\ result' = Absent
  /\ UNCHANGED <<deployment, pod, lying, bucket, faults>>

\* The pod is evicted, or the deadline of its Job has passed.
KillPod ==
  /\ pod.pc # "idle"
  /\ Fault
  /\ pod' = [pod EXCEPT !.pc = "idle"]
  /\ UNCHANGED <<deployment, lying, bucket, result>>

BackupNext ==
  \/ StartPod \/ Tar \/ TarDir \/ Put \/ PutFails \/ Clear \/ Undo
  \/ Publish \/ Expire \/ KeyExpires \/ KillPod
============================================================================
