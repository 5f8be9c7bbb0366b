--------------------------- MODULE RecoverScripts ---------------------------
(***************************************************************************)
(* redis_recover.py and redis_cluster_recover.py, which fill the volumes   *)
(* of a new Redis with the archives of a backup before Redis starts.  A    *)
(* restore that ends with an error or dies is tried again, with the same   *)
(* archives or with those of a newer result.  As in the backups any        *)
(* command may fail, and the scripts ignore the status of sed and rm.      *)
(***************************************************************************)
EXTENDS BackupScripts

VARIABLES
  restore,  \* the restore: pc is its next command, at directory dir
  volume    \* volume[d]: what the data directory d holds: the archive that
            \* was fetched; the data unpacked last; mixed, whether files of
            \* other data lie among them; local, whether node.conf has the
            \* local address

vars == <<deployment, backupVars, faults, restore, volume>>

\* Data of an archive, all of it or a part; or none, or data of before.
NoFile == <<0, 0>>
NoData == <<NoFile, "none">>
OldData == <<NoFile, "old">>
Data == {NoData, OldData} \cup (File \X {"torn", "whole"})

TypeOK ==
  /\ BackupTypeOK
  /\ restore \in [pc : {"idle", "ls", "get", "tar", "sed", "rm", "nothing", "succeed"},
                  dir : Dirs, files : SUBSET File]
  /\ volume \in [Dirs -> [archive : Data \ {OldData}, data : Data,
                           mixed : BOOLEAN, local : BOOLEAN]]

Init ==
  /\ BackupInit
  /\ restore = [pc |-> "idle", dir |-> 1, files |-> {}]
  /\ \E d \in {NoData, OldData} :
       volume = [i \in Dirs |-> [archive |-> NoData, data |-> d, mixed |-> FALSE, local |-> FALSE]]

\* The archive that belongs to the directory.
Wanted == CHOOSE f \in restore.files : f[2] = restore.dir
Volume == volume[restore.dir]
FillVolume(v) == volume' = [volume EXCEPT ![restore.dir] = v]
GoTo(pc) == restore' = [restore EXCEPT !.pc = pc]

\* sys.exit(-1)
Exit == GoTo("idle")

----------------------------------------------------------------------------
\* A result that says Succeed is chosen, or the one of the last try again.
StartRestore ==
  /\ restore.pc = "idle"
  /\ \E files \in {restore.files} \cup (IF result = Absent THEN {} ELSE {result.files}) :
       /\ files # {}
       /\ files # restore.files => result.status = "Succeed"
       /\ restore' = [pc |-> "ls", dir |-> 1, files |-> files]
  /\ UNCHANGED <<deployment, backupVars, faults, volume>>

\* Mutated form of Ls: redis_recover.py does not look at the directory either.
LsNot ==
  /\ restore.pc = "ls"
  /\ GoTo("get")
  /\ UNCHANGED <<deployment, backupVars, faults, volume>>

\* Only redis_recover.py looks whether the directory is empty.
Ls ==
  /\ restore.pc = "ls"
  /\ GoTo(IF deployment = "failover" /\ {Volume.archive, Volume.data} # {NoData}
          THEN "nothing" ELSE "get")
  /\ UNCHANGED <<deployment, backupVars, faults, volume>>

\* Mutated form of Refused: s3cmd keeps the file it finds and goes on.
RefusedNever == FALSE

\* s3cmd get does not write over a file that exists.
Refused == Volume.archive # NoData \/ bucket[Wanted] = "none"

Get ==
  /\ restore.pc = "get"
  /\ \/ /\ ~Refused
        /\ IF Volume.archive = NoData
           THEN FillVolume([Volume EXCEPT !.archive = <<Wanted, bucket[Wanted]>>])
           ELSE UNCHANGED volume
        /\ GoTo("tar")
        /\ UNCHANGED faults
     \/ /\ Refused
        /\ Exit
        /\ UNCHANGED <<volume, faults>>
     \/ /\ ~Refused
        /\ Fault
        /\ \E a \in {NoData, <<Wanted, "torn">>} : FillVolume([Volume EXCEPT !.archive = a])
        /\ Exit
  /\ UNCHANGED <<deployment, backupVars>>

(***************************************************************************)
(* tar writes the files of the archive over those that have their names,   *)
(* node.conf among them; the files that the archive does not have stay.    *)
(***************************************************************************)
Unpacked(content) ==
  [Volume EXCEPT !.data = <<Volume.archive[1], content>>,
                 !.mixed = @ \/ (Volume.data # NoData /\ Volume.data[1] # Volume.archive[1]),
                 !.local = FALSE]

Unpack ==
  /\ restore.pc = "tar"
  /\ Volume.archive[2] = "whole"
  /\ FillVolume(Unpacked("whole"))
  /\ GoTo(IF deployment = "cluster" THEN "sed" ELSE "rm")
  /\ UNCHANGED <<deployment, backupVars, faults>>

\* redis_cluster_recover.py looks at the status of tar after sed.
TarFails ==
  /\ restore.pc = "tar"
  /\ IF Volume.archive[2] = "torn" THEN UNCHANGED faults ELSE Fault
  /\ \E v \in {Volume, Unpacked("torn")} :
       \E sed \in {v.local, deployment = "cluster" /\ v.data # NoData} :
         FillVolume([v EXCEPT !.local = sed])
  /\ Exit
  /\ UNCHANGED <<deployment, backupVars>>

\* sed writes the local address into node.conf; its status is ignored.
Sed ==
  /\ restore.pc = "sed"
  /\ \/ FillVolume([Volume EXCEPT !.local = TRUE]) /\ UNCHANGED faults
     \/ UNCHANGED volume /\ Fault
  /\ GoTo("rm")
  /\ UNCHANGED <<deployment, backupVars>>

\* The archive is removed, or it stays, and the next directory follows.
Rm ==
  /\ restore.pc = "rm"
  /\ \/ FillVolume([Volume EXCEPT !.archive = NoData]) /\ UNCHANGED faults
     \/ UNCHANGED volume /\ Fault
  /\ restore' = IF restore.dir + 1 \in Mounted THEN [restore EXCEPT !.dir = @ + 1, !.pc = "get"]
                ELSE [restore EXCEPT !.pc = "succeed"]
  /\ UNCHANGED <<deployment, backupVars>>

KillRestore ==
  /\ restore.pc \in {"ls", "get", "tar", "sed", "rm"}
  /\ Fault
  /\ Exit
  /\ UNCHANGED <<deployment, backupVars, volume>>

RestoreNext == StartRestore \/ Ls \/ Get \/ Unpack \/ TarFails \/ Sed \/ Rm \/ KillRestore

Next == (BackupNext /\ UNCHANGED <<restore, volume>>) \/ RestoreNext

Spec == Init /\ [][Next]_vars

----------------------------------------------------------------------------
(***************************************************************************)
(* What a result that says Succeed names is in the bucket; for a Redis     *)
(* Cluster it names a whole archive of every directory, whatever torn      *)
(* archives earlier pods left beside them and the upload took along.       *)
(***************************************************************************)
SucceedIsStored ==
  result # Absent =>
    (result.status = "Succeed" =>
       /\ {f[2] : f \in result.files} = Mounted
       /\ \A f \in result.files : /\ bucket[f] # "none"
                                  /\ deployment = "cluster" => bucket[f] = "whole")

(***************************************************************************)
(* No later pod changes or deletes an archive that is in the bucket, which *)
(* a result may name and a restore may be fetching: neither one that       *)
(* uploads what it finds in the directories, where a pod that died or rm   *)
(* that failed left archives, nor one that undoes its uploads.             *)
(***************************************************************************)
KeepsStored ==
  [][\A f \in File : f[1] # pod.id /\ bucket[f] # "none" => bucket'[f] = bucket[f]]_vars

(***************************************************************************)
(* A restore that ends well has unpacked every directory from the archive  *)
(* it was asked for, and all of it, whatever an earlier try left there.    *)
(* redis_recover.py has put it beside nothing else.  The script of a Redis *)
(* Cluster may have unpacked it over other data; but node.conf has the     *)
(* local address, unless a command failed.                                 *)
(***************************************************************************)
RestoredWhole ==
  restore.pc = "succeed" =>
    \A d \in Mounted : /\ volume[d].data \in restore.files \X {"whole"}
                       /\ volume[d].data[1][2] = d
                       /\ deployment = "failover" => ~volume[d].mixed
                       /\ deployment = "cluster" => volume[d].local \/ faults < MaxFaults

(***************************************************************************)
(* redis_recover.py never writes into data that was there before, nor into *)
(* the backup that a try which died before its end had unpacked.           *)
(***************************************************************************)
KeepsData ==
  [][deployment = "failover" /\ volume[1].data \in {OldData} \cup (File \X {"whole"})
       => [volume'[1] EXCEPT !.archive = NoData] = [volume[1] EXCEPT !.archive = NoData]]_vars
============================================================================
