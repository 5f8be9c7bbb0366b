---------------------------- MODULE ScriptProofs ----------------------------
(***************************************************************************)
(* Proofs about the scripts, for any number of primaries and pods and any  *)
(* number of faults: what a result that says Succeed names is stored       *)
(* whole, no later pod touches it, a restore that ends well has unpacked   *)
(* all of it, and redis_recover.py does not write where it must not.       *)
(*                                                                         *)
(* Backups: rm may fail and pods may die, so archives of earlier pods lie  *)
(* about and are uploaded again.  But a pod names archives that bear its   *)
(* own number, and what lies of an archive that is in the bucket is the    *)
(* same archive (LyingInv); a pod has all its archives in the bucket when  *)
(* it comes to say Succeed (PodInv), and the pod of the result came before *)
(* the one at work (ResultInv).  Restores: they start from one archive for *)
(* each directory and go through the directories in order (RestoreInv).    *)
(***************************************************************************)
EXTENDS RecoverScripts, TLAPS

\* The archives of the pod i, one for each mounted directory.
Named(i) == {i} \X Mounted

Stored(f) == bucket[f] # "none" /\ (deployment = "cluster" => bucket[f] = "whole")

\* Up to where the pod has come.
Packing ==
  IF deployment = "cluster"
  THEN /\ pod.files = {f \in Named(pod.id) : f[2] < pod.dir}
       /\ \A f \in pod.files : lying[f] = "whole"
  ELSE pod.files = Named(pod.id)

Uploading ==
  /\ pod.files = Named(pod.id)
  /\ \A f \in pod.files : IF f[2] < pod.dir THEN Stored(f)
                          ELSE deployment = "cluster" => lying[f] = "whole"

\* The archives of this directory are uploaded, and not yet removed.
Clearing ==
  /\ pod.files = Named(pod.id)
  /\ \A f \in pod.files : IF f[2] < pod.dir \/ f[2] = pod.dir THEN Stored(f)
                          ELSE deployment = "cluster" => lying[f] = "whole"

Uploaded == pod.files = Named(pod.id) /\ \A f \in pod.files : Stored(f)

PodInv ==
  /\ pod.dir \in Mounted
  /\ pod.pc # "idle" => pod.id > 0 /\ \A f \in pod.files : f[1] = pod.id
  /\ deployment = "failover" => \A f \in File : lying[f] # "none" => f = Own
  /\ pod.pc = "tar" => Packing
  /\ pod.pc = "put" => Uploading
  /\ pod.pc = "clear" => Clearing
  /\ pod.pc = "undo" => pod.status = "Failed"
  /\ pod.pc \in {"publish", "expire"} /\ pod.status = "Succeed" => Uploaded
  /\ pod.pc = "expire" => /\ result \in Result
                          /\ ~result.expires
                          /\ result.status = pod.status

\* What lies of an archive that is in the bucket is that archive; and no pod
\* has begun to write the archives of the pods to come.
LyingInv ==
  /\ \A f \in File : bucket[f] # "none" => lying[f] \in {"none", bucket[f]}
  /\ \A f \in File : f[1] > pod.id => lying[f] = "none" /\ bucket[f] = "none"
  /\ pod.pc = "tar" => \A f \in File : f[1] = pod.id => bucket[f] = "none"

\* The pod may still write over its own archives.
Working == pod.pc \in {"tar", "put", "clear", "undo", "publish"}

\* The pod of the result came before the one that is at work.
ResultInv ==
  result # Absent /\ result.status = "Succeed" =>
    \E i \in 1 .. pod.id :
      /\ result.files = Named(i)
      /\ Working => i < pod.id
      /\ \A f \in Named(i) : Stored(f)

Filled(f) ==
  /\ volume[f[2]].data = <<f, "whole">>
  /\ deployment = "failover" => ~volume[f[2]].mixed
  /\ deployment = "cluster" => volume[f[2]].local \/ faults < MaxFaults

RestoreInv ==
  /\ restore.dir \in Mounted
  /\ restore.files # {} => \E i \in 1 .. MaxPods : restore.files = Named(i)
  /\ restore.pc # "idle" => restore.files # {}
  /\ restore.pc = "ls" => restore.dir = 1
  /\ restore.pc \in {"get", "tar"} /\ deployment = "failover" => Volume.data = NoData
  /\ restore.pc = "tar" => Volume.archive \in {Wanted} \X {"torn", "whole"}
  /\ restore.pc = "sed" => deployment = "cluster" /\ Volume.data = <<Wanted, "whole">>
  /\ restore.pc = "rm" => Filled(Wanted)
  /\ restore.pc \in {"get", "tar", "sed", "rm"} =>
       \A f \in restore.files : f[2] < restore.dir => Filled(f)
  /\ restore.pc = "succeed" => \A f \in restore.files : Filled(f)
  /\ \A d \in Dirs : volume[d].data = NoData => ~volume[d].mixed

IInv == TypeOK /\ PodInv /\ LyingInv /\ ResultInv /\ RestoreInv

----------------------------------------------------------------------------
\* Facts about the records.

LEMMA PodFields ==
  ASSUME BackupTypeOK
  PROVE  /\ pod.pc \in {"idle", "tar", "put", "clear", "undo", "publish", "expire"}
         /\ pod.id \in 0 .. MaxPods /\ pod.dir \in Dirs /\ pod.files \subseteq File
         /\ pod.status \in {"Succeed", "Failed"} /\ pod.once \in BOOLEAN
BY DEF BackupTypeOK

LEMMA Directories ==
  /\ NumberOfPrimaries \in Nat \ {0} /\ MaxPods \in Nat /\ MaxFaults \in Nat
  /\ Mounted \subseteq Dirs /\ Dirs \subseteq Nat /\ 1 \in Mounted
  /\ deployment = "cluster" => Mounted = Dirs
  /\ deployment # "cluster" => Mounted = {1}
BY ScriptAssumption DEF ScriptAssumption, Mounted, Dirs

\* An archive has the number of a pod and a directory.
LEMMA Files ==
  /\ \A f \in File : f[1] \in 1 .. MaxPods /\ f[2] \in Dirs /\ f = <<f[1], f[2]>>
  /\ \A i \in 1 .. MaxPods :
       /\ Named(i) \subseteq File
       /\ \A f \in Named(i) : f[1] = i /\ f[2] \in Mounted /\ f = <<i, f[2]>>
       /\ \A d \in Mounted : <<i, d>> \in Named(i)
  /\ Here \subseteq File
BY Directories DEF File, Named, Here

\* The next directory of a loop, if there is one.
LEMMA Loop ==
  ASSUME NEW d \in Mounted
  PROVE  /\ d + 1 \in Mounted => \A e \in Mounted : e < d + 1 <=> e < d \/ e = d
         /\ d + 1 \notin Mounted => \A e \in Mounted : e < d \/ e = d
BY Directories DEF Dirs

\* The pod at its next directory.
LEMMA NextDirFields ==
  ASSUME BackupTypeOK, PodInv, NEW loop, NEW then
  PROVE  /\ NextDir(loop, then) \in [pc : {loop, then}, id : {pod.id}, dir : Mounted,
                                     files : {pod.files}, status : {pod.status}, once : BOOLEAN]
         /\ pod.dir + 1 \in Mounted =>
              NextDir(loop, then).pc = loop /\ NextDir(loop, then).dir = pod.dir + 1
         /\ pod.dir + 1 \notin Mounted =>
              NextDir(loop, then).pc = then /\ NextDir(loop, then).dir = 1
<1>1. pod.dir \in Mounted /\ 1 \in Mounted
  BY Directories DEF PodInv
<1> QED BY <1>1 DEF NextDir, BackupTypeOK

LEMMA UploadTyped ==
  ASSUME BackupTypeOK, NEW S, Upload(S)
  PROVE  /\ bucket' \in [File -> Content]
         /\ \A f \in File : bucket'[f] = IF f \in S THEN lying[f] ELSE bucket[f]
BY DEF BackupTypeOK, Upload

LEMMA FaultTyped ==
  ASSUME BackupTypeOK, Fault \/ UNCHANGED faults
  PROVE  faults' \in 0 .. MaxFaults
BY Directories DEF BackupTypeOK, Fault

\* A command of a pod keeps the types.
LEMMA BackupTypes ==
  ASSUME BackupTypeOK, PodInv, BackupNext
  PROVE  BackupTypeOK'
<1> USE DEF BackupTypeOK
<1>1. CASE StartPod
  <2>1. /\ pod.id + 1 \in 0 .. MaxPods /\ 1 \in Dirs
        /\ <<pod.id + 1, 1>> \in File
    BY <1>1, Directories DEF StartPod, File
  <2>2. faults' \in 0 .. MaxFaults
    BY <1>1, FaultTyped DEF StartPod
  <2>3. lying' \in [File -> Content]
    BY <1>1 DEF StartPod, Content
  <2>4. pod' \in [pc : {"tar", "publish"}, id : 0 .. MaxPods, dir : Dirs, files : SUBSET File,
                  status : {"Failed"}, once : BOOLEAN]
    <3>1. PICK once \in BOOLEAN, pc \in {"tar", "publish"} :
            pod' = [pc |-> pc, id |-> pod.id + 1, dir |-> 1, status |-> "Failed", once |-> once,
                    files |-> IF deployment = "cluster" THEN {} ELSE {<<pod.id + 1, 1>>}]
      BY <1>1 DEF StartPod
    <3> QED BY <2>1, <3>1
  <2> QED BY <1>1, <2>2, <2>3, <2>4 DEF StartPod
<1>2. CASE Tar
  <2>1. faults' \in 0 .. MaxFaults
    BY <1>2, FaultTyped DEF Tar
  <2>2. lying' \in [File -> Content]
    BY <1>2 DEF Tar
  <2> QED BY <1>2, <2>1, <2>2 DEF Tar
<1>3. CASE TarDir
  <2>1. faults' \in 0 .. MaxFaults
    BY <1>3, FaultTyped DEF TarDir
  <2>2. Own \in File /\ Mounted \subseteq Dirs
    BY <1>3, PodFields, Directories DEF TarDir, PodInv, Own, File
  <2>3. pod' \in [pc : {"tar", "put", "publish"}, id : 0 .. MaxPods, dir : Dirs,
                  files : SUBSET File, status : {"Succeed", "Failed"}, once : BOOLEAN]
    <3>1. CASE pod' = [NextDir("tar", "put") EXCEPT !.files = @ \cup {Own}]
      <4>1. NextDir("tar", "put") \in [pc : {"tar", "put"}, id : 0 .. MaxPods, dir : Dirs,
                                files : SUBSET File, status : {"Succeed", "Failed"},
                                once : BOOLEAN]
        BY <1>3, <2>2, NextDirFields, PodFields DEF TarDir
      <4> QED BY <2>2, <3>1, <4>1
    <3>2. CASE pod' = FailedAt("publish")
      BY <3>2, PodFields DEF FailedAt
    <3> QED BY <1>3, <3>1, <3>2 DEF TarDir
  <2>4. lying' \in [File -> Content]
    BY <1>3 DEF TarDir
  <2> QED BY <1>3, <2>1, <2>4, <2>3 DEF TarDir
<1>4. CASE Put
  <2>1. bucket' \in [File -> Content]
    BY <1>4, UploadTyped DEF Put
  <2> QED BY <1>4, <2>1 DEF Put
<1>5. CASE Clear
  <2>1. faults' \in 0 .. MaxFaults
    BY <1>5, FaultTyped DEF Clear
  <2>2. lying' \in [File -> Content]
    BY <1>5 DEF Clear, Content
  <2>3. pod' \in [pc : {"put", "publish"}, id : 0 .. MaxPods, dir : Dirs, files : SUBSET File,
                  status : {"Succeed", "Failed"}, once : BOOLEAN]
    BY <1>5, NextDirFields, PodFields, Directories DEF Clear
  <2> QED BY <1>5, <2>1, <2>2, <2>3 DEF Clear
<1>6. CASE PutFails
  <2>1. bucket' \in [File -> Content] /\ faults' \in 0 .. MaxFaults
    BY <1>6, UploadTyped, FaultTyped DEF PutFails
  <2> QED BY <1>6, <2>1 DEF PutFails, FailedAt
<1>7. CASE Undo
  <2>1. bucket' \in [File -> Content] /\ faults' \in 0 .. MaxFaults
    BY <1>7, FaultTyped DEF Undo, Content
  <2> QED BY <1>7, <2>1 DEF Undo
<1>8. CASE Publish
  <2>1. faults' \in 0 .. MaxFaults
    BY <1>8, FaultTyped DEF Publish
  <2>2. result' \in Result \cup {Absent}
    <3> DEFINE e == pod.once /\ deployment = "cluster"
    <3>1. e \in BOOLEAN
      OBVIOUS
    <3>2. CASE result' = [files |-> pod.files, status |-> pod.status, expires |-> e]
      <4> HIDE DEF e
      <4> QED BY <3>1, <3>2, PodFields DEF Result
    <3>3. CASE UNCHANGED result
      BY <3>3
    <3> QED BY <1>8, <3>2, <3>3 DEF Publish
  <2> QED BY <1>8, <2>1, <2>2 DEF Publish
<1>9. CASE Expire
  <2>1. faults' \in 0 .. MaxFaults
    BY <1>9, FaultTyped DEF Expire
  <2>2. result' \in Result \cup {Absent}
    BY <1>9 DEF Expire, PodInv, Result
  <2> QED BY <1>9, <2>1, <2>2 DEF Expire
<1>10. CASE KeyExpires
  BY <1>10 DEF KeyExpires
<1>11. CASE KillPod
  BY <1>11, FaultTyped DEF KillPod
<1> QED BY <1>1, <1>2, <1>3, <1>4, <1>5, <1>6, <1>7, <1>8, <1>9, <1>10, <1>11 DEF BackupNext

----------------------------------------------------------------------------
\* What a step may change in the bucket: nothing but the archives of its pod.

LEMMA LyingKeeps ==
  ASSUME BackupTypeOK, BackupTypeOK', PodInv, LyingInv, BackupNext
  PROVE  /\ LyingInv'
         /\ \A f \in File : f[1] # pod.id /\ bucket[f] # "none" => bucket'[f] = bucket[f]
<1>1. pod.id \in 0 .. MaxPods /\ \A f \in File : f[1] \in Nat
  BY PodFields, Files
<1>2. CASE StartPod
  <2>1. pod'.id = pod.id + 1 /\ UNCHANGED bucket
    BY <1>2 DEF StartPod
  <2>2. \A f \in File : lying'[f] \in {lying[f], "none"}
    BY <1>2 DEF StartPod
  <2>3. \A f \in File : f[1] >= pod.id + 1 => f[1] > pod.id
    BY <1>1
  <2> QED BY <1>1, <2>1, <2>2, <2>3 DEF LyingInv
<1>3. CASE Tar \/ TarDir
  <2>1. pod.pc = "tar" /\ pod'.id = pod.id /\ UNCHANGED bucket
    <3>1. CASE Tar
      BY <3>1, PodFields DEF Tar, BackupTypeOK
    <3>2. CASE TarDir /\ pod' = [NextDir("tar", "put") EXCEPT !.files = @ \cup {Own}]
      BY <3>2, NextDirFields DEF TarDir
    <3>3. CASE TarDir /\ pod' = FailedAt("publish")
      BY <3>3, PodFields DEF TarDir, FailedAt, BackupTypeOK
    <3> QED BY <1>3, <3>1, <3>2, <3>3 DEF TarDir
  <2>2. \A f \in File : f # Own => lying'[f] = lying[f]
    BY <1>3 DEF Tar, TarDir, BackupTypeOK
  <2>3. Own[1] = pod.id
    BY DEF Own
  <2> QED BY <1>1, <2>1, <2>2, <2>3 DEF LyingInv
<1>4. CASE Put \/ PutFails
  <2>1. pod'.id = pod.id /\ pod'.pc # "tar" /\ UNCHANGED lying
    BY <1>4, PodFields DEF Put, PutFails, FailedAt, BackupTypeOK
  <2>2. \A f \in File : bucket'[f] = bucket[f] \/ (lying[f] # "none" /\ bucket'[f] = lying[f])
    <3>1. PICK S \in SUBSET Here : Upload(S)
      BY <1>4 DEF Put, PutFails
    <3> QED BY <3>1, UploadTyped DEF Here
  <2> QED BY <2>1, <2>2 DEF LyingInv
<1>5. CASE Clear
  <2>1. pod'.id = pod.id /\ pod'.pc # "tar" /\ UNCHANGED bucket
    BY <1>5, NextDirFields DEF Clear
  <2>2. \A f \in File : lying'[f] \in {lying[f], "none"}
    BY <1>5 DEF Clear
  <2> QED BY <2>1, <2>2 DEF LyingInv
<1>6. CASE Undo
  <2>1. pod'.id = pod.id /\ pod'.pc # "tar" /\ UNCHANGED lying
    BY <1>6, PodFields DEF Undo, BackupTypeOK
  <2>2. \A f \in File : bucket'[f] = bucket[f] \/ (bucket'[f] = "none" /\ f[1] = pod.id)
    BY <1>6 DEF Undo, PodInv
  <2> QED BY <2>1, <2>2 DEF LyingInv
<1>7. CASE Publish \/ Expire \/ KeyExpires \/ KillPod
  <2>1. pod'.id = pod.id /\ (pod'.pc = "tar" => pod.pc = "tar") /\ UNCHANGED <<lying, bucket>>
    BY <1>7, PodFields DEF Publish, Expire, KeyExpires, KillPod, BackupTypeOK
  <2> QED BY <2>1 DEF LyingInv
<1> QED BY <1>2, <1>3, <1>4, <1>5, <1>6, <1>7 DEF BackupNext

LEMMA ResultKept ==
  ASSUME BackupTypeOK, ResultInv, UNCHANGED deployment,
         pod'.id \in Nat, pod'.id >= pod.id, Working' => Working \/ pod'.id > pod.id,
         result' # Absent /\ result'.status = "Succeed" =>
           /\ result # Absent /\ result.status = "Succeed"
           /\ result'.files = result.files,
         \A f \in File : bucket[f] # "none" /\ (Working => f[1] # pod.id) => bucket'[f] = bucket[f]
  PROVE  ResultInv'
<1> SUFFICES ASSUME result' # Absent, result'.status = "Succeed"
             PROVE  \E i \in 1 .. pod'.id :
                      /\ result'.files = Named(i)
                      /\ Working' => i < pod'.id
                      /\ \A f \in Named(i) : Stored(f)'
  BY DEF ResultInv, Named, Mounted
<1>1. PICK i \in 1 .. pod.id :
        /\ result.files = Named(i)
        /\ Working => i < pod.id
        /\ \A f \in Named(i) : Stored(f)
  BY DEF ResultInv
<1>2. i \in 1 .. MaxPods /\ i \in 1 .. pod'.id /\ (Working' => i < pod'.id)
  BY <1>1, PodFields, Directories
<1>3. ASSUME NEW f \in Named(i)
      PROVE  Stored(f)'
  <2>1. f \in File /\ f[1] = i /\ (Working => f[1] # pod.id)
    BY <1>1, <1>2, <1>3, PodFields, Files
  <2>2. Stored(f)
    BY <1>1
  <2>3. bucket'[f] = bucket[f]
    BY <2>1, <2>2 DEF Stored
  <2> QED BY <2>2, <2>3 DEF Stored
<1> QED BY <1>1, <1>2, <1>3

----------------------------------------------------------------------------
\* The commands of a pod.

LEMMA StartKeeps ==
  ASSUME BackupTypeOK, PodInv, ResultInv, StartPod
  PROVE  PodInv' /\ ResultInv'
<1>1. /\ pod'.pc \in {"tar", "publish"} /\ pod'.id = pod.id + 1 /\ pod'.dir = 1
      /\ pod'.status = "Failed"
      /\ pod'.files = IF deployment = "cluster" THEN {} ELSE {<<pod.id + 1, 1>>}
      /\ UNCHANGED <<deployment, bucket, result>>
  BY DEF StartPod
<1>2. \A f \in File : /\ deployment = "cluster" => lying'[f] = lying[f]
                      /\ deployment # "cluster" => lying'[f] = "none"
  BY DEF StartPod
<1>3. pod.id \in Nat /\ Mounted' = Mounted /\ pod'.id \in 1 .. MaxPods
  BY <1>1, PodFields, Directories DEF StartPod, Mounted
<1>4. ResultInv'
  BY <1>1, <1>2, <1>3, ResultKept
<1>5. Packing'
  <2>1. ASSUME deployment = "cluster"
        PROVE  {f \in Named(pod'.id) : f[2] < 1} = {}
    BY <1>3, Files, Directories DEF Dirs
  <2>2. ASSUME deployment # "cluster"
        PROVE  Named(pod'.id) = {<<pod.id + 1, 1>>}
    BY <1>1, <2>2, Directories DEF Named
  <2>3. Named(pod.id)' = Named(pod'.id)
    BY <1>3 DEF Named
  <2> QED BY <1>1, <2>1, <2>2, <2>3 DEF Packing
<1>6. \A f \in pod'.files : f[1] = pod'.id
  BY <1>1
<1>7. pod'.dir \in Mounted'
  BY <1>1, <1>3, Directories
<1>8. deployment = "failover" => \A f \in File : lying'[f] = "none"
  BY <1>2
<1> QED BY <1>1, <1>3, <1>4, <1>5, <1>6, <1>7, <1>8 DEF PodInv

LEMMA TarKeeps ==
  ASSUME BackupTypeOK, PodInv, ResultInv, Tar
  PROVE  PodInv' /\ ResultInv'
<1>1. /\ pod.pc = "tar" /\ pod'.pc = "put" /\ pod'.id = pod.id /\ pod'.dir = pod.dir
      /\ pod'.files = pod.files /\ deployment = "failover" /\ UNCHANGED <<deployment, bucket, result>>
  BY PodFields DEF Tar, BackupTypeOK
<1>2. \A f \in File : f # Own => lying'[f] = lying[f]
  BY DEF Tar, BackupTypeOK
<1>3. pod.dir = 1 /\ pod.id \in 1 .. MaxPods /\ Mounted' = Mounted /\ Mounted = {1}
  BY <1>1, PodFields, Directories DEF PodInv, Mounted
<1>4. Own[1] = pod.id /\ Own' = Own
  BY <1>1 DEF Own
<1>5. ResultInv'
  BY <1>1, <1>2, <1>3, <1>4, ResultKept DEF Working
<1>6. pod.files = Named(pod.id) /\ Named(pod.id)' = Named(pod.id)
  BY <1>1, <1>3 DEF PodInv, Packing, Named
<1>7. Uploading'
  <2>1. \A f \in File : ~(f[2] < 1)
    BY Files, Directories DEF Dirs
  <2>2. pod.files \subseteq File
    BY PodFields
  <2> QED BY <1>1, <1>3, <1>6, <2>1, <2>2 DEF Uploading
<1> QED BY <1>1, <1>2, <1>3, <1>4, <1>5, <1>7 DEF PodInv

LEMMA TarDirKeeps ==
  ASSUME BackupTypeOK, BackupTypeOK', PodInv, ResultInv, TarDir
  PROVE  PodInv' /\ ResultInv'
<1>1. /\ pod.pc = "tar" /\ deployment = "cluster" /\ UNCHANGED <<deployment, bucket, result>>
      /\ Mounted' = Mounted /\ Mounted = Dirs /\ pod.id \in 1 .. MaxPods /\ pod.dir \in Mounted
  BY PodFields, Directories DEF TarDir, PodInv, Mounted
<1>2. \A f \in File : f # Own => lying'[f] = lying[f]
  BY DEF TarDir, BackupTypeOK
<1>3. Own \in Named(pod.id) /\ Own[1] = pod.id /\ Own[2] = pod.dir
      /\ Named(pod.id) \subseteq File
  BY <1>1, Files DEF Own
<1>4. /\ pod.files = {f \in Named(pod.id) : f[2] < pod.dir}
      /\ \A f \in pod.files : lying[f] = "whole"
  BY <1>1 DEF PodInv, Packing
<1>5. CASE pod' = FailedAt("publish")
  <2>1. /\ pod'.pc = "publish" /\ pod'.status = "Failed" /\ pod'.id = pod.id
        /\ pod'.dir = pod.dir /\ pod'.files = pod.files
    BY <1>5, PodFields DEF FailedAt, BackupTypeOK
  <2>2. ResultInv'
    BY <1>1, <1>2, <1>3, <2>1, ResultKept DEF Working
  <2> QED BY <1>1, <2>1, <2>2 DEF PodInv
<1>6. CASE /\ pod' = [NextDir("tar", "put") EXCEPT !.files = @ \cup {Own}]
           /\ lying' = [lying EXCEPT ![Own] = "whole"]
  <2>1. /\ pod'.id = pod.id /\ pod'.files = pod.files \cup {Own} /\ pod'.dir \in Mounted
        /\ pod'.pc \in {"tar", "put"}
        /\ pod.dir + 1 \in Mounted => pod'.pc = "tar" /\ pod'.dir = pod.dir + 1
        /\ pod.dir + 1 \notin Mounted => pod'.pc = "put" /\ pod'.dir = 1
    BY <1>1, <1>6, NextDirFields
  <2>2. ResultInv'
    BY <1>1, <1>2, <1>3, <2>1, ResultKept DEF Working
  <2>3. \A f \in pod'.files : lying'[f] = "whole"
    BY <1>3, <1>4, <1>6, <2>1 DEF BackupTypeOK
  <2>4. \A f \in Named(pod.id) : f[2] = pod.dir => f = Own
    BY <1>1, Files DEF Own
  <2>5. Named(pod.id)' = Named(pod.id)
    BY <1>1, <2>1 DEF Named
  <2>6. CASE pod.dir + 1 \in Mounted
    <3>1. pod'.files = {f \in Named(pod.id) : f[2] < pod.dir + 1}
      BY <1>1, <1>3, <1>4, <2>1, <2>4, <2>6, Loop, Files
    <3>2. Packing'
      BY <1>1, <2>1, <2>3, <2>5, <2>6, <3>1 DEF Packing
    <3> QED BY <1>1, <1>3, <1>4, <2>1, <2>2, <2>6, <3>2 DEF PodInv
  <2>7. CASE pod.dir + 1 \notin Mounted
    <3>1. pod'.files = Named(pod.id)
      BY <1>1, <1>3, <1>4, <2>1, <2>4, <2>7, Loop, Files
    <3>2. \A f \in File : ~(f[2] < 1)
      BY Files, Directories DEF Dirs
    <3>3. Uploading'
      BY <1>1, <1>3, <2>1, <2>3, <2>5, <2>7, <3>1, <3>2 DEF Uploading
    <3> QED BY <1>1, <1>3, <1>4, <2>1, <2>2, <2>7, <3>3 DEF PodInv
  <2> QED BY <2>6, <2>7
<1> QED BY <1>5, <1>6 DEF TarDir

LEMMA PutKeeps ==
  ASSUME BackupTypeOK, PodInv, LyingInv, ResultInv, Put
  PROVE  PodInv' /\ ResultInv'
<1>1. /\ pod.pc = "put" /\ UNCHANGED <<deployment, lying, result>>
      /\ Mounted' = Mounted /\ pod.id \in 1 .. MaxPods /\ pod.dir \in Mounted
      /\ Uploading /\ Here # {}
  BY PodFields DEF Put, PodInv, Mounted
<1>2. \A f \in File :
        /\ bucket'[f] = IF f \in Here THEN lying[f] ELSE bucket[f]
        /\ f \in Here <=> f[2] = pod.dir /\ lying[f] # "none"
  BY UploadTyped DEF Put, Here
<1>3. /\ pod'.id = pod.id /\ pod'.files = pod.files /\ pod'.dir = pod.dir
      /\ pod'.pc = "clear"
  BY PodFields DEF Put, BackupTypeOK
<1>4. ResultInv'
  <2>1. \A f \in File : bucket[f] # "none" => bucket'[f] = bucket[f]
    BY <1>2 DEF LyingInv
  <2> QED BY <1>1, <1>3, <2>1, ResultKept DEF Working
<1>5. /\ pod.files = Named(pod.id) /\ Named(pod.id)' = Named(pod.id) /\ Own' = Own
      /\ pod.files \subseteq File /\ \A f \in pod.files : f[1] = pod.id /\ f[2] \in Mounted
  BY <1>1, <1>3, Files DEF Uploading, Named, Own
<1>6. \A d \in Mounted : ~(d < d) /\ d \in Nat
  BY Directories
<1>7. ASSUME NEW f \in pod.files, f[2] < pod.dir
      PROVE  Stored(f)'
  BY <1>1, <1>2, <1>5, <1>6, <1>7 DEF Uploading, Stored
<1>8. ASSUME NEW f \in pod.files, f[2] = pod.dir
      PROVE  Stored(f)'
  <2>1. CASE deployment = "cluster"
    BY <1>1, <1>2, <1>5, <1>6, <1>8, <2>1 DEF Uploading, Stored
  <2>2. CASE deployment # "cluster"
    <3>1. deployment = "failover"
      BY <2>2 DEF BackupTypeOK, Deployments
    <3>2. f = Own
      BY <1>1, <1>5, <1>8, Files DEF Own
    <3>3. PICK g \in File : g \in Here
      BY <1>1, Files
    <3>4. g = f
      BY <1>2, <3>1, <3>2, <3>3 DEF PodInv
    <3> QED BY <1>1, <1>2, <2>2, <3>3, <3>4 DEF Stored
  <2> QED BY <2>1, <2>2
<1>9. Clearing'
  <2>1. ASSUME NEW f \in pod.files, ~(f[2] < pod.dir), deployment = "cluster"
        PROVE  lying'[f] = "whole"
    BY <1>1, <2>1 DEF Uploading
  <2> QED BY <1>1, <1>3, <1>5, <1>7, <1>8, <2>1 DEF Clearing
<1> QED BY <1>1, <1>3, <1>4, <1>5, <1>9 DEF PodInv

LEMMA ClearKeeps ==
  ASSUME BackupTypeOK, PodInv, ResultInv, Clear
  PROVE  PodInv' /\ ResultInv'
<1>1. /\ pod.pc = "clear" /\ UNCHANGED <<deployment, bucket, result>>
      /\ Mounted' = Mounted /\ pod.id \in 1 .. MaxPods /\ pod.dir \in Mounted
      /\ Clearing
  BY PodFields DEF Clear, PodInv, Mounted
<1>2. \A f \in File : /\ lying'[f] \in {lying[f], "none"}
                      /\ f[2] # pod.dir => lying'[f] = lying[f]
  BY DEF Clear, Here
<1>3. /\ pod'.id = pod.id /\ pod'.files = pod.files /\ pod'.dir \in Mounted
      /\ pod'.status = "Succeed"
      /\ pod.dir + 1 \in Mounted => pod'.pc = "put" /\ pod'.dir = pod.dir + 1
      /\ pod.dir + 1 \notin Mounted => pod'.pc = "publish"
  BY <1>1, NextDirFields DEF Clear
<1>4. pod'.pc \in {"put", "publish"}
  BY <1>3
<1>5. ResultInv'
  BY <1>1, <1>3, <1>4, ResultKept DEF Working
<1>6. /\ pod.files = Named(pod.id) /\ Named(pod.id)' = Named(pod.id)
      /\ pod.files \subseteq File /\ \A f \in pod.files : f[1] = pod.id /\ f[2] \in Mounted
  BY <1>1, <1>3, Files DEF Clearing, Named
<1>7. deployment = "failover" => \A f \in File : lying'[f] # "none" => f = Own'
  <2>1. ASSUME deployment = "failover"
        PROVE  pod'.dir = pod.dir
    BY <1>1, <1>3, <2>1, Directories
  <2>2. ASSUME deployment = "failover"
        PROVE  Own' = Own
    BY <1>3, <2>1, <2>2 DEF Own
  <2> QED BY <1>2, <2>2 DEF PodInv
<1>8. CASE pod.dir + 1 \in Mounted
  <2>1. pod.dir \in Nat /\ \A f \in File : f[2] \in Nat
    BY <1>1, Files, Directories
  <2>2. \A f \in File : f[2] < pod.dir + 1 <=> f[2] < pod.dir \/ f[2] = pod.dir
    BY <2>1
  <2>3. ASSUME NEW f \in pod.files
        PROVE  IF f[2] < pod.dir + 1 THEN Stored(f)'
               ELSE deployment = "cluster" => lying'[f] = "whole"
    BY <1>1, <1>2, <1>6, <2>2, <2>3 DEF Clearing, Stored
  <2>4. Uploading'
    BY <1>1, <1>3, <1>6, <1>8, <2>3 DEF Uploading
  <2> QED BY <1>1, <1>3, <1>5, <1>6, <1>7, <1>8, <2>4 DEF PodInv
<1>9. CASE pod.dir + 1 \notin Mounted
  <2>1. \A e \in Mounted : e < pod.dir \/ e = pod.dir
    BY <1>1, <1>9, Loop
  <2>2. \A f \in pod.files : Stored(f)'
    BY <1>1, <1>6, <2>1 DEF Clearing, Stored
  <2>3. Uploaded'
    BY <1>3, <1>6, <2>2 DEF Uploaded
  <2> QED BY <1>1, <1>3, <1>5, <1>6, <1>7, <1>9, <2>3 DEF PodInv
<1> QED BY <1>8, <1>9

LEMMA PutFailsKeeps ==
  ASSUME BackupTypeOK, PodInv, LyingInv, ResultInv, PutFails
  PROVE  PodInv' /\ ResultInv'
<1>1. /\ pod.pc = "put" /\ UNCHANGED <<deployment, lying, result>>
      /\ Mounted' = Mounted /\ pod.id \in 1 .. MaxPods
  BY PodFields DEF PutFails, PodInv, Mounted
<1>2. /\ pod'.pc \in {"undo", "publish"} /\ pod'.status = "Failed" /\ pod'.id = pod.id
      /\ pod'.dir = pod.dir /\ pod'.files = pod.files
  BY PodFields DEF PutFails, FailedAt, BackupTypeOK
<1>3. \A f \in File : bucket[f] # "none" => bucket'[f] = bucket[f]
  <2>1. PICK S \in SUBSET Here : Upload(S)
    BY DEF PutFails
  <2> QED BY <2>1, UploadTyped DEF Here, LyingInv
<1>4. ResultInv'
  BY <1>1, <1>2, <1>3, ResultKept DEF Working
<1>5. Own' = Own
  BY <1>2 DEF Own
<1> QED BY <1>1, <1>2, <1>4, <1>5 DEF PodInv

LEMMA UndoKeeps ==
  ASSUME BackupTypeOK, PodInv, ResultInv, Undo
  PROVE  PodInv' /\ ResultInv'
<1>1. /\ pod.pc = "undo" /\ UNCHANGED <<deployment, lying, result>>
      /\ Mounted' = Mounted /\ pod.id \in 1 .. MaxPods
  BY PodFields DEF Undo, PodInv, Mounted
<1>2. /\ pod'.pc = "publish" /\ pod'.status = pod.status /\ pod'.id = pod.id
      /\ pod'.dir = pod.dir /\ pod'.files = pod.files
  BY PodFields DEF Undo, BackupTypeOK
<1>3. \A f \in File : f[1] # pod.id => bucket'[f] = bucket[f]
  BY <1>1 DEF Undo, PodInv
<1>4. ResultInv'
  BY <1>1, <1>2, <1>3, ResultKept DEF Working
<1>5. Own' = Own
  BY <1>2 DEF Own
<1> QED BY <1>1, <1>2, <1>4, <1>5 DEF PodInv

LEMMA PublishKeeps ==
  ASSUME BackupTypeOK, PodInv, ResultInv, Publish
  PROVE  PodInv' /\ ResultInv'
<1>1. /\ pod.pc = "publish" /\ UNCHANGED <<deployment, lying, bucket>>
      /\ Mounted' = Mounted /\ pod.id \in 1 .. MaxPods
  BY PodFields DEF Publish, PodInv, Mounted
<1>2. /\ pod'.pc \in {"idle", "expire"} /\ pod'.status = pod.status /\ pod'.id = pod.id
      /\ pod'.dir = pod.dir /\ pod'.files = pod.files
  BY PodFields DEF Publish, BackupTypeOK
<1>3. Own' = Own /\ Named(pod.id)' = Named(pod.id)
  BY <1>1, <1>2 DEF Own, Named
<1>4. pod.status = "Succeed" => Uploaded /\ Uploaded'
  BY <1>1, <1>2, <1>3 DEF PodInv, Uploaded, Stored
<1>5. CASE /\ result' = [files |-> pod.files, status |-> pod.status,
                         expires |-> pod.once /\ deployment = "cluster"]
           /\ pod'.pc = "expire" => pod.once /\ deployment = "failover"
  <2>1. /\ result'.files = pod.files /\ result'.status = pod.status
        /\ pod'.pc = "expire" => ~result'.expires
    BY <1>5
  <2>2. result' \in Result
    <3> DEFINE e == pod.once /\ deployment = "cluster"
    <3>1. e \in BOOLEAN
      OBVIOUS
    <3>2. result' = [files |-> pod.files, status |-> pod.status, expires |-> e]
      BY <1>5
    <3> HIDE DEF e
    <3> QED BY <3>1, <3>2, PodFields DEF Result
  <2>3. PodInv'
    BY <1>1, <1>2, <1>3, <1>4, <2>1, <2>2 DEF PodInv
  <2>4. ResultInv'
    <3>1. pod.id \in 1 .. pod'.id /\ ~Working'
      BY <1>1, <1>2, PodFields DEF Working
    <3>2. pod.status = "Succeed" =>
            /\ result'.files = Named(pod.id)'
            /\ \A f \in Named(pod.id)' : Stored(f)'
      BY <1>1, <1>2, <1>3, <1>4, <2>1, Files DEF Uploaded
    <3>3. Mounted' = Mounted
      BY <1>1
    <3> QED BY <1>2, <2>1, <3>1, <3>2, <3>3 DEF ResultInv, Named
  <2> QED BY <2>3, <2>4
<1>6. CASE pod'.pc = "idle" /\ UNCHANGED result
  <2>1. ResultInv'
    BY <1>1, <1>2, <1>6, PodFields, ResultKept DEF Working
  <2> QED BY <1>1, <1>2, <1>3, <1>6, <2>1 DEF PodInv
<1>7. \/ /\ result' = [files |-> pod.files, status |-> pod.status,
                       expires |-> pod.once /\ deployment = "cluster"]
         /\ pod'.pc = "expire" => pod.once /\ deployment = "failover"
      \/ pod'.pc = "idle" /\ UNCHANGED result
  BY PodFields DEF Publish, BackupTypeOK
<1> QED BY <1>5, <1>6, <1>7

\* The steps that only end a pod, or a key.
LEMMA RestKeeps ==
  ASSUME BackupTypeOK, PodInv, ResultInv, Expire \/ KeyExpires \/ KillPod
  PROVE  PodInv' /\ ResultInv'
<1>1. /\ UNCHANGED <<deployment, lying, bucket>> /\ Mounted' = Mounted
      /\ pod'.id = pod.id /\ pod'.dir = pod.dir /\ pod'.files = pod.files
  BY PodFields DEF Expire, KeyExpires, KillPod, BackupTypeOK, Mounted
<1>2. pod'.pc = "idle" \/ (pod' = pod /\ result.expires /\ result' = Absent)
  BY PodFields DEF Expire, KeyExpires, KillPod, BackupTypeOK
<1>3. Working' => Working
  BY <1>2 DEF Working
<1>4. \/ UNCHANGED result
      \/ result' = Absent
      \/ result \in Result /\ result' = [result EXCEPT !.expires = TRUE]
  BY DEF Expire, KeyExpires, KillPod, PodInv
<1>5. result' # Absent /\ result'.status = "Succeed" =>
        result # Absent /\ result.status = "Succeed" /\ result'.files = result.files
  BY <1>4, ResultAbsent DEF Result
<1>6. ResultInv'
  BY <1>1, <1>3, <1>5, PodFields, ResultKept
<1>7. Own' = Own /\ Named(pod.id)' = Named(pod.id)
  BY <1>1 DEF Own, Named
<1>8. PodInv'
  <2>1. CASE pod'.pc = "idle"
    BY <1>1, <1>7, <2>1 DEF PodInv
  <2>2. CASE pod' = pod /\ result.expires
    BY <1>1, <1>7, <2>2 DEF PodInv, Packing, Uploading, Clearing, Uploaded, Stored
  <2> QED BY <1>2, <2>1, <2>2
<1> QED BY <1>6, <1>8

LEMMA BackupKeeps ==
  ASSUME BackupTypeOK, PodInv, LyingInv, ResultInv, BackupNext
  PROVE  BackupTypeOK' /\ PodInv' /\ LyingInv' /\ ResultInv'
BY BackupTypes, LyingKeeps, StartKeeps, TarKeeps, TarDirKeeps, PutKeeps, ClearKeeps, PutFailsKeeps,
   UndoKeeps, PublishKeeps, RestKeeps DEF BackupNext

----------------------------------------------------------------------------
\* The commands of a restore.

\* What a data directory may hold.
Volumes == [archive : Data \ {OldData}, data : Data, mixed : BOOLEAN, local : BOOLEAN]

LEMMA RestoreFields ==
  ASSUME TypeOK
  PROVE  /\ restore.pc \in {"idle", "ls", "get", "tar", "sed", "rm", "nothing", "succeed"}
         /\ restore.dir \in Dirs /\ restore.files \subseteq File
         /\ volume \in [Dirs -> Volumes]
         /\ \A d \in Dirs : volume[d] \in Volumes
BY DEF TypeOK, Volumes

\* There is one archive for the directory at hand.
LEMMA WantedIs ==
  ASSUME NEW i \in 1 .. MaxPods, restore.files = Named(i), restore.dir \in Mounted
  PROVE  /\ Wanted = <<i, restore.dir>> /\ Wanted \in restore.files /\ Wanted \in File
         /\ Wanted[2] = restore.dir
         /\ \A f \in restore.files : f[2] = restore.dir => f = Wanted
<1>1. <<i, restore.dir>> \in restore.files
  BY Files
<1>2. \A f \in restore.files : f[2] = restore.dir <=> f = <<i, restore.dir>>
  BY <1>1, Files
<1>3. Wanted = <<i, restore.dir>>
  BY <1>1, <1>2 DEF Wanted
<1> QED BY <1>1, <1>2, <1>3, Files

LEMMA DataFacts ==
  /\ NoData \in Data /\ OldData \in Data /\ NoData # OldData
  /\ \A f \in File, c \in {"torn", "whole"} :
       /\ <<f, c>> \in Data /\ <<f, c>> # OldData /\ <<f, c>> # NoData
       /\ <<f, c>>[1] = f /\ <<f, c>>[2] = c
  /\ NoData[2] = "none" /\ OldData[2] = "old"
BY DEF Data, NoData, OldData

\* What is put into the directory at hand changes no other.
LEMMA FillFields ==
  ASSUME TypeOK, NEW v, FillVolume(v)
  PROVE  /\ volume'[restore.dir] = v
         /\ \A d \in Dirs : d # restore.dir => volume'[d] = volume[d]
         /\ v \in Volumes
              => volume' \in [Dirs -> Volumes]
BY RestoreFields DEF FillVolume

\* Nobody gives back what may still fail.
LEMMA FaultsFall ==
  ASSUME TypeOK, Fault \/ UNCHANGED faults
  PROVE  faults < MaxFaults => faults' < MaxFaults
BY Directories DEF Fault, TypeOK, BackupTypeOK

\* The directories that are filled stay so while another one is at hand.
LEMMA FilledKept ==
  ASSUME TypeOK, RestoreInv, UNCHANGED deployment, Fault \/ UNCHANGED faults,
         restore.pc \in {"get", "tar", "sed", "rm"}, restore'.files = restore.files,
         \A d \in Dirs : d # restore.dir => volume'[d] = volume[d]
  PROVE  \A f \in restore'.files : f[2] < restore.dir => Filled(f)'
<1> SUFFICES ASSUME NEW f \in restore.files, f[2] < restore.dir
             PROVE  Filled(f)'
  OBVIOUS
<1>1. Filled(f)
  BY DEF RestoreInv
<1>2. f[2] \in Dirs /\ f[2] # restore.dir
  BY RestoreFields, Files, Directories
<1> QED BY <1>1, <1>2, FaultsFall DEF Filled

\* Every directory without data has no other data either.
Unmixed == \A d \in Dirs : volume[d].data = NoData => ~volume[d].mixed

LEMMA UnmixedKept ==
  ASSUME TypeOK, RestoreInv, NEW v, FillVolume(v), v.data = NoData => ~v.mixed
  PROVE  Unmixed'
<1> SUFFICES ASSUME NEW d \in Dirs, volume'[d].data = NoData
             PROVE  ~volume'[d].mixed
  BY DEF Unmixed
<1>1. CASE d = restore.dir
  BY <1>1, FillFields
<1>2. CASE d # restore.dir
  BY <1>2, FillFields DEF RestoreInv
<1> QED BY <1>1, <1>2

\* An attempt that ends leaves nothing else to be said of the directories.
LEMMA ExitKeeps ==
  ASSUME TypeOK, RestoreInv, UNCHANGED deployment, Exit, Unmixed'
  PROVE  RestoreInv' /\ restore' \in [pc : {"idle"}, dir : Dirs, files : SUBSET File]
<1>1. restore'.pc = "idle" /\ restore'.dir = restore.dir /\ restore'.files = restore.files
      /\ restore' \in [pc : {"idle"}, dir : Dirs, files : SUBSET File]
  BY DEF Exit, GoTo, TypeOK
<1>2. Mounted' = Mounted /\ UNCHANGED Dirs
  BY DEF Mounted
<1> QED BY <1>1, <1>2 DEF RestoreInv, Named, Unmixed

LEMMA GoFields ==
  ASSUME TypeOK, NEW pc \in {"get", "tar", "sed", "rm", "nothing", "succeed"}, GoTo(pc)
  PROVE  /\ restore' \in [pc : {pc}, dir : {restore.dir}, files : {restore.files}]
         /\ Wanted' = Wanted
<1>1. restore' \in [pc : {pc}, dir : {restore.dir}, files : {restore.files}]
  BY DEF GoTo, TypeOK
<1> QED BY <1>1 DEF Wanted

RestoreTyped ==
  /\ restore \in [pc : {"idle", "ls", "get", "tar", "sed", "rm", "nothing", "succeed"},
                  dir : Dirs, files : SUBSET File]
  /\ volume \in [Dirs -> Volumes]

LEMMA StartRestoreKeeps ==
  ASSUME IInv, StartRestore
  PROVE  RestoreTyped' /\ RestoreInv'
<1>1. TypeOK /\ BackupTypeOK /\ ResultInv /\ RestoreInv
  BY DEF IInv, TypeOK
<1>2. PICK files \in {restore.files} \cup (IF result = Absent THEN {} ELSE {result.files}) :
        /\ files # {}
        /\ files # restore.files => result.status = "Succeed"
        /\ restore' = [pc |-> "ls", dir |-> 1, files |-> files]
  BY DEF StartRestore
<1>3. /\ restore'.pc = "ls" /\ restore'.dir = 1 /\ restore'.files = files
      /\ UNCHANGED <<deployment, volume>> /\ Mounted' = Mounted
  BY <1>2 DEF StartRestore, Mounted
<1>4. PICK i \in 1 .. MaxPods : files = Named(i)
  <2>1. CASE files = restore.files
    BY <1>1, <1>2, <2>1 DEF RestoreInv
  <2>2. CASE files # restore.files
    <3>1. result # Absent /\ files = result.files /\ result.status = "Succeed"
      BY <1>2, <2>2
    <3>2. PICK i \in 1 .. pod.id : files = Named(i)
      BY <1>1, <3>1 DEF ResultInv
    <3>3. i \in 1 .. MaxPods
      BY <1>1, PodFields, Directories
    <3> QED BY <3>2, <3>3
  <2> QED BY <2>1, <2>2
<1>5. files \subseteq File /\ 1 \in Mounted /\ Mounted \subseteq Dirs
  BY <1>4, Files, Directories
<1>6. RestoreTyped'
  BY <1>1, <1>2, <1>3, <1>5 DEF RestoreTyped, TypeOK, Volumes
<1>7. RestoreInv'
  BY <1>1, <1>2, <1>3, <1>4, <1>5 DEF RestoreInv, Named
<1> QED BY <1>6, <1>7

LEMMA LsKeeps ==
  ASSUME IInv, Ls
  PROVE  RestoreTyped' /\ RestoreInv'
<1>1. TypeOK /\ RestoreInv /\ UNCHANGED <<deployment, volume>> /\ Mounted' = Mounted
      /\ restore.pc = "ls"
  BY DEF IInv, Ls, Mounted
<1>2. PICK pc \in {"get", "nothing"} :
        /\ GoTo(pc)
        /\ pc = "get" /\ deployment = "failover" => Volume.data = NoData
  BY DEF Ls
<1>3. restore'.pc = pc /\ restore'.dir = restore.dir /\ restore'.files = restore.files
      /\ restore' \in [pc : {"get", "nothing"}, dir : Dirs, files : SUBSET File]
  BY <1>1, <1>2, GoFields, RestoreFields
<1>4. Volume' = Volume
  BY <1>1, <1>3 DEF Volume
<1>5. restore.dir = 1 /\ restore.files \subseteq File
  BY <1>1, RestoreFields DEF RestoreInv
<1>6. \A f \in restore.files : ~(f[2] < 1)
  BY <1>5, Files, Directories DEF Dirs
<1>7. RestoreTyped'
  BY <1>1, <1>3 DEF RestoreTyped, TypeOK, Volumes
<1>8. RestoreInv'
  BY <1>1, <1>2, <1>3, <1>4, <1>5, <1>6 DEF RestoreInv, Named
<1> QED BY <1>7, <1>8

LEMMA GetKeeps ==
  ASSUME IInv, Get
  PROVE  RestoreTyped' /\ RestoreInv'
<1>1. TypeOK /\ BackupTypeOK /\ RestoreInv /\ UNCHANGED deployment /\ Mounted' = Mounted
      /\ restore.pc = "get" /\ restore.dir \in Mounted /\ restore.dir \in Dirs
      /\ (Fault \/ UNCHANGED faults)
  BY RestoreFields DEF IInv, TypeOK, Get, Mounted, RestoreInv
<1>2. PICK i \in 1 .. MaxPods : restore.files = Named(i)
  BY <1>1 DEF RestoreInv
<1>3. Wanted \in File
  BY <1>1, <1>2, WantedIs
<1>4. Volume \in Volumes /\ (Volume.data = NoData => ~Volume.mixed)
  BY <1>1, RestoreFields DEF Volume, RestoreInv
<1>5. CASE Exit /\ UNCHANGED volume
  <2>1. Unmixed'
    BY <1>1, <1>5 DEF Unmixed, RestoreInv
  <2> QED BY <1>1, <1>5, <2>1, ExitKeeps, RestoreFields DEF RestoreTyped
<1>6. CASE /\ Exit
           /\ \E a \in {NoData, <<Wanted, "torn">>} : FillVolume([Volume EXCEPT !.archive = a])
  <2>1. PICK a \in {NoData, <<Wanted, "torn">>} : FillVolume([Volume EXCEPT !.archive = a])
    BY <1>6
  <2> DEFINE v == [Volume EXCEPT !.archive = a]
  <2>2. a \in Data \ {OldData}
    BY <1>3, <2>1, DataFacts
  <2>3. v \in Volumes /\ (v.data = NoData => ~v.mixed)
    BY <1>4, <2>2 DEF Volumes
  <2>4. FillVolume(v)
    BY <2>1
  <2> HIDE DEF v
  <2>5. volume' \in [Dirs -> Volumes] /\ Unmixed'
    BY <1>1, <2>3, <2>4, FillFields, UnmixedKept
  <2> QED BY <1>1, <1>6, <2>5, ExitKeeps DEF RestoreTyped
<1>7. CASE /\ ~Refused
           /\ FillVolume([Volume EXCEPT !.archive = <<Wanted, bucket[Wanted]>>])
           /\ GoTo("tar")
  <2> DEFINE a == <<Wanted, bucket[Wanted]>>
             v == [Volume EXCEPT !.archive = a]
  <2>1. bucket[Wanted] \in {"torn", "whole"}
    BY <1>1, <1>3, <1>7 DEF BackupTypeOK, Refused, Content
  <2>2. a \in Data \ {OldData} /\ a \in {Wanted} \X {"torn", "whole"}
    BY <1>3, <2>1, DataFacts
  <2>3. FillVolume(v)
    BY <1>7
  <2> HIDE DEF a
  <2>4. v \in Volumes /\ v.data = Volume.data /\ v.archive = a
        /\ (v.data = NoData => ~v.mixed)
    BY <1>4, <2>2 DEF Volumes
  <2> HIDE DEF v
  <2>5. /\ volume' \in [Dirs -> Volumes] /\ Unmixed'
        /\ volume'[restore.dir] = v
        /\ \A d \in Dirs : d # restore.dir => volume'[d] = volume[d]
    BY <1>1, <2>3, <2>4, FillFields, UnmixedKept
  <2>6. restore'.pc = "tar" /\ restore'.dir = restore.dir /\ restore'.files = restore.files
        /\ restore' \in [pc : {"tar"}, dir : Dirs, files : SUBSET File] /\ Wanted' = Wanted
    BY <1>1, <1>7, GoFields, RestoreFields
  <2>7. Volume' = v
    BY <2>5, <2>6 DEF Volume
  <2>8. \A f \in restore'.files : f[2] < restore.dir => Filled(f)'
    BY <1>1, <2>5, <2>6, FilledKept
  <2>9. RestoreInv'
    BY <1>1, <2>2, <2>4, <2>5, <2>6, <2>7, <2>8 DEF RestoreInv, Named, Unmixed
  <2>10. RestoreTyped'
    BY <2>5, <2>6 DEF RestoreTyped
  <2> QED BY <2>9, <2>10
<1> QED BY <1>5, <1>6, <1>7 DEF Get, Refused

\* The directory at hand with the archive unpacked into it.
LEMMA UnpackedFields ==
  ASSUME IInv, restore.pc = "tar", NEW content \in {"torn", "whole"}
  PROVE  /\ Unpacked(content) \in Volumes
         /\ Unpacked(content).data = <<Wanted, content>>
         /\ Unpacked(content).data # NoData
         /\ deployment = "failover" => ~Unpacked(content).mixed
<1>1. TypeOK /\ RestoreInv /\ restore.dir \in Mounted /\ restore.dir \in Dirs
      /\ Volume \in Volumes
  BY RestoreFields DEF IInv, RestoreInv, Volume
<1>2. PICK i \in 1 .. MaxPods : restore.files = Named(i)
  BY <1>1 DEF RestoreInv
<1>3. Wanted \in File /\ Volume.archive[1] = Wanted
  BY <1>1, <1>2, WantedIs DEF RestoreInv
<1>4. <<Wanted, content>> \in Data /\ <<Wanted, content>> # NoData
  BY <1>3, DataFacts
<1> DEFINE m == Volume.mixed \/ (Volume.data # NoData /\ Volume.data[1] # Volume.archive[1])
           a == <<Wanted, content>>
<1>5. Unpacked(content) = [Volume EXCEPT !.data = a, !.mixed = m, !.local = FALSE]
  BY <1>1, <1>3 DEF Unpacked, Volumes
<1>6. m \in BOOLEAN
  BY <1>1 DEF Volumes
<1>7. deployment = "failover" => ~m
  BY <1>1 DEF RestoreInv, Volume
<1> HIDE DEF m, a
<1>8. /\ Unpacked(content) \in Volumes /\ Unpacked(content).data = a
      /\ Unpacked(content).mixed = m
  BY <1>1, <1>4, <1>5, <1>6 DEF Volumes, a
<1> QED BY <1>4, <1>7, <1>8 DEF a

LEMMA UnpackKeeps ==
  ASSUME IInv, Unpack
  PROVE  RestoreTyped' /\ RestoreInv'
<1>1. TypeOK /\ RestoreInv /\ UNCHANGED deployment /\ Mounted' = Mounted
      /\ restore.pc = "tar" /\ restore.dir \in Mounted /\ restore.dir \in Dirs
      /\ (Fault \/ UNCHANGED faults)
  BY RestoreFields DEF IInv, Unpack, Mounted, RestoreInv
<1>2. PICK i \in 1 .. MaxPods : restore.files = Named(i)
  BY <1>1 DEF RestoreInv
<1>3. Wanted[2] = restore.dir
  BY <1>1, <1>2, WantedIs
<1> DEFINE v == Unpacked("whole")
<1>4. /\ v \in Volumes /\ v.data = <<Wanted, "whole">> /\ v.data # NoData
      /\ deployment = "failover" => ~v.mixed
  BY <1>1, UnpackedFields
<1>5. PICK pc \in {"sed", "rm"} :
        /\ FillVolume(v) /\ GoTo(pc)
        /\ pc = "sed" <=> deployment = "cluster"
  BY DEF Unpack
<1> HIDE DEF v
<1>6. /\ volume' \in [Dirs -> Volumes] /\ Unmixed'
      /\ volume'[restore.dir] = v
      /\ \A d \in Dirs : d # restore.dir => volume'[d] = volume[d]
  BY <1>1, <1>4, <1>5, FillFields, UnmixedKept
<1>7. restore'.pc = pc /\ restore'.dir = restore.dir /\ restore'.files = restore.files
      /\ restore' \in [pc : {"sed", "rm"}, dir : Dirs, files : SUBSET File] /\ Wanted' = Wanted
  BY <1>1, <1>5, GoFields, RestoreFields
<1>8. Volume' = v
  BY <1>6, <1>7 DEF Volume
<1>9. \A f \in restore'.files : f[2] < restore.dir => Filled(f)'
  BY <1>1, <1>6, <1>7, FilledKept
<1>10. pc = "rm" => Filled(Wanted)'
  BY <1>1, <1>3, <1>4, <1>5, <1>6, <1>7 DEF Filled
<1>11. RestoreInv'
  BY <1>1, <1>4, <1>5, <1>6, <1>7, <1>8, <1>9, <1>10 DEF RestoreInv, Named, Unmixed
<1> QED BY <1>6, <1>7, <1>11 DEF RestoreTyped

LEMMA TarFailsKeeps ==
  ASSUME IInv, TarFails
  PROVE  RestoreTyped' /\ RestoreInv'
<1>1. TypeOK /\ RestoreInv /\ UNCHANGED deployment /\ Exit
      /\ restore.pc = "tar" /\ restore.dir \in Mounted /\ restore.dir \in Dirs
      /\ Volume \in Volumes /\ (Volume.data = NoData => ~Volume.mixed)
  BY RestoreFields DEF IInv, TarFails, RestoreInv, Volume
<1>2. PICK u \in {Volume, Unpacked("torn")} :
        \E sed \in {u.local, deployment = "cluster" /\ u.data # NoData} :
          FillVolume([u EXCEPT !.local = sed])
  BY DEF TarFails
<1>3. u \in Volumes /\ (u.data = NoData => ~u.mixed)
  BY <1>1, <1>2, UnpackedFields
<1>4. PICK sed \in BOOLEAN : FillVolume([u EXCEPT !.local = sed])
  BY <1>2, <1>3 DEF Volumes
<1> DEFINE v == [u EXCEPT !.local = sed]
<1>5. v \in Volumes /\ (v.data = NoData => ~v.mixed)
  BY <1>3, <1>4 DEF Volumes
<1>6. FillVolume(v)
  BY <1>4
<1> HIDE DEF v
<1>7. volume' \in [Dirs -> Volumes] /\ Unmixed'
  BY <1>1, <1>5, <1>6, FillFields, UnmixedKept
<1> QED BY <1>1, <1>7, ExitKeeps DEF RestoreTyped

LEMMA SedKeeps ==
  ASSUME IInv, Sed
  PROVE  RestoreTyped' /\ RestoreInv'
<1>1. TypeOK /\ RestoreInv /\ UNCHANGED deployment /\ Mounted' = Mounted
      /\ restore.pc = "sed" /\ restore.dir \in Mounted /\ restore.dir \in Dirs
      /\ (Fault \/ UNCHANGED faults)
      /\ Volume \in Volumes /\ deployment = "cluster" /\ Volume.data = <<Wanted, "whole">>
  BY RestoreFields DEF IInv, Sed, Mounted, RestoreInv, Volume
<1>2. PICK i \in 1 .. MaxPods : restore.files = Named(i)
  BY <1>1 DEF RestoreInv
<1>3. Wanted \in File /\ Wanted[2] = restore.dir
  BY <1>1, <1>2, WantedIs
<1>4. /\ volume' \in [Dirs -> Volumes] /\ Unmixed'
      /\ volume'[restore.dir].data = <<Wanted, "whole">>
      /\ volume'[restore.dir].local \/ faults' < MaxFaults
      /\ \A d \in Dirs : d # restore.dir => volume'[d] = volume[d]
  <2>1. CASE FillVolume([Volume EXCEPT !.local = TRUE])
    <3> DEFINE v == [Volume EXCEPT !.local = TRUE]
    <3>1. v \in Volumes /\ v.local = TRUE /\ v.data = Volume.data
      BY <1>1 DEF Volumes
    <3>2. v \in Volumes /\ v.local = TRUE /\ v.data = <<Wanted, "whole">> /\ v.data # NoData
      BY <1>1, <1>3, <3>1, DataFacts
    <3>3. FillVolume(v)
      BY <2>1
    <3> HIDE DEF v
    <3> QED BY <1>1, <3>2, <3>3, FillFields, UnmixedKept
  <2>2. CASE UNCHANGED volume /\ Fault
    <3>1. faults' < MaxFaults
      BY <1>1, <2>2, Directories DEF Fault, TypeOK, BackupTypeOK
    <3> QED BY <1>1, <2>2, <3>1, RestoreFields DEF Volume, Unmixed, RestoreInv
  <2> QED BY <2>1, <2>2 DEF Sed
<1>5. restore'.pc = "rm" /\ restore'.dir = restore.dir /\ restore'.files = restore.files
      /\ restore' \in [pc : {"rm"}, dir : Dirs, files : SUBSET File] /\ Wanted' = Wanted
  BY <1>1, GoFields, RestoreFields DEF Sed
<1>6. \A f \in restore'.files : f[2] < restore.dir => Filled(f)'
  BY <1>1, <1>4, <1>5, FilledKept
<1>7. Filled(Wanted)'
  BY <1>1, <1>3, <1>4, <1>5 DEF Filled
<1>8. RestoreInv'
  BY <1>1, <1>4, <1>5, <1>6, <1>7 DEF RestoreInv, Named, Unmixed
<1> QED BY <1>4, <1>5, <1>8 DEF RestoreTyped

LEMMA RmKeeps ==
  ASSUME IInv, Rm
  PROVE  RestoreTyped' /\ RestoreInv'
<1>1. TypeOK /\ RestoreInv /\ UNCHANGED deployment /\ Mounted' = Mounted
      /\ restore.pc = "rm" /\ restore.dir \in Mounted /\ restore.dir \in Dirs
      /\ (Fault \/ UNCHANGED faults)
      /\ Volume \in Volumes /\ Filled(Wanted)
  BY RestoreFields DEF IInv, Rm, Mounted, RestoreInv, Volume
<1>2. PICK i \in 1 .. MaxPods : restore.files = Named(i)
  BY <1>1 DEF RestoreInv
<1>3. /\ \A f \in restore.files : f[2] = restore.dir => f = Wanted
      /\ Wanted \in File /\ Wanted[2] = restore.dir
  BY <1>1, <1>2, WantedIs
<1>4. /\ volume' \in [Dirs -> Volumes] /\ Unmixed'
      /\ volume'[restore.dir].data = Volume.data
      /\ volume'[restore.dir].mixed = Volume.mixed
      /\ volume'[restore.dir].local = Volume.local
      /\ \A d \in Dirs : d # restore.dir => volume'[d] = volume[d]
  <2>1. CASE FillVolume([Volume EXCEPT !.archive = NoData])
    <3> DEFINE v == [Volume EXCEPT !.archive = NoData]
    <3>1. v \in Volumes /\ v.data = Volume.data /\ v.mixed = Volume.mixed
          /\ v.local = Volume.local
      BY <1>1, DataFacts DEF Volumes
    <3>2. v.data = NoData => ~v.mixed
      BY <1>1, <3>1 DEF RestoreInv, Volume
    <3>3. FillVolume(v)
      BY <2>1
    <3> HIDE DEF v
    <3> QED BY <1>1, <3>1, <3>2, <3>3, FillFields, UnmixedKept
  <2>2. CASE UNCHANGED volume
    BY <1>1, <2>2, RestoreFields DEF Volume, Unmixed, RestoreInv
  <2> QED BY <2>1, <2>2 DEF Rm
<1>5. restore'.files = restore.files
  BY RestoreFields DEF Rm, TypeOK
<1>6. Filled(Wanted) => \A f \in restore.files : f[2] = restore.dir => Filled(f)'
  BY <1>1, <1>3, <1>4, FaultsFall DEF Filled, Volume
<1>7. \A f \in restore.files : f[2] < restore.dir \/ f[2] = restore.dir => Filled(f)'
  <2>1. \A f \in restore.files : f[2] < restore.dir => Filled(f)'
    BY <1>1, <1>4, <1>5, FilledKept
  <2> QED BY <1>1, <1>6, <2>1
<1>8. restore.files \subseteq File /\ \A f \in restore.files : f[2] \in Mounted
  BY <1>2, Files
<1>9. CASE restore.dir + 1 \in Mounted
  <2>1. /\ restore'.pc = "get" /\ restore'.dir = restore.dir + 1
        /\ restore' \in [pc : {"get"}, dir : Mounted, files : SUBSET File]
    BY <1>1, <1>9 DEF Rm, TypeOK
  <2>2. \A f \in restore'.files : f[2] < restore'.dir => Filled(f)'
    BY <1>1, <1>5, <1>7, <1>8, <1>9, <2>1, Loop
  <2>3. deployment # "failover"
    BY <1>1, <1>9, Directories
  <2> QED BY <1>1, <1>2, <1>4, <1>5, <2>1, <2>2, <2>3, Directories
          DEF RestoreInv, RestoreTyped, Named, Unmixed
<1>10. CASE restore.dir + 1 \notin Mounted
  <2>1. /\ restore'.pc = "succeed" /\ restore'.dir = restore.dir
        /\ restore' \in [pc : {"succeed"}, dir : Dirs, files : SUBSET File]
    BY <1>1, <1>10 DEF Rm, TypeOK
  <2>2. \A f \in restore'.files : Filled(f)'
    BY <1>1, <1>5, <1>7, <1>8, <1>10, Loop
  <2> QED BY <1>1, <1>2, <1>4, <1>5, <2>1, <2>2 DEF RestoreInv, RestoreTyped, Named, Unmixed
<1> QED BY <1>9, <1>10

LEMMA RestoreKeeps ==
  ASSUME IInv, RestoreNext
  PROVE  RestoreTyped' /\ RestoreInv'
<1>1. CASE KillRestore
  <2>1. /\ TypeOK /\ RestoreInv /\ Exit /\ UNCHANGED <<deployment, volume>>
        /\ volume \in [Dirs -> Volumes]
    BY <1>1, RestoreFields DEF IInv, KillRestore, backupVars
  <2>2. Unmixed'
    BY <2>1 DEF Unmixed, RestoreInv
  <2> QED BY <2>1, <2>2, ExitKeeps DEF RestoreTyped
<1> QED BY <1>1, StartRestoreKeeps, LsKeeps, GetKeeps, UnpackKeeps, TarFailsKeeps, SedKeeps, RmKeeps
        DEF RestoreNext

\* The pods see nothing of a restore, nor a restore of them.
LEMMA PodsUntouched ==
  ASSUME IInv, RestoreNext
  PROVE  BackupTypeOK' /\ PodInv' /\ LyingInv' /\ ResultInv'
<1>1. /\ BackupTypeOK /\ PodInv /\ LyingInv /\ ResultInv
      /\ UNCHANGED <<deployment, backupVars>>
  BY DEF IInv, TypeOK, RestoreNext, StartRestore, Ls, Get, Unpack, TarFails, Sed, Rm, KillRestore
<1>2. Fault \/ UNCHANGED faults
  BY DEF RestoreNext, StartRestore, Ls, Get, Unpack, TarFails, Sed, Rm, KillRestore
<1>3. BackupTypeOK'
  BY <1>1, <1>2, FaultTyped DEF BackupTypeOK, backupVars
<1> QED BY <1>1, <1>3 DEF backupVars, PodInv, LyingInv, ResultInv, Packing, Uploading, Clearing,
        Uploaded, Working, Named, Mounted, Stored, Own

LEMMA RestoreUntouched ==
  ASSUME IInv, UNCHANGED <<deployment, restore, volume>>, Fault \/ UNCHANGED faults
  PROVE  RestoreTyped' /\ RestoreInv'
<1>1. TypeOK /\ RestoreInv /\ Mounted' = Mounted /\ Volume' = Volume /\ Wanted' = Wanted
  BY DEF IInv, Mounted, Volume, Wanted
<1>2. \A f : Filled(f) => Filled(f)'
  BY <1>1, FaultsFall DEF Filled
<1>3. RestoreTyped'
  BY <1>1, RestoreFields DEF RestoreTyped, TypeOK
<1>4. /\ restore.pc = "rm" => Filled(Wanted)'
      /\ restore.pc \in {"get", "tar", "sed", "rm"} =>
           \A f \in restore.files : f[2] < restore.dir => Filled(f)'
      /\ restore.pc = "succeed" => \A f \in restore.files : Filled(f)'
  BY <1>1, <1>2 DEF RestoreInv
<1> QED BY <1>1, <1>3, <1>4 DEF RestoreInv, Named

LEMMA IInvNext == IInv /\ [Next]_vars => IInv'
<1> SUFFICES ASSUME IInv, [Next]_vars
             PROVE  IInv'
  OBVIOUS
<1>1. ASSUME BackupTypeOK', RestoreTyped'
      PROVE  TypeOK'
  BY <1>1 DEF TypeOK, RestoreTyped, Volumes
<1>2. CASE BackupNext /\ UNCHANGED <<restore, volume>>
  <2>1. UNCHANGED deployment /\ (Fault \/ UNCHANGED faults)
    BY <1>2 DEF BackupNext, StartPod, Tar, TarDir, Put, PutFails, Clear, Undo, Publish, Expire,
                KeyExpires, KillPod
  <2> QED BY <1>1, <1>2, <2>1, BackupKeeps, RestoreUntouched DEF IInv, TypeOK
<1>3. CASE RestoreNext
  BY <1>1, <1>3, RestoreKeeps, PodsUntouched DEF IInv
<1>4. CASE UNCHANGED vars
  <2>1. BackupTypeOK' /\ PodInv' /\ LyingInv' /\ ResultInv'
    BY <1>4 DEF vars, backupVars, IInv, TypeOK, BackupTypeOK, PodInv, LyingInv, ResultInv, Packing,
                Uploading, Clearing, Uploaded, Working, Named, Mounted, Stored, Own
  <2> QED BY <1>1, <1>4, <2>1, RestoreUntouched DEF vars, IInv
<1> QED BY <1>2, <1>3, <1>4 DEF Next

LEMMA IInvInit == Init => IInv
<1> SUFFICES ASSUME Init
             PROVE  IInv
  OBVIOUS
<1>1. /\ pod = [pc |-> "idle", id |-> 0, dir |-> 1, files |-> {}, status |-> "Failed", once |-> FALSE]
      /\ deployment \in Deployments /\ result = Absent /\ faults = MaxFaults
      /\ lying = [f \in File |-> "none"] /\ bucket = [f \in File |-> "none"]
      /\ restore = [pc |-> "idle", dir |-> 1, files |-> {}]
  BY DEF Init, BackupInit
<1>2. 1 \in Mounted /\ 1 \in Dirs
  BY Directories
<1>3. BackupTypeOK
  BY <1>1, <1>2, Directories DEF BackupTypeOK, Content
<1>4. RestoreTyped
  <2>1. NoData \in Data \ {OldData} /\ OldData \in Data
    BY DataFacts
  <2>2. PICK d \in {NoData, OldData} :
          volume = [i \in Dirs |-> [archive |-> NoData, data |-> d, mixed |-> FALSE, local |-> FALSE]]
    BY DEF Init
  <2>3. volume \in [Dirs -> Volumes]
    BY <2>1, <2>2 DEF Volumes
  <2> QED BY <1>1, <1>2, <2>3 DEF RestoreTyped
<1>5. TypeOK
  BY <1>3, <1>4 DEF TypeOK, RestoreTyped, Volumes
<1>6. PodInv /\ LyingInv /\ ResultInv
  BY <1>1, <1>2 DEF PodInv, LyingInv, ResultInv
<1>7. RestoreInv
  BY <1>1, <1>2 DEF RestoreInv, Init
<1> QED BY <1>5, <1>6, <1>7 DEF IInv

----------------------------------------------------------------------------
\* The inductive invariant: the types, how far a pod has come, what lies in the
\* directories, what the last result rests on, and how far a restore has come.
THEOREM ScriptInvariant == Spec => []IInv
<1> QED BY IInvInit, IInvNext, PTL DEF Spec

\* Every reachable state of the scripts is well typed; in particular a restore
\* finds an archive for each directory it comes to.
THEOREM ScriptTypes == Spec => []TypeOK
<1>1. IInv => TypeOK
  BY DEF IInv
<1> QED BY <1>1, ScriptInvariant, PTL

\* What a result that says Succeed names is in the bucket, and whole for a Redis
\* Cluster, whatever later pods upload and delete.
THEOREM SucceedStored == Spec => []SucceedIsStored
<1>1. IInv => SucceedIsStored
  <2> SUFFICES ASSUME IInv, result # Absent, result.status = "Succeed"
               PROVE  /\ {f[2] : f \in result.files} = Mounted
                      /\ \A f \in result.files :
                           /\ bucket[f] # "none"
                           /\ deployment = "cluster" => bucket[f] = "whole"
    BY DEF SucceedIsStored
  <2>1. PICK i \in 1 .. pod.id :
          result.files = Named(i) /\ \A f \in Named(i) : Stored(f)
    BY DEF IInv, ResultInv
  <2>2. i \in 1 .. MaxPods
    BY PodFields, Directories DEF IInv, TypeOK
  <2>3. {f[2] : f \in Named(i)} = Mounted
    <3>1. \A f \in Named(i) : f[2] \in Mounted
      BY <2>2, Files
    <3>2. \A d \in Mounted : <<i, d>> \in Named(i) /\ <<i, d>>[2] = d
      BY <2>2, Files
    <3> QED BY <3>1, <3>2
  <2> QED BY <2>1, <2>3 DEF Stored
<1> QED BY <1>1, ScriptInvariant, PTL

\* A restore that ends well has unpacked every directory from the archive it was
\* asked for, and all of it, whatever earlier tries and later backups did and
\* whichever of rm and sed failed; beside nothing else in a failover Redis, and
\* with the local address in a Redis Cluster when nothing failed.
THEOREM Restored == Spec => []RestoredWhole
<1>1. IInv => RestoredWhole
  <2> SUFFICES ASSUME IInv, restore.pc = "succeed", NEW d \in Mounted
               PROVE  /\ volume[d].data \in restore.files \X {"whole"}
                      /\ volume[d].data[1][2] = d
                      /\ deployment = "failover" => ~volume[d].mixed
                      /\ deployment = "cluster" => volume[d].local \/ faults < MaxFaults
    BY DEF RestoredWhole
  <2>1. PICK i \in 1 .. MaxPods : restore.files = Named(i)
    BY DEF IInv, RestoreInv
  <2>2. <<i, d>> \in restore.files /\ Filled(<<i, d>>)
    BY <2>1, Files DEF IInv, RestoreInv
  <2> QED BY <2>2 DEF Filled
<1> QED BY <1>1, ScriptInvariant, PTL

\* No later pod changes or deletes an archive that is in the bucket, whatever
\* lies in the directories and whatever it undoes.
THEOREM StoredKept == Spec => KeepsStored
<1>1. ASSUME IInv, [Next]_vars, NEW f \in File, f[1] # pod.id, bucket[f] # "none"
      PROVE  bucket'[f] = bucket[f]
  <2>1. CASE BackupNext
    BY <1>1, <2>1, BackupTypes, LyingKeeps DEF IInv, TypeOK
  <2>2. CASE RestoreNext \/ UNCHANGED vars
    BY <2>2 DEF vars, backupVars, RestoreNext, StartRestore, Ls, Get, Unpack, TarFails, Sed, Rm,
                KillRestore
  <2> QED BY <1>1, <2>1, <2>2 DEF Next
<1>2. IInv /\ [Next]_vars =>
        [\A f \in File : f[1] # pod.id /\ bucket[f] # "none" => bucket'[f] = bucket[f]]_vars
  BY <1>1
<1> QED BY <1>2, ScriptInvariant, PTL DEF Spec, KeepsStored

\* redis_recover.py never writes into data that was there before.
THEOREM DataKept == Spec => KeepsData
<1>1. ASSUME IInv, [Next]_vars, deployment = "failover",
             volume[1].data \in {OldData} \cup (File \X {"whole"})
      PROVE  [volume'[1] EXCEPT !.archive = NoData] = [volume[1] EXCEPT !.archive = NoData]
  <2>1. /\ restore.dir = 1 /\ 1 \in Dirs /\ volume[1].data # NoData
        /\ TypeOK /\ volume[1] \in Volumes
    BY <1>1, Directories, DataFacts, RestoreFields DEF IInv, RestoreInv
  <2>2. restore.pc \notin {"get", "tar", "sed"}
    BY <1>1, <2>1 DEF IInv, RestoreInv, Volume
  <2>3. UNCHANGED volume \/ Rm
    BY <1>1, <2>2 DEF Next, vars, RestoreNext, StartRestore, Ls, Get, Unpack, TarFails, Sed,
                      KillRestore
  <2>4. ASSUME FillVolume([volume[1] EXCEPT !.archive = NoData])
        PROVE  volume'[1] = [volume[1] EXCEPT !.archive = NoData]
    BY <2>1, <2>4 DEF FillVolume, TypeOK
  <2>5. UNCHANGED volume \/ FillVolume([volume[1] EXCEPT !.archive = NoData])
    BY <2>1, <2>3 DEF Rm, Volume
  <2>6. CASE volume'[1] = [volume[1] EXCEPT !.archive = NoData]
    BY <2>1, <2>6 DEF Volumes
  <2> QED BY <2>4, <2>5, <2>6
<1>2. IInv /\ [Next]_vars =>
        [deployment = "failover" /\ volume[1].data \in {OldData} \cup (File \X {"whole"})
           => [volume'[1] EXCEPT !.archive = NoData] = [volume[1] EXCEPT !.archive = NoData]]_vars
  BY <1>1
<1> QED BY <1>2, ScriptInvariant, PTL DEF Spec, KeepsData
=============================================================================
