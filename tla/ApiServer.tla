----------------------------- MODULE ApiServer -----------------------------
(***************************************************************************)
(* The Kubernetes API server as the operator sees it: a store of objects,  *)
(* and, for each object, the copy held by the informer cache of the        *)
(* manager together with the watch events that are still on their way to   *)
(* that cache.  Every r.Get and r.List of the operator reads the cache;    *)
(* every Create, Delete and Status().Update goes to the store.             *)
(*                                                                         *)
(* A write appends the new version to the watch of the object; the cache   *)
(* holds an old version until the events are delivered, in order.          *)
(***************************************************************************)
EXTENDS Naturals, Sequences

CONSTANTS
  Backups,     \* names of RedisBackup objects; a CronJob and a Job of the
               \* operator bear the name of the RedisBackup that owns them
  Absent,      \* no object, nil
  MaxLag       \* bound on the events of an object that are on their way

Kinds == {"RedisBackup", "CronJob", "Job"}

\* The identity of an object: its kind and its name.
Objects == Kinds \X Backups
Children == (Kinds \ {"RedisBackup"}) \X Backups

BackupOf(b)  == <<"RedisBackup", b>>
CronJobOf(b) == <<"CronJob", b>>
JobOf(b)     == <<"Job", b>>

VARIABLES
  store,       \* store[k]: the object k in the API server, or Absent
  cache,       \* cache[k]: the object k in the informer cache, or Absent
  watch,       \* watch[k]: versions of k sent and not yet delivered
  rev          \* rev[b]: the last resourceVersion given to RedisBackup b

apiVars == <<store, cache, watch, rev>>

----------------------------------------------------------------------------
InitApiServer ==
  /\ store = [k \in Objects |-> Absent]
  /\ cache = [k \in Objects |-> Absent]
  /\ watch = [k \in Objects |-> <<>>]
  /\ rev = [b \in Backups |-> 0]

\* Write version v of the object k (v = Absent deletes it) and notify.
Put(k, v) ==
  /\ Len(watch[k]) < MaxLag
  /\ store' = [store EXCEPT ![k] = v]
  /\ watch' = [watch EXCEPT ![k] = Append(@, v)]
  /\ UNCHANGED cache

\* Write a new version of RedisBackup b: it gets the next resourceVersion.
PutBackup(b, v) ==
  /\ Put(BackupOf(b), [v EXCEPT !.rv = rev[b] + 1])
  /\ rev' = [rev EXCEPT ![b] = @ + 1]

\* Mutated form of Current: a patch without resourceVersion.
CurrentAnyVersion(b, v) == store[BackupOf(b)] # Absent

\* The API server accepts an update only of the version it holds.
Current(b, v) ==
  /\ store[BackupOf(b)] # Absent
  /\ store[BackupOf(b)].rv = v.rv

\* The informer of k's kind takes the next event into the cache.
TakeEvent(k) ==
  /\ watch[k] # <<>>
  /\ cache' = [cache EXCEPT ![k] = Head(watch[k])]
  /\ watch' = [watch EXCEPT ![k] = Tail(@)]
  /\ UNCHANGED <<store, rev>>

\* The caches of a new process list every object before any worker starts.
Relist ==
  /\ cache' = store
  /\ watch' = [k \in Objects |-> <<>>]
  /\ UNCHANGED <<store, rev>>
============================================================================
