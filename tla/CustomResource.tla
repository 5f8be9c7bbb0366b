--------------------------- MODULE CustomResource ---------------------------
(***************************************************************************)
(* The custom resources of one kind, as a controller that owns no other    *)
(* objects sees them: what the API server stores, what the informer cache  *)
(* of the manager holds, and the events in between.                        *)
(***************************************************************************)
EXTENDS Naturals, Sequences

CONSTANTS
  Names,       \* names of the custom resources
  Absent,      \* no object
  MaxLag       \* bound on the events of an object that are on their way

VARIABLES
  store,       \* store[n]: the object n in the API server, or Absent
  cache,       \* cache[n]: the object n in the informer cache, or Absent
  watch        \* watch[n]: versions of n sent and not yet delivered

resourceVars == <<store, cache, watch>>

ASSUME LagAssumption == MaxLag \in Nat

InitResources ==
  /\ store = [n \in Names |-> Absent]
  /\ cache = [n \in Names |-> Absent]
  /\ watch = [n \in Names |-> <<>>]

\* What store, cache and watch may hold, when a version is in V.
ResourcesIn(V) ==
  /\ {store, cache} \subseteq [Names -> V \cup {Absent}]
  /\ watch \in [Names -> Seq(V \cup {Absent})]

\* The cache will be what is stored once the last event has been delivered.
Synced(n) ==
  /\ watch[n] = <<>> => cache[n] = store[n]
  /\ watch[n] # <<>> => watch[n][Len(watch[n])] = store[n]

\* Write version v of n (v = Absent deletes it) and notify.
Put(n, v) ==
  /\ Len(watch[n]) < MaxLag
  /\ store' = [store EXCEPT ![n] = v]
  /\ watch' = [watch EXCEPT ![n] = Append(@, v)]
  /\ UNCHANGED cache

\* The informer takes the next event into the cache.
TakeEvent(n) ==
  /\ watch[n] # <<>>
  /\ cache' = [cache EXCEPT ![n] = Head(watch[n])]
  /\ watch' = [watch EXCEPT ![n] = Tail(@)]
  /\ UNCHANGED store

\* The cache of a new process lists every object before its workers start.
Relist ==
  /\ cache' = store
  /\ watch' = [n \in Names |-> <<>>]
  /\ UNCHANGED store
============================================================================
