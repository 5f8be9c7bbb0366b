------------------------ MODULE CustomResourceProofs ------------------------
(***************************************************************************)
(* What the writes of CustomResource, the delivery of an event and the     *)
(* start of a process do to the resources, for the proofs about the        *)
(* controllers that use them.                                              *)
(***************************************************************************)
EXTENDS CustomResource, SequenceTheorems, TLAPS

\* The last element of a queue stays the last one when the head is taken.
LEMMA LastOfTail ==
  ASSUME NEW S, NEW s \in Seq(S), s # <<>>
  PROVE  /\ Head(s) \in S /\ Tail(s) \in Seq(S)
         /\ Tail(s) = <<>> => Head(s) = s[Len(s)]
         /\ Tail(s) # <<>> => Tail(s)[Len(Tail(s))] = s[Len(s)]
<1>1. /\ Head(s) \in S /\ Tail(s) \in Seq(S) /\ Len(Tail(s)) = Len(s) - 1
      /\ \A i \in 1 .. Len(Tail(s)) : Tail(s)[i] = s[i + 1]
  BY HeadTailProperties
<1>2. /\ Len(s) \in Nat \ {0} /\ Len(Tail(s)) \in Nat
      /\ Tail(s) = <<>> => Len(Tail(s)) = 0
      /\ Tail(s) # <<>> => Len(Tail(s)) \in Nat \ {0}
  <2>1. \A t \in Seq(S) : t # <<>> => Len(t) \in Nat \ {0}
    BY EmptySeq
  <2>2. Len(<<>>) = 0
    OBVIOUS
  <2> QED BY <1>1, <2>1, <2>2, LenProperties
<1>3. Tail(s) = <<>> => Len(s) = 1
  BY <1>1, <1>2
<1>4. Head(s) = s[1]
  OBVIOUS
<1>5. Tail(s) # <<>> => Len(Tail(s)) \in 1 .. Len(Tail(s)) /\ Len(Tail(s)) + 1 = Len(s)
  BY <1>1, <1>2
<1> QED BY <1>1, <1>3, <1>4, <1>5

\* A write of a version in V keeps what the resources hold, leaves an event
\* on its way and loses track of no object.
LEMMA PutKeeps ==
  ASSUME NEW CONSTANT V, ResourcesIn(V), \A m \in Names : Synced(m),
         NEW n \in Names, NEW v \in V \cup {Absent}, Put(n, v)
  PROVE  /\ ResourcesIn(V)'
         /\ \A m \in Names : Synced(m)'
         /\ watch'[n] # <<>> /\ cache' = cache
         /\ \A m \in Names \ {n} : watch'[m] = watch[m] /\ store'[m] = store[m]
<1> DEFINE W == V \cup {Absent}
<1>1. /\ store \in [Names -> W] /\ cache \in [Names -> W]
      /\ watch \in [Names -> Seq(W)] /\ watch[n] \in Seq(W) /\ v \in W
  BY DEF ResourcesIn
<1>2. /\ Append(watch[n], v) \in Seq(W)
      /\ Append(watch[n], v) # <<>>
      /\ Append(watch[n], v)[Len(Append(watch[n], v))] = v
  <2> HIDE DEF W
  <2> QED BY <1>1, AppendProperties
<1>3. /\ store' = [store EXCEPT ![n] = v] /\ cache' = cache
      /\ watch' = [watch EXCEPT ![n] = Append(watch[n], v)]
  BY DEF Put
<1>4. /\ watch'[n] = Append(watch[n], v) /\ store'[n] = v
      /\ \A m \in Names \ {n} : watch'[m] = watch[m] /\ store'[m] = store[m]
  BY <1>1, <1>3
<1>5. ResourcesIn(V)'
  <2>1. store' \in [Names -> W] /\ watch' \in [Names -> Seq(W)]
    BY <1>1, <1>2, <1>3
  <2> QED BY <1>1, <1>3, <2>1 DEF ResourcesIn
<1>6. ASSUME NEW m \in Names PROVE Synced(m)'
  <2>1. CASE m = n
    BY <1>2, <1>4, <2>1 DEF Synced
  <2>2. CASE m # n
    BY <1>3, <1>4, <2>2 DEF Synced
  <2> QED BY <2>1, <2>2
<1> QED BY <1>2, <1>3, <1>4, <1>5, <1>6

\* The events that were on their way stay in front of a new one.
LEMMA PutAppends ==
  ASSUME NEW CONSTANT V, ResourcesIn(V), NEW n \in Names, NEW v \in V \cup {Absent}, Put(n, v)
  PROVE  /\ store'[n] = v /\ Len(watch[n]) \in Nat
         /\ DOMAIN watch[n] = 1 .. Len(watch[n])
         /\ DOMAIN watch'[n] = 1 .. Len(watch[n]) + 1
         /\ \A i \in 1 .. Len(watch[n]) : watch'[n][i] = watch[n][i]
         /\ watch'[n][Len(watch[n]) + 1] = v
<1> DEFINE W == V \cup {Absent}
           s == watch[n]
<1>1. s \in Seq(W) /\ v \in W /\ store \in [Names -> W] /\ watch \in [Names -> Seq(W)]
  BY DEF ResourcesIn
<1>2. watch'[n] = Append(s, v) /\ store'[n] = v
  BY <1>1 DEF Put
<1>3. /\ Len(s) \in Nat /\ DOMAIN s = 1 .. Len(s)
      /\ Append(s, v) \in Seq(W) /\ Len(Append(s, v)) = Len(s) + 1
      /\ \A i \in 1 .. Len(s) : Append(s, v)[i] = s[i]
      /\ Append(s, v)[Len(s) + 1] = v
  <2> HIDE DEF W, s
  <2> QED BY <1>1, AppendProperties, LenProperties
<1>4. DOMAIN Append(s, v) = 1 .. Len(s) + 1
  <2> HIDE DEF W, s
  <2> QED BY <1>3, LenProperties
<1> QED BY <1>2, <1>3, <1>4

\* The first event goes to the cache, and the others move up.
LEMMA TakeEventShifts ==
  ASSUME NEW CONSTANT V, ResourcesIn(V), NEW n \in Names, TakeEvent(n)
  PROVE  /\ Len(watch[n]) \in Nat \ {0}
         /\ DOMAIN watch[n] = 1 .. Len(watch[n])
         /\ DOMAIN watch'[n] = 1 .. Len(watch[n]) - 1
         /\ cache'[n] = watch[n][1] /\ cache'[n] = Head(watch[n])
         /\ \A i \in 1 .. Len(watch[n]) - 1 : watch'[n][i] = watch[n][i + 1]
<1> DEFINE W == V \cup {Absent}
           s == watch[n]
<1>1. /\ s \in Seq(W) /\ s # <<>>
      /\ cache \in [Names -> W] /\ watch \in [Names -> Seq(W)]
  BY DEF ResourcesIn, TakeEvent
<1>2. watch'[n] = Tail(s) /\ cache'[n] = Head(s)
  BY <1>1 DEF TakeEvent
<1>3. /\ Tail(s) \in Seq(W) /\ Len(Tail(s)) = Len(s) - 1
      /\ \A i \in 1 .. Len(Tail(s)) : Tail(s)[i] = s[i + 1]
  <2> HIDE DEF W, s
  <2> QED BY <1>1, HeadTailProperties
<1>4. Len(s) \in Nat \ {0} /\ DOMAIN s = 1 .. Len(s) /\ Head(s) = s[1]
  <2> HIDE DEF W, s
  <2> QED BY <1>1, EmptySeq, LenProperties
<1>5. DOMAIN Tail(s) = 1 .. Len(s) - 1
  <2> HIDE DEF W, s
  <2> QED BY <1>3, LenProperties
<1> QED BY <1>2, <1>3, <1>4, <1>5

\* The delivery of an event of n touches the cache of n only.
LEMMA TakeEventKeeps ==
  ASSUME NEW CONSTANT V, ResourcesIn(V), \A m \in Names : Synced(m),
         NEW n \in Names, TakeEvent(n)
  PROVE  /\ ResourcesIn(V)'
         /\ \A m \in Names : Synced(m)'
         /\ \A m \in Names \ {n} : watch'[m] = watch[m] /\ cache'[m] = cache[m]
<1> DEFINE W == V \cup {Absent}
           s == watch[n]
<1>1. /\ store \in [Names -> W] /\ cache \in [Names -> W]
      /\ watch \in [Names -> Seq(W)] /\ s \in Seq(W)
  BY DEF ResourcesIn
<1>2. s # <<>>
  BY DEF TakeEvent
<1>3. /\ Head(s) \in W /\ Tail(s) \in Seq(W)
      /\ Tail(s) = <<>> => Head(s) = s[Len(s)]
      /\ Tail(s) # <<>> => Tail(s)[Len(Tail(s))] = s[Len(s)]
  <2> HIDE DEF W, s
  <2> QED BY <1>1, <1>2, LastOfTail
<1>4. /\ store' = store
      /\ cache' = [cache EXCEPT ![n] = Head(s)]
      /\ watch' = [watch EXCEPT ![n] = Tail(s)]
  BY DEF TakeEvent
<1>5. /\ watch'[n] = Tail(s) /\ cache'[n] = Head(s)
      /\ \A m \in Names \ {n} : watch'[m] = watch[m] /\ cache'[m] = cache[m]
  BY <1>1, <1>4
<1>6. ResourcesIn(V)'
  <2>1. cache' \in [Names -> W] /\ watch' \in [Names -> Seq(W)]
    BY <1>1, <1>3, <1>4
  <2> QED BY <1>1, <1>4, <2>1 DEF ResourcesIn
<1>7. ASSUME NEW m \in Names PROVE Synced(m)'
  <2>1. CASE m = n
    <3>1. s[Len(s)] = store[n]
      BY <1>2 DEF Synced
    <3> QED BY <1>3, <1>4, <1>5, <2>1, <3>1 DEF Synced
  <2>2. CASE m # n
    BY <1>4, <1>5, <2>2 DEF Synced
  <2> QED BY <2>1, <2>2
<1> QED BY <1>5, <1>6, <1>7

\* The cache of a new process is what is stored.
LEMMA RelistKeeps ==
  ASSUME NEW CONSTANT V, ResourcesIn(V), Relist
  PROVE  ResourcesIn(V)' /\ \A m \in Names : Synced(m)'
<1>1. /\ cache' = store /\ store' = store /\ watch' = [n \in Names |-> <<>>]
  BY DEF Relist
<1>2. \A m \in Names : watch'[m] = <<>>
  BY <1>1
<1>3. watch' \in [Names -> Seq(V \cup {Absent})]
  BY <1>1
<1> QED BY <1>1, <1>2, <1>3 DEF ResourcesIn, Synced

\* Nothing is stored when the system starts.
LEMMA InitKeeps ==
  ASSUME NEW CONSTANT V, InitResources
  PROVE  ResourcesIn(V) /\ \A m \in Names : Synced(m) /\ cache[m] = Absent
BY DEF InitResources, ResourcesIn, Synced
=============================================================================
