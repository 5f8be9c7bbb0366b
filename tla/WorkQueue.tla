----------------------------- MODULE WorkQueue -----------------------------
(***************************************************************************)
(* The rate-limited work queue of a controller.  The source keeps a FIFO   *)
(* of the keys that are dirty and not being processed; here the FIFO is    *)
(* the set dirty \ processing, so keys are taken in any order.             *)
(***************************************************************************)
VARIABLES
  dirty,       \* keys that need processing
  processing,  \* keys a worker is processing
  delayed      \* keys added with a back-off that has not elapsed

queueVars == <<dirty, processing, delayed>>

InitWorkQueue ==
  /\ dirty = {}
  /\ processing = {}
  /\ delayed = {}

\* Add also while r is being processed: Done puts it back in the queue.
Add(r) ==
  /\ dirty' = dirty \cup {r}
  /\ UNCHANGED <<processing, delayed>>

\* Mutated form of Get: the queue does not look at what is in process.
GetInProcess(r) ==
  /\ r \in dirty
  /\ dirty' = dirty \ {r}
  /\ processing' = processing \cup {r}
  /\ UNCHANGED delayed

\* Get never hands out a key that another worker is processing.
Get(r) ==
  /\ r \in dirty \ processing
  /\ dirty' = dirty \ {r}
  /\ processing' = processing \cup {r}
  /\ UNCHANGED delayed

\* Mutated form of Done: the key is done with, whatever was added meanwhile.
DoneForgets(r) ==
  /\ processing' = processing \ {r}
  /\ dirty' = dirty \ {r}
  /\ UNCHANGED delayed

\* Done after a nil error.
Done(r) ==
  /\ processing' = processing \ {r}
  /\ UNCHANGED <<dirty, delayed>>

\* AddRateLimited and Done after an error.
DoneWithError(r) ==
  /\ processing' = processing \ {r}
  /\ delayed' = delayed \cup {r}
  /\ UNCHANGED dirty

\* The back-off of r elapses.
AddDelayed(r) ==
  /\ r \in delayed
  /\ delayed' = delayed \ {r}
  /\ dirty' = dirty \cup {r}
  /\ UNCHANGED processing

\* Mutated form of Refill: a new process waits for events.
RefillNothing(R) ==
  /\ dirty' = {}
  /\ processing' = {}
  /\ delayed' = {}

\* The queue of a new process holds the objects its caches listed.
Refill(R) ==
  /\ dirty' = R
  /\ processing' = {}
  /\ delayed' = {}
============================================================================
