------------------------------- MODULE Storage -------------------------------
(***************************************************************************)
(* The messages table and its write queue: MessageCache, which uses the    *)
(* queue through what BatchSink promises, and BatchingQueue, which keeps   *)
(* that promise.                                                           *)
(***************************************************************************)
EXTENDS MessageCache, Sequences

CONSTANTS Elements, BatchSize, Timeout, Ticker

\* The ticker is not one of the elements.
ASSUME QueueAssumption ==
  /\ BatchSize \in Nat
  /\ Timeout \in Nat
  /\ Ticker \notin Elements

VARIABLES enqueued, in, sending, handling, handled

queueVars == <<enqueued, in, sending, handling, handled>>

Q == INSTANCE BatchingQueue

StorageInit == Init /\ Q!Init

\* The table, while no one uses the queue but through its promise.
CacheNext == Next /\ UNCHANGED queueVars
CacheSpec == StorageInit /\ [][CacheNext]_<<vars, queueVars>> /\ Fairness

\* The queue.
QueueNext == Q!Next /\ UNCHANGED vars
QueueSpec == StorageInit /\ [][QueueNext]_<<vars, queueVars>> /\ Q!Fairness

\* The queue implements the promise of BatchSink, by which the cache writes.
ImplementsSink == Q!ImplementsSink

\* With a ticker, whatever is enqueued is handled in the end (timeoutTicker).
EventuallyHandled == Q!EventuallyHandled
==============================================================================
