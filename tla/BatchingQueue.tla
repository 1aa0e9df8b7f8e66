---------------------------- MODULE BatchingQueue ----------------------------
(***************************************************************************)
(* util/batching_queue.go: a queue that groups elements into batches of    *)
(* BatchSize, or of whatever has come in when the ticker fires.  Enqueue   *)
(* and the ticker take the batch out of q.in under q.mu, but send it on    *)
(* the unbuffered channel q.out after q.mu is released, so several batches *)
(* can be on their way at once.  Each element is enqueued by a goroutine   *)
(* of its own, which is named after the element.                           *)
(***************************************************************************)
EXTENDS Naturals, Sequences

CONSTANTS Elements,   \* what is enqueued, each element once
          BatchSize,  \* batchSize; 0: only the ticker emits batches
          Timeout,    \* timeout; 0: there is no ticker
          Ticker      \* the goroutine running timeoutTicker

VARIABLES enqueued,   \* the elements whose Enqueue has appended them
          in,         \* q.in
          sending,    \* per goroutine, the batch it is sending on q.out
          handling,   \* the batch the consumer is busy with, <<>> if it waits on q.out
          handled     \* what the consumer has dealt with, in that order

vars == <<enqueued, in, sending, handling, handled>>

Senders == Elements \cup {Ticker}

Init ==
  /\ enqueued = {}
  /\ in = <<>>
  /\ sending = [p \in Senders |-> <<>>]
  /\ handling = <<>>
  /\ handled = <<>>

\* mu.Lock; append; dequeueAll if the batch is full; mu.Unlock.  The send that
\* follows is Receive.
Enqueue(e) ==
  LET elements == Append(in, e) IN
  /\ e \notin enqueued
  /\ enqueued' = enqueued \cup {e}
  /\ \/ /\ Len(elements) = BatchSize
        /\ in' = <<>>
        /\ sending' = [sending EXCEPT ![e] = elements]
     \/ /\ Len(elements) # BatchSize
        /\ in' = elements
        /\ UNCHANGED sending
  /\ UNCHANGED <<handling, handled>>

\* Mutant: the ticker, too, waits for a full batch.
TimeoutTickFull ==
  /\ Timeout # 0
  /\ sending[Ticker] = <<>>
  /\ Len(in) = BatchSize
  /\ sending' = [sending EXCEPT ![Ticker] = in]
  /\ in' = <<>>
  /\ UNCHANGED <<enqueued, handling, handled>>

\* One turn of the ticker's loop; a turn that finds q.in empty changes nothing.
TimeoutTick ==
  /\ Timeout # 0
  /\ sending[Ticker] = <<>>
  /\ in # <<>>
  /\ sending' = [sending EXCEPT ![Ticker] = in]
  /\ in' = <<>>
  /\ UNCHANGED <<enqueued, handling, handled>>

\* Mutant: the sender sends its batch again.
ReceiveTwice(p) ==
  /\ sending[p] # <<>>
  /\ handling = <<>>
  /\ handling' = sending[p]
  /\ UNCHANGED <<enqueued, in, sending, handled>>

\* q.out is unbuffered: the batch changes hands when the consumer receives it.
Receive(p) ==
  /\ sending[p] # <<>>
  /\ handling = <<>>
  /\ handling' = sending[p]
  /\ sending' = [sending EXCEPT ![p] = <<>>]
  /\ UNCHANGED <<enqueued, in, handled>>

\* The body of the consumer's "for batch := range q.Dequeue()".
Handle ==
  /\ handling # <<>>
  /\ handled' = handled \o handling
  /\ handling' = <<>>
  /\ UNCHANGED <<enqueued, in, sending>>

Next ==
  \/ \E e \in Elements : Enqueue(e)
  \/ TimeoutTick
  \/ \E p \in Senders : Receive(p)
  \/ Handle

Spec == Init /\ [][Next]_vars

\* The ticker goes on ticking and the consumer's loop goes on running.  A
\* goroutine blocked on q.out is in the channel's first-come-first-served queue
\* of senders, so it is not passed over for ever: strong fairness.
Fairness ==
  /\ WF_vars(TimeoutTick)
  /\ WF_vars(Handle)
  /\ \A p \in Senders : SF_vars(Receive(p))

-----------------------------------------------------------------------------
Items(s) == {s[i] : i \in 1..Len(s)}

OnTheWay == UNION {Items(sending[p]) : p \in Senders}

\* What has been taken but not handled.
Waiting == Items(in) \cup OnTheWay \cup Items(handling)

\* The types of the state.
TypeOK ==
  /\ enqueued \subseteq Elements
  /\ in \in Seq(Elements)
  /\ sending \in [Senders -> Seq(Elements)]
  /\ handling \in Seq(Elements)
  /\ handled \in Seq(Elements)

Injective(s) == \A i, j \in 1..Len(s) : s[i] = s[j] => i = j

Disjoint(S, T) == \A x \in S : x \notin T

\* Every enqueued element is in exactly one place, and there exactly once: in
\* q.in, in one of the batches on their way, with the consumer, or handled.  So
\* the batches that leave the lock before they are sent neither lose nor
\* duplicate an element, however Enqueue, the ticker and the consumer interleave.
NoneLostNoneTwice ==
  /\ enqueued = Waiting \cup Items(handled)
  /\ Injective(in) /\ Injective(handling) /\ Injective(handled)
  /\ \A p \in Senders : Injective(sending[p])
  /\ Disjoint(Items(in), Items(handling) \cup Items(handled))
  /\ Disjoint(Items(handling), Items(handled))
  /\ \A p \in Senders :
       /\ Disjoint(Items(sending[p]), Items(in) \cup Items(handling) \cup Items(handled))
       /\ \A q \in Senders \ {p} : Disjoint(Items(sending[p]), Items(sending[q]))

\* With a batch size, q.in never holds a full batch once q.mu is free (so the
\* test for equality in Enqueue cannot be overshot), and no batch is larger.
BatchesBounded ==
  BatchSize > 0 =>
    /\ Len(in) < BatchSize
    /\ Len(handling) <= BatchSize
    /\ \A p \in Senders : Len(sending[p]) <= BatchSize

\* The queue implements the promise of BatchSink.
Sink == INSTANCE BatchSink WITH waiting <- Waiting, handled <- Items(handled)
ImplementsSink == Sink!Spec

\* With a ticker, whatever is enqueued is handled in the end.
EventuallyHandled ==
  \A e \in Elements : e \in enqueued ~> e \in Items(handled)
==============================================================================
