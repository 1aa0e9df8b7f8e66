------------------------------ MODULE BatchSink ------------------------------
(***************************************************************************)
(* What a BatchingQueue promises its users, whatever the batch size and    *)
(* the timeout: an element that Enqueue has taken is waiting until it is   *)
(* handed to the consumer, in a group with others, and that happens at     *)
(* most once.  Nothing is said about the order of the groups.              *)
(***************************************************************************)
CONSTANT Elements

VARIABLES waiting,    \* taken by Enqueue, not yet handled by the consumer
          handled     \* handled by the consumer

vars == <<waiting, handled>>

Init == waiting = {} /\ handled = {}

Take(e) ==
  /\ e \notin waiting \cup handled
  /\ waiting' = waiting \cup {e}
  /\ UNCHANGED handled

HandleGroup(group) ==
  /\ group # {}
  /\ waiting' = waiting \ group
  /\ handled' = handled \cup group

Next ==
  \/ \E e \in Elements : Take(e)
  \/ \E group \in SUBSET waiting : HandleGroup(group)

Spec == Init /\ [][Next]_vars
==============================================================================
