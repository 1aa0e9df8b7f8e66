------------------------------ MODULE MCStorage ------------------------------
(***************************************************************************)
(* The cache with two messages of one user and topic, delays of 0 and 1,   *)
(* an expiry of 1 second and up to two failures; and the queue with five   *)
(* elements: enough for two full batches of two, a rest that only the      *)
(* ticker emits, and up to three batches on their way at once.             *)
(***************************************************************************)
EXTENDS Storage

CONSTANTS m1, m2, alice, topic

MCTopicOf == [m \in Messages |-> topic]
MCOwnerOf == [m \in Messages |-> IF m = m1 THEN alice ELSE None]
==============================================================================
