------------------------------ MODULE MCUploads ------------------------------
(***************************************************************************)
(* Two attachments of one visitor, which together exceed every limit; and  *)
(* two writers that share the bandwidth limiter and one FixedLimiter, and  *)
(* have one of their own each.                                             *)
(***************************************************************************)
EXTENDS Uploads, TLC

CONSTANTS f1, f2, v1, w1, w2, bandwidth, own1, own2, shared

OneOwner == [f \in Files |-> v1]
MCLimit == (bandwidth :> 4) @@ (own1 :> 3) @@ (own2 :> 3) @@ (shared :> 4)
MCLimiters == (w1 :> <<bandwidth, own1, shared>>) @@ (w2 :> <<bandwidth, shared, own2>>)
==============================================================================
