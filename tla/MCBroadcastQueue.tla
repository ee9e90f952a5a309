-------------------------- MODULE MCBroadcastQueue --------------------------
(***************************************************************************)
(* TLC instances of BroadcastQueue.  Consumers are interchangeable.        *)
(***************************************************************************)
EXTENDS BroadcastQueue, TLC

ConsumerSymmetry == Permutations(Consumers)
=============================================================================
