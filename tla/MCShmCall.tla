----------------------------- MODULE MCShmCall -----------------------------
(***************************************************************************)
(* TLC instances of ShmCall.                                               *)
(***************************************************************************)
EXTENDS ShmCall
=============================================================================
