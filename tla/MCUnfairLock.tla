---------------------------- MODULE MCUnfairLock ----------------------------
(***************************************************************************)
(* TLC instances of UnfairLock.  The threads are not interchangeable: they *)
(* are their priorities.                                                   *)
(***************************************************************************)
EXTENDS UnfairLock
=============================================================================
