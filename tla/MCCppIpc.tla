------------------------------ MODULE MCCppIpc ------------------------------
(***************************************************************************)
(* TLC instance of CppIpc.                                                 *)
(***************************************************************************)
EXTENDS CppIpc
=============================================================================
