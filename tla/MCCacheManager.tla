--------------------------- MODULE MCCacheManager ---------------------------
(***************************************************************************)
(* TLC instances of CacheManager.                                          *)
(***************************************************************************)
EXTENDS CacheManager, TLC

\* Threads and files are interchangeable.
Interchangeable == Permutations(Threads) \cup Permutations(Ids)
=============================================================================
