---------------------------- MODULE MCReadCache ----------------------------
(* TLC instance of ReadCache.                                              *)
EXTENDS ReadCache, TLC

Sym == Permutations(Readers) \cup Permutations(Workflows)
=============================================================================
