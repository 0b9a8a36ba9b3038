---------------------------- MODULE MCCacheStore ----------------------------
(* CacheStore for TLC: processes, keys and outputs are interchangeable.    *)
EXTENDS CacheStore, TLC

Symmetry == Permutations(Proc) \cup Permutations(Key) \cup Permutations(Output)
=============================================================================
