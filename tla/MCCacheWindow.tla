--------------------------- MODULE MCCacheWindow ---------------------------
(* Instances of CacheWindow for TLC. *)
EXTENDS CacheWindow, TLC

CallSymmetry == Permutations(Call)
WorkerSymmetry == Permutations(Worker)
Symmetry == CallSymmetry \cup WorkerSymmetry
=============================================================================
