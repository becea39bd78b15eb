--------------------------- MODULE MCAtomicInteger --------------------------
(* AtomicInteger with three threads.                                       *)
EXTENDS AtomicInteger, TLC
Five == {5}
Symmetry == Permutations(Threads)
=============================================================================
