----------------------------- MODULE MCItcRefs ------------------------------
(***************************************************************************)
(* ItcRefs on small instances: two containers q and p (Queue, HashTable or *)
(* Vector), which may hold each other and themselves, and an AtomicInteger *)
(* v, used by the main thread and a worker.                                *)
(***************************************************************************)
EXTENDS ItcRefs, TLC
CONSTANTS main, worker, q, p, v, r1, r2, r3, r4, r5
BothThreads == {main, worker}
AllStructs == {q, p, v}
TwoContainers == {q, p}
OneStruct == {v}
OnlyV == {v}
None == {}
Refs3 == {r1, r2, r3}
Refs4 == Refs3 \cup {r4}
Refs5 == Refs4 \cup {r5}
DropEarly == {"drop_early"}
CountLocked == {"count_locked"}
RefSymmetry == Permutations(RefIds)
=============================================================================
